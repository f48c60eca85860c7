---------------------------- MODULE MCPermission ----------------------------
EXTENDS Permission, TLC

(* The first scope is unconstrained, the second covers only itself. *)
MCCovers == {<<s, t>> \in Scope \X Scope : s = t \/ s = "any"}

(* Instants in half seconds: a second and one binary digit of its fraction. *)
At(s, h) == [sec |-> s, frac |-> <<h>>]
Morning == {At(0, 1)}
Noon == {At(1, 0)}
AroundNoon == {At(0, 1), At(2, 0)}

Symmetry == Permutations(Worker) \union Permutations(Principal)
=============================================================================
