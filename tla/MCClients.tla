----------------------------- MODULE MCClients -----------------------------
EXTENDS Clients, TLC

At(s, h) == [sec |-> s, frac |-> <<h>>]
Noon == {At(1, 0)}
AroundNoon == {At(0, 1), At(2, 0)}

Symmetry == Permutations(Worker) \union Permutations(Code)
=============================================================================
