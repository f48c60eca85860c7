---------------------------- MODULE VectorStore ----------------------------
(***************************************************************************)
(* What adapter/memory/adapter.go promises of every memory adapter: a map  *)
(* from ids to vectors, where the batch of a call is written whole or not  *)
(* at all and removing what is absent changes nothing.                     *)
(***************************************************************************)
CONSTANTS Id, Vector, Worker, None

VARIABLES
  stored,
  asked     \* what each open call is to write; None in the place of a vector removes it

vars == <<stored, asked>>

Changes == (UNION {[ids -> Vector] : ids \in SUBSET Id}) \union {[y \in {x} |-> None] : x \in Id}

Init == stored = [x \in Id |-> None] /\ asked = [w \in Worker |-> <<>>]

Ask(w, change) == asked[w] = <<>> /\ asked' = [asked EXCEPT ![w] = change] /\ UNCHANGED stored

Write(w) ==
  /\ stored' = [x \in Id |-> IF x \in DOMAIN asked[w] THEN asked[w][x] ELSE stored[x]]
  /\ asked' = [asked EXCEPT ![w] = <<>>]

(* One call is refused, or all those that an adapter had open when it was  *)
(* closed.                                                                 *)
Refuse(ws) ==
  asked' = [w \in Worker |-> IF w \in ws THEN <<>> ELSE asked[w]] /\ UNCHANGED stored

Next ==
  \/ \E w \in Worker : Write(w) \/ \E change \in Changes : Ask(w, change)
  \/ \E ws \in SUBSET Worker : Refuse(ws)

Spec == Init /\ [][Next]_vars
=============================================================================
