------------------------------ MODULE RpcCalls ------------------------------
(***************************************************************************)
(* What a caller of Transport.Request is promised: its call ends once,     *)
(* with the peer's own answer to it or with a failure.                     *)
(***************************************************************************)
CONSTANT Request

VARIABLES
  answered,   \* the requests that the peer has answered
  outcome     \* what each call has returned

Init == answered = {} /\ outcome = [r \in Request |-> "none"]

Answer(r) == answered' = answered \union {r} /\ UNCHANGED outcome

Return(r, result) ==
  /\ outcome[r] = "none"
  /\ result = "answer" => r \in answered
  /\ outcome' = [outcome EXCEPT ![r] = result]
  /\ UNCHANGED answered

Next == \E r \in Request : Answer(r) \/ \E result \in {"answer", "failure"} : Return(r, result)

Spec == Init /\ [][Next]_<<answered, outcome>>
=============================================================================
