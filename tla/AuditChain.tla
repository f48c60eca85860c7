----------------------------- MODULE AuditChain -----------------------------
(***************************************************************************)
(* What the audit log promises (audit-spec.md, "Tamper-evidence: the hash  *)
(* chain", and the comment of Store.Append): one sequence, extended only   *)
(* at its end, each entry committing to the one inserted just before it    *)
(* and carrying a greater id.  Nothing here knows of processes, locks,     *)
(* clocks or failures.                                                     *)
(***************************************************************************)
EXTENDS AuditVerify

VARIABLE chain

LastHash == IF chain = << >> THEN GenesisHash ELSE chain[Len(chain)].hash

Extends(row) ==
  /\ row.prev = LastHash
  /\ row.hash = ComputeHash(row.prev, row.id, row.ts, row.event)
  /\ \A i \in DOMAIN chain : LessID(chain[i].id, row.id)

Init == chain = << >>

Next ==
  /\ Len(chain') = Len(chain) + 1
  /\ chain' = Append(chain, chain'[Len(chain')])
  /\ Extends(chain'[Len(chain')])

Spec == Init /\ [][Next]_chain
=============================================================================
