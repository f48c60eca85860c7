---------------------------- MODULE AuditVerify ----------------------------
(***************************************************************************)
(* The rows of the audit table, their order and the replay that checks     *)
(* them: internal/audit/chain.go and the read side of                      *)
(* internal/audit/writer.go.                                               *)
(*                                                                         *)
(* A hash is idealised as the history it commits to: SHA-256 over the      *)
(* previous hash and the canonical entry becomes the previous history with *)
(* the entry added.  It is injective and never the genesis value, which is *)
(* what a collision-free hash gives.                                       *)
(***************************************************************************)
EXTENDS Naturals, Sequences

CONSTANT Event          \* what an entry says: its type, actor, subject, outcome and data

(* A ULID is a millisecond and an entropy draw, ordered millisecond first. *)
ID == Nat \X Nat
LessID(a, b) == a[1] < b[1] \/ (a[1] = b[1] /\ a[2] < b[2])

(* Sorts below every generated id: the code's empty lastID. *)
NoID == <<0, 0>>

Hash == Seq(ID \X Nat \X Event)
GenesisHash == << >>
ComputeHash(prev, id, ts, event) == Append(prev, <<id, ts, event>>)

Row == [id : ID, ts : Nat, event : Event, prev : Hash, hash : Hash]

(* Slip: ORDER BY id ASC LIMIT 1. *)
IsOldest(rows, i) == \A j \in DOMAIN rows : ~ LessID(rows[j].id, rows[i].id)

(* ORDER BY id DESC LIMIT 1. *)
IsHead(rows, i) == \A j \in DOMAIN rows : ~ LessID(rows[i].id, rows[j].id)
HeadRow(rows) == rows[CHOOSE i \in DOMAIN rows : IsHead(rows, i)]
HeadHash(rows) == IF rows = << >> THEN GenesisHash ELSE HeadRow(rows).hash
HeadID(rows) == IF rows = << >> THEN NoID ELSE HeadRow(rows).id

(***************************************************************************)
(* Verify walks ORDER BY id ASC: the row before row i is the one with the  *)
(* greatest smaller id, wherever it sits in insertion order.               *)
(***************************************************************************)
Below(rows, i) == {j \in DOMAIN rows : LessID(rows[j].id, rows[i].id)}
IsPrevious(rows, i, j) == \A k \in Below(rows, i) : ~ LessID(rows[j].id, rows[k].id)
Expected(rows, i) ==
  IF Below(rows, i) = {}
    THEN GenesisHash
    ELSE rows[CHOOSE j \in Below(rows, i) : IsPrevious(rows, i, j)].hash

(* Slip: the walk trusts each row's own hash. *)
StoredHash(rows, i) == rows[i].hash

Recomputed(rows, i) ==
  ComputeHash(Expected(rows, i), rows[i].id, rows[i].ts, rows[i].event)

Breaks(rows) ==
  {i \in DOMAIN rows : \/ rows[i].prev # Expected(rows, i)
                       \/ rows[i].hash # Recomputed(rows, i)}

Valid(rows) == Breaks(rows) = {}

(* The id Verify stops at: the first broken row in id order. *)
BrokenAt(rows) ==
  rows[CHOOSE i \in Breaks(rows) : Below(rows, i) \cap Breaks(rows) = {}].id
=============================================================================
