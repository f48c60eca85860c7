-------------------------- MODULE AuditLog_proofs --------------------------
(***************************************************************************)
(* Proofs about AuditLog, for any set of processes, events and entropy     *)
(* draws, any number of attempts and any bounds.                           *)
(***************************************************************************)
EXTENDS AuditLog, TLAPS

-----------------------------------------------------------------------------
(* The order of ids.                                                       *)

(* Ids are ordered by a strict total order, and nothing sorts below NoID:  *)
(* the string comparison of ULIDs that nextID and ORDER BY id rely on.     *)
LEMMA IdOrder ==
  ASSUME NEW a \in ID, NEW b \in ID, NEW c \in ID
  PROVE  /\ ~ LessID(a, a)
         /\ LessID(a, b) /\ LessID(b, c) => LessID(a, c)
         /\ LessID(a, b) => ~ LessID(b, a)
         /\ LessID(a, b) \/ LessID(b, a) \/ a = b
         /\ ~ LessID(a, NoID)
         /\ LessID(a, b) => b # NoID
  BY DEF ID, LessID, NoID

LEMMA NoIDType == NoID \in ID
  BY DEF NoID, ID

(* With ids that follow insertion, the row of ORDER BY id DESC LIMIT 1 is  *)
(* the row inserted last.                                                  *)
LEMMA HeadIsLast ==
  ASSUME rows \in Seq(Row), IdsFollowInsertion, rows # << >>
  PROVE  /\ HeadRow(rows) = rows[Len(rows)]
         /\ Len(rows) \in DOMAIN rows
         /\ \A j \in DOMAIN rows : rows[j].id \in ID
<1>1. \A j \in DOMAIN rows : rows[j].id \in ID
  <2>1. \A j \in DOMAIN rows : rows[j] \in Row
    OBVIOUS
  <2> QED
    BY <2>1 DEF Row
<1>2. Len(rows) \in DOMAIN rows /\ DOMAIN rows = 1 .. Len(rows)
  OBVIOUS
<1>3. IsHead(rows, Len(rows))
  <2> SUFFICES ASSUME NEW j \in DOMAIN rows
               PROVE  ~ LessID(rows[Len(rows)].id, rows[j].id)
    BY DEF IsHead
  <2>1. CASE j = Len(rows)
    BY <1>1, <2>1, IdOrder
  <2>2. CASE j < Len(rows)
    BY <1>1, <1>2, <2>2, IdOrder DEF IdsFollowInsertion
  <2> QED
    BY <1>2, <2>1, <2>2
<1>4. ASSUME NEW i \in DOMAIN rows, IsHead(rows, i)
      PROVE  i = Len(rows)
  <2> SUFFICES ASSUME i < Len(rows) PROVE FALSE
    BY <1>2
  <2>1. LessID(rows[i].id, rows[Len(rows)].id)
    BY <1>2 DEF IdsFollowInsertion
  <2> QED
    BY <1>2, <1>4, <2>1 DEF IsHead
<1>5. (CHOOSE i \in DOMAIN rows : IsHead(rows, i)) = Len(rows)
  BY <1>2, <1>3, <1>4
<1> QED
  BY <1>1, <1>2, <1>5 DEF HeadRow

LEMMA HeadTypes ==
  ASSUME rows \in Seq(Row), IdsFollowInsertion
  PROVE  HeadID(rows) \in ID /\ HeadHash(rows) \in Hash
<1>1. CASE rows = << >>
  BY <1>1, NoIDType DEF HeadID, HeadHash, GenesisHash, Hash
<1>2. CASE rows # << >>
  <2>1. rows[Len(rows)] \in Row
    BY <1>2
  <2> QED
    BY <1>2, <2>1, HeadIsLast DEF HeadID, HeadHash, Row
<1> QED
  BY <1>1, <1>2

(* No recorded id exceeds the head's. *)
LEMMA HeadIsGreatest ==
  ASSUME rows \in Seq(Row), IdsFollowInsertion, NEW i \in DOMAIN rows
  PROVE  ~ LessID(HeadID(rows), rows[i].id)
<1>1. rows # << >>
  OBVIOUS
<1>2. CASE i = Len(rows)
  BY <1>1, <1>2, HeadIsLast, IdOrder DEF HeadID
<1>3. CASE i < Len(rows)
  BY <1>1, <1>3, HeadIsLast, IdOrder DEF HeadID, IdsFollowInsertion
<1> QED
  BY <1>2, <1>3

-----------------------------------------------------------------------------
(* Types.                                                                  *)

LEMMA NoRowType == \A event \in Event : NoRow(event) \in Row
  BY NoIDType DEF NoRow, Row, Hash, GenesisHash

LEMMA HashType ==
  ASSUME NEW h \in Hash, NEW id \in ID, NEW ts \in Nat, NEW event \in Event
  PROVE  ComputeHash(h, id, ts, event) \in Hash
  BY DEF ComputeHash, Hash

(* What Append leaves behind when it returns, committed or not. *)
LEMMA ReturnTypes ==
  ASSUME TypeOK, NEW p \in Process, Return(p)
  PROVE  /\ dbLock' \in Process \union {NoProcess}
         /\ pc' \in [Process -> Step]
         /\ lastID' \in [Process -> ID]
         /\ entropy' \in [Process -> ID]
         /\ draft' \in [Process -> Row]
         /\ now' \in [Process -> Nat]
         /\ tries' \in [Process -> Nat]
         /\ clock' \in Nat /\ peak' \in Nat /\ generated' \in Nat
<1>1. NoRow(draft[p].event) \in Row
  BY NoRowType DEF TypeOK, Row
<1> QED
  BY <1>1 DEF TypeOK, Return, Release, Step

LEMMA InitTypes == Init => TypeOK
  BY NoIDType, NoRowType DEF Init, TypeOK, Step

(* Each action keeps every variable in its type. *)
LEMMA NextTypes ==
  ASSUME TypeOK, IdsFollowInsertion, [Next]_vars
  PROVE  TypeOK'
<1> USE AuditAssumption, NoIDType
<1>0. HeadID(rows) \in ID /\ HeadHash(rows) \in Hash
  BY HeadTypes DEF TypeOK
<1>1. ASSUME NEW p \in Process, Open(p)
      PROVE  TypeOK'
  BY <1>0, <1>1 DEF Open, TypeOK, Step
<1>2. ASSUME NEW p \in Process, Crash(p)
      PROVE  TypeOK'
  <2>1. NoRow(draft[p].event) \in Row
    BY NoRowType DEF TypeOK, Row
  <2> QED
    BY <1>2, <2>1 DEF Crash, Release, TypeOK, Step
<1>3. ASSUME NEW p \in Process, NEW event \in Event, Call(p, event)
      PROVE  TypeOK'
  BY <1>3, NoRowType DEF Call, TypeOK, Step
<1>4. CASE Tick
  BY <1>4 DEF Tick, TypeOK
<1>5. CASE StepBack
  BY <1>5 DEF StepBack, TypeOK
<1>6. ASSUME NEW p \in Process, Begin(p)
      PROVE  TypeOK'
  BY <1>6 DEF Begin, TypeOK, Step, InTx
<1>7. ASSUME NEW p \in Process, ReadHead(p)
      PROVE  TypeOK'
  <2>1. draft' \in [Process -> Row]
    BY <1>0, <1>7 DEF ReadHead, TypeOK, Row
  <2> QED
    BY <1>0, <1>7, <2>1 DEF ReadHead, TypeOK, Step, InTx
<1>8. ASSUME NEW p \in Process, TryID(p)
      PROVE  TypeOK'
  <2>1. PICK e \in Draws(p) : TakeID(p, e) \/ BumpID(p, e)
    BY <1>8 DEF TryID
  <2>2. e \in Nat /\ <<now[p], e>> \in ID
    BY DEF Draws, TypeOK, ID
  <2>3. CASE TakeID(p, e)
    <3>1. draft' \in [Process -> Row]
      BY <2>2, <2>3 DEF TakeID, TypeOK, Row
    <3>2. lastID' \in [Process -> ID] /\ entropy' \in [Process -> ID]
      BY <2>2, <2>3 DEF TakeID, TypeOK
    <3>3. generated' \in Nat /\ pc' \in [Process -> Step]
      BY <2>3 DEF TakeID, TypeOK, Step, InTx
    <3>4. UNCHANGED <<rows, dbLock, now, tries, clock, peak, acked>>
      BY <2>3 DEF TakeID
    <3> QED
      BY <3>1, <3>2, <3>3, <3>4 DEF TypeOK
  <2>4. CASE BumpID(p, e)
    BY <2>2, <2>4 DEF BumpID, TypeOK
  <2> QED
    BY <2>1, <2>3, <2>4
<1>9. ASSUME NEW p \in Process, Insert(p)
      PROVE  TypeOK'
  <2>1. draft[p] \in Row
    BY DEF TypeOK
  <2>2. ComputeHash(draft[p].prev, draft[p].id, draft[p].ts, draft[p].event) \in Hash
    BY <2>1, HashType DEF Row
  <2>3. draft' \in [Process -> Row]
    BY <1>9, <2>2 DEF Insert, TypeOK, Row
  <2> QED
    BY <1>9, <2>3 DEF Insert, TypeOK, Step, InTx
<1>10. ASSUME NEW p \in Process, Commit(p) \/ CommitUnconfirmed(p)
       PROVE  TypeOK'
  <2>2. draft[p] \in Row /\ rows' = Append(rows, draft[p])
    BY <1>10 DEF Commit, CommitUnconfirmed, TypeOK
  <2>1. rows' \in Seq(Row) /\ acked' \subseteq Row
    BY <1>10, <2>2 DEF Commit, CommitUnconfirmed, TypeOK
  <2> QED
    BY <1>10, <2>1, ReturnTypes DEF Commit, CommitUnconfirmed, TypeOK
<1>11. ASSUME NEW p \in Process, StatementFails(p) \/ GiveUp(p) \/ EntropyOverflow(p)
       PROVE  TypeOK'
  BY <1>11, ReturnTypes DEF StatementFails, GiveUp, EntropyOverflow, TypeOK
<1>12. CASE UNCHANGED vars
  BY <1>12 DEF vars, TypeOK
<1> QED
  BY <1>1, <1>2, <1>3, <1>4, <1>5, <1>6, <1>7, <1>8, <1>9, <1>10, <1>11, <1>12
  DEF Next, AppendStep

-----------------------------------------------------------------------------
(* What a step may touch.                                                  *)

ProcessStep(p) ==
  Open(p) \/ Crash(p) \/ (\E event \in Event : Call(p, event)) \/ AppendStep(p)

(* A process touches no local state of another. *)
LEMMA OwnState ==
  ASSUME TypeOK, NEW p \in Process, ProcessStep(p), NEW q \in Process, q # p
  PROVE  /\ pc'[q] = pc[q] /\ lastID'[q] = lastID[q] /\ draft'[q] = draft[q]
         /\ now'[q] = now[q] /\ tries'[q] = tries[q]
<1> USE DEF TypeOK
<1>1. CASE Open(p) \/ Crash(p) \/ \E event \in Event : Call(p, event)
  BY <1>1 DEF Open, Crash, Call
<1>2. CASE Begin(p) \/ ReadHead(p) \/ Insert(p)
  BY <1>2 DEF Begin, ReadHead, Insert
<1>3. CASE TryID(p)
  BY <1>3 DEF TryID, TakeID, BumpID
<1>4. CASE Commit(p) \/ CommitUnconfirmed(p) \/ StatementFails(p) \/ GiveUp(p)
           \/ EntropyOverflow(p)
  BY <1>4 DEF Commit, CommitUnconfirmed, StatementFails, GiveUp, EntropyOverflow, Return
<1> QED
  BY <1>1, <1>2, <1>3, <1>4 DEF ProcessStep, AppendStep

(* Steps that are no process's: the clock's, and stuttering. *)
LEMMA StepCases ==
  ASSUME [Next]_vars
  PROVE  \/ \E p \in Process : ProcessStep(p)
         \/ /\ Tick \/ StepBack \/ UNCHANGED vars
            /\ UNCHANGED <<rows, dbLock, pc, lastID, entropy, draft, now, tries,
                           generated, acked>>
  BY DEF Next, ProcessStep, Tick, StepBack, vars

(* The table changes only when the process that holds the lock commits. *)
LEMMA RowsStep ==
  ASSUME TypeOK, NEW p \in Process, ProcessStep(p)
  PROVE  \/ rows' = rows
         \/ /\ pc[p] = "commit"
            /\ rows' = Append(rows, draft[p])
            /\ pc'[p] = "idle"
            /\ acked' \subseteq acked \union {draft[p]}
            /\ UNCHANGED <<lastID, clock, peak, generated>>
<1>1. CASE Open(p) \/ Crash(p) \/ \E event \in Event : Call(p, event)
  BY <1>1 DEF Open, Crash, Call
<1>2. CASE Begin(p) \/ ReadHead(p) \/ Insert(p)
  BY <1>2 DEF Begin, ReadHead, Insert
<1>3. CASE TryID(p)
  BY <1>3 DEF TryID, TakeID, BumpID
<1>4. CASE Commit(p) \/ CommitUnconfirmed(p)
  BY <1>4 DEF Commit, CommitUnconfirmed, Return, TypeOK
<1>5. CASE StatementFails(p) \/ GiveUp(p) \/ EntropyOverflow(p)
  BY <1>5 DEF StatementFails, GiveUp, EntropyOverflow
<1> QED
  BY <1>1, <1>2, <1>3, <1>4, <1>5 DEF ProcessStep, AppendStep

-----------------------------------------------------------------------------
(* The conjuncts of the inductive invariant, one by one.                   *)

(* Between BEGIN and COMMIT a process holds the write lock. *)
LEMMA LockStep ==
  ASSUME TypeOK, LockHeld, [Next]_vars
  PROVE  LockHeld'
<1> USE AuditAssumption
<1>1. ASSUME NEW p \in Process, ProcessStep(p)
      PROVE  LockHeld'
  <2> SUFFICES ASSUME NEW q \in Process, pc'[q] \in InTx
               PROVE  dbLock' = q
    BY DEF LockHeld
  <2>1. q # p => pc'[q] = pc[q] /\ dbLock = q
    BY <1>1, OwnState DEF LockHeld
  <2>2. CASE Open(p) \/ Crash(p) \/ \E event \in Event : Call(p, event)
    BY <2>1, <2>2 DEF Open, Crash, Call, Release, TypeOK, InTx
  <2>3. CASE Begin(p)
    BY <2>1, <2>3 DEF Begin, TypeOK
  <2>4. CASE ReadHead(p) \/ Insert(p)
    BY <2>1, <2>4 DEF ReadHead, Insert, LockHeld, TypeOK, InTx
  <2>5. CASE TryID(p)
    BY <2>1, <2>5 DEF TryID, TakeID, BumpID, LockHeld, TypeOK, InTx
  <2>6. CASE Commit(p) \/ CommitUnconfirmed(p) \/ StatementFails(p) \/ GiveUp(p)
             \/ EntropyOverflow(p)
    <3>1. Return(p)
      BY <2>6 DEF Commit, CommitUnconfirmed, StatementFails, GiveUp, EntropyOverflow
    <3> QED
      BY <2>1, <3>1 DEF Return, Release, TypeOK, InTx
  <2> QED
    BY <1>1, <2>2, <2>3, <2>4, <2>5, <2>6 DEF ProcessStep, AppendStep
<1> QED
  BY <1>1, StepCases DEF LockHeld

(* A committed draft extends the chain of ids, of hashes and of dates. *)
LEMMA CommitExtends ==
  ASSUME IInv, NEW p \in Process, pc[p] = "commit", rows' = Append(rows, draft[p])
  PROVE  IdsFollowInsertion' /\ Linked' /\ IdNearTimestamp'
<1>1. draft[p] \in Row /\ rows \in Seq(Row)
  BY DEF IInv, TypeOK
<1>2. /\ Len(rows') = Len(rows) + 1
      /\ DOMAIN rows' = 1 .. Len(rows) + 1
      /\ DOMAIN rows = 1 .. Len(rows)
      /\ rows'[Len(rows) + 1] = draft[p]
      /\ \A i \in DOMAIN rows : rows'[i] = rows[i]
      /\ Len(rows) \in Nat
  BY <1>1
<1>3. /\ \A i \in DOMAIN rows : LessID(rows[i].id, draft[p].id)
      /\ draft[p].ts <= draft[p].id[1]
      /\ draft[p].id[1] < draft[p].ts + MaxAttempts
      /\ draft[p].hash = ComputeHash(draft[p].prev, draft[p].id, draft[p].ts, draft[p].event)
      /\ draft[p].prev = HeadHash(rows)
  BY DEF IInv, DraftReady, Dated, Hashed, HeadKnown
<1>4. IdsFollowInsertion'
  <2> SUFFICES ASSUME NEW i \in DOMAIN rows', NEW j \in DOMAIN rows', i < j
               PROVE  LessID(rows'[i].id, rows'[j].id)
    BY DEF IdsFollowInsertion
  <2>1. CASE j = Len(rows) + 1
    BY <1>2, <1>3, <2>1
  <2>2. CASE j # Len(rows) + 1
    BY <1>2, <2>2 DEF IInv, IdsFollowInsertion
  <2> QED
    BY <2>1, <2>2
<1>5. Linked'
  <2>1. draft[p].prev = IF rows = << >> THEN GenesisHash ELSE rows[Len(rows)].hash
    BY <1>1, <1>3, HeadIsLast DEF HeadHash, IInv
  <2> SUFFICES ASSUME NEW i \in DOMAIN rows'
               PROVE  /\ rows'[i].prev = IF i = 1 THEN GenesisHash ELSE rows'[i - 1].hash
                      /\ rows'[i].hash =
                           ComputeHash(rows'[i].prev, rows'[i].id, rows'[i].ts, rows'[i].event)
    BY DEF Linked
  <2>2. CASE i = Len(rows) + 1
    <3>1. CASE i = 1
      <4>1. rows = << >>
        BY <1>1, <1>2, <2>2, <3>1
      <4> QED
        BY <1>2, <1>3, <2>1, <2>2, <3>1, <4>1
    <3>2. CASE i # 1
      <4>1. rows # << >> /\ Len(rows) \in DOMAIN rows /\ i - 1 = Len(rows)
        BY <1>1, <1>2, <2>2, <3>2
      <4> QED
        BY <1>2, <1>3, <2>1, <2>2, <3>2, <4>1
    <3> QED
      BY <3>1, <3>2
  <2>3. CASE i # Len(rows) + 1
    <3>1. i \in DOMAIN rows /\ (i # 1 => i - 1 \in DOMAIN rows)
      BY <1>2, <2>3
    <3> QED
      BY <1>2, <3>1 DEF IInv, Linked
  <2> QED
    BY <2>2, <2>3
<1>6. IdNearTimestamp'
  BY <1>2, <1>3 DEF IInv, IdNearTimestamp
<1> QED
  BY <1>4, <1>5, <1>6

LEMMA RowsInvStep ==
  ASSUME IInv, [Next]_vars
  PROVE  IdsFollowInsertion' /\ Linked' /\ IdNearTimestamp'
<1>1. CASE rows' = rows
  BY <1>1 DEF IInv, IdsFollowInsertion, Linked, IdNearTimestamp
<1>2. ASSUME NEW p \in Process, ProcessStep(p), rows' # rows
      PROVE  IdsFollowInsertion' /\ Linked' /\ IdNearTimestamp'
  BY <1>2, RowsStep, CommitExtends DEF IInv
<1> QED
  BY <1>1, <1>2, StepCases

(* What a transaction read of the head stays true until it ends. *)
LEMMA HeadKnownStep ==
  ASSUME IInv, [Next]_vars
  PROVE  HeadKnown'
<1> USE DEF IInv
<1>1. ASSUME NEW p \in Process, ProcessStep(p), NEW q \in Process, q # p
      PROVE  /\ pc'[q] \in {"id", "insert", "commit"} => draft'[q].prev = HeadHash(rows')
             /\ pc'[q] = "id" => ~ LessID(lastID'[q], HeadID(rows'))
  <2> SUFFICES ASSUME pc'[q] \in {"id", "insert", "commit"}
               PROVE  /\ draft'[q].prev = HeadHash(rows')
                      /\ pc'[q] = "id" => ~ LessID(lastID'[q], HeadID(rows'))
    OBVIOUS
  <2>1. pc'[q] = pc[q] /\ lastID'[q] = lastID[q] /\ draft'[q] = draft[q]
    BY <1>1, OwnState
  <2>2. dbLock = q
    BY <2>1 DEF LockHeld, InTx
  <2>3. pc[p] # "commit"
    BY <1>1, <2>2 DEF LockHeld, InTx
  <2>4. rows' = rows
    BY <1>1, <2>3, RowsStep
  <2> QED
    BY <2>1, <2>4 DEF HeadKnown
<1>2. ASSUME NEW p \in Process, ProcessStep(p)
      PROVE  /\ pc'[p] \in {"id", "insert", "commit"} => draft'[p].prev = HeadHash(rows')
             /\ pc'[p] = "id" => ~ LessID(lastID'[p], HeadID(rows'))
  <2>1. CASE Open(p) \/ Crash(p) \/ (\E event \in Event : Call(p, event)) \/ Begin(p)
    BY <2>1 DEF Open, Crash, Call, Begin, TypeOK
  <2>2. CASE ReadHead(p)
    <3>1. HeadID(rows) \in ID
      BY HeadTypes DEF TypeOK
    <3>2. draft'[p].prev = HeadHash(rows) /\ rows' = rows
      BY <2>2 DEF ReadHead, TypeOK, Row
    <3>3. ~ LessID(lastID'[p], HeadID(rows))
      BY <2>2, <3>1, IdOrder DEF ReadHead, TypeOK
    <3> QED
      BY <3>2, <3>3
  <2>3. CASE TryID(p)
    <3>1. PICK e \in Draws(p) : TakeID(p, e) \/ BumpID(p, e)
      BY <2>3 DEF TryID
    <3>2. pc[p] = "id" /\ rows' = rows /\ draft'[p].prev = draft[p].prev
      BY <2>3, <3>1 DEF TryID, TakeID, BumpID, TypeOK, Row
    <3>3. pc'[p] = "id" => lastID'[p] = lastID[p]
      BY <3>1 DEF TakeID, BumpID, TypeOK
    <3> QED
      BY <3>2, <3>3 DEF HeadKnown
  <2>4. CASE Insert(p)
    <3>1. pc[p] = "insert" /\ pc'[p] = "commit" /\ rows' = rows
      BY <2>4 DEF Insert, TypeOK
    <3>2. draft'[p].prev = draft[p].prev
      BY <2>4 DEF Insert, TypeOK, Row
    <3> QED
      BY <3>1, <3>2 DEF HeadKnown
  <2>5. CASE Commit(p) \/ CommitUnconfirmed(p) \/ StatementFails(p) \/ GiveUp(p)
             \/ EntropyOverflow(p)
    BY <2>5 DEF Commit, CommitUnconfirmed, StatementFails, GiveUp, EntropyOverflow,
               Return, TypeOK
  <2> QED
    BY <1>2, <2>1, <2>2, <2>3, <2>4, <2>5 DEF ProcessStep, AppendStep
<1>3. CASE UNCHANGED <<rows, pc, lastID, draft>>
  BY <1>3 DEF HeadKnown
<1> QED
  BY <1>1, <1>2, <1>3, StepCases DEF HeadKnown

(* The draft of a transaction about to commit is complete, and its id      *)
(* exceeds every recorded one.                                             *)
LEMMA DraftReadyStep ==
  ASSUME IInv, [Next]_vars
  PROVE  DraftReady'
<1> USE AuditAssumption DEF IInv
<1>1. ASSUME NEW p \in Process, ProcessStep(p), NEW q \in Process, q # p
      PROVE  /\ pc'[q] \in {"insert", "commit"} => Dated(q)'
             /\ pc'[q] = "commit" => Hashed(q)'
  <2>1. pc'[q] = pc[q] /\ lastID'[q] = lastID[q] /\ draft'[q] = draft[q]
    BY <1>1, OwnState
  <2>2. pc[q] \in {"insert", "commit"} => rows' = rows
    <3> SUFFICES ASSUME pc[q] \in {"insert", "commit"} PROVE rows' = rows
      OBVIOUS
    <3>1. pc[p] # "commit"
      BY <1>1 DEF LockHeld, InTx
    <3> QED
      BY <1>1, <3>1, RowsStep
  <2> QED
    BY <2>1, <2>2 DEF DraftReady, Dated, Hashed
<1>2. ASSUME NEW p \in Process, ProcessStep(p)
      PROVE  /\ pc'[p] \in {"insert", "commit"} => Dated(p)'
             /\ pc'[p] = "commit" => Hashed(p)'
  <2>1. CASE \/ Open(p) \/ Crash(p) \/ (\E event \in Event : Call(p, event))
             \/ Begin(p) \/ ReadHead(p)
    BY <2>1 DEF Open, Crash, Call, Begin, ReadHead, TypeOK
  <2>2. CASE TryID(p)
    <3>1. PICK e \in Draws(p) : TakeID(p, e) \/ BumpID(p, e)
      BY <2>2 DEF TryID
    <3>2. CASE BumpID(p, e)
      BY <2>2, <3>2 DEF TryID, BumpID, TypeOK
    <3>3. CASE TakeID(p, e)
      <4>1. <<now[p], e>> \in ID /\ pc[p] = "id" /\ tries[p] < MaxAttempts
        BY <2>2 DEF TryID, Draws, ID, TypeOK
      <4>2. /\ draft'[p].id = <<now[p], e>> /\ lastID'[p] = <<now[p], e>>
            /\ draft'[p].ts = draft[p].ts /\ rows' = rows /\ pc'[p] = "insert"
            /\ LessID(lastID[p], <<now[p], e>>)
        BY <3>3 DEF TakeID, TypeOK, Row
      <4>3. \A i \in DOMAIN rows : LessID(rows[i].id, <<now[p], e>>)
        <5> SUFFICES ASSUME NEW i \in DOMAIN rows
                     PROVE  LessID(rows[i].id, <<now[p], e>>)
          OBVIOUS
        <5>0. rows[i] \in Row
          BY DEF TypeOK
        <5>1. rows[i].id \in ID /\ lastID[p] \in ID /\ HeadID(rows) \in ID
          BY <5>0, HeadTypes DEF TypeOK, Row
        <5>2. ~ LessID(lastID[p], HeadID(rows)) /\ ~ LessID(HeadID(rows), rows[i].id)
          BY <4>1, HeadIsGreatest DEF HeadKnown, TypeOK
        <5>3. ~ LessID(lastID[p], rows[i].id)
          BY <5>1, <5>2, IdOrder
        <5> QED
          BY <4>1, <4>2, <5>1, <5>3, IdOrder
      <4>4. now[p] = draft[p].ts + tries[p] /\ tries[p] \in Nat /\ draft[p].ts \in Nat
        BY <4>1 DEF Bumped, TypeOK, Row
      <4>5. <<now[p], e>> # NoID
        BY <4>1, <4>2, IdOrder DEF TypeOK
      <4> QED
        BY <4>1, <4>2, <4>3, <4>4, <4>5 DEF Dated
    <3> QED
      BY <3>1, <3>2, <3>3
  <2>3. CASE Insert(p)
    <3>1. /\ pc[p] = "insert" /\ rows' = rows /\ lastID' = lastID
          /\ draft'[p].hash = ComputeHash(draft[p].prev, draft[p].id, draft[p].ts, draft[p].event)
          /\ draft'[p].prev = draft[p].prev /\ draft'[p].id = draft[p].id
          /\ draft'[p].ts = draft[p].ts /\ draft'[p].event = draft[p].event
      BY <2>3 DEF Insert, TypeOK, Row
    <3> QED
      BY <3>1 DEF DraftReady, Dated, Hashed
  <2>4. CASE Commit(p) \/ CommitUnconfirmed(p) \/ StatementFails(p) \/ GiveUp(p)
             \/ EntropyOverflow(p)
    BY <2>4 DEF Commit, CommitUnconfirmed, StatementFails, GiveUp, EntropyOverflow,
               Return, TypeOK
  <2> QED
    BY <1>2, <2>1, <2>2, <2>3, <2>4 DEF ProcessStep, AppendStep
<1>3. CASE UNCHANGED <<rows, pc, lastID, draft>>
  BY <1>3 DEF DraftReady, Dated, Hashed
<1> QED
  BY <1>1, <1>2, <1>3, StepCases DEF DraftReady

(* Every attempt of nextID moves one millisecond on, and has seen an id of *)
(* at least the millisecond before.                                        *)
LEMMA BumpedStep ==
  ASSUME IInv, [Next]_vars
  PROVE  Bumped'
<1> USE AuditAssumption DEF IInv
<1>1. ASSUME NEW p \in Process, ProcessStep(p), NEW q \in Process, q # p
      PROVE  pc'[q] = "id" =>
               /\ now'[q] = draft'[q].ts + tries'[q]
               /\ tries'[q] <= MaxAttempts
               /\ draft'[q].ts <= peak'
               /\ tries'[q] > 0 => lastID'[q] # NoID /\ now'[q] <= lastID'[q][1] + 1
  <2>1. peak' = peak
    BY <1>1 DEF ProcessStep, AppendStep, Open, Crash, Call, Begin, ReadHead, TryID, TakeID,
               BumpID, Insert, Commit, CommitUnconfirmed, StatementFails, GiveUp,
               EntropyOverflow, Return
  <2> QED
    BY <1>1, <2>1, OwnState DEF Bumped
<1>2. ASSUME NEW p \in Process, ProcessStep(p)
      PROVE  pc'[p] = "id" =>
               /\ now'[p] = draft'[p].ts + tries'[p]
               /\ tries'[p] <= MaxAttempts
               /\ draft'[p].ts <= peak'
               /\ tries'[p] > 0 => lastID'[p] # NoID /\ now'[p] <= lastID'[p][1] + 1
  <2>1. CASE \/ Open(p) \/ Crash(p) \/ (\E event \in Event : Call(p, event))
             \/ Begin(p) \/ Insert(p)
    BY <2>1 DEF Open, Crash, Call, Begin, Insert, TypeOK
  <2>2. CASE ReadHead(p)
    <3>1. /\ draft'[p].ts = clock /\ now'[p] = clock /\ tries'[p] = 0 /\ peak' = peak
      BY <2>2 DEF ReadHead, TypeOK, Row
    <3> QED
      BY <3>1 DEF AheadOfClock, TypeOK
  <2>3. CASE TryID(p)
    <3>1. PICK e \in Draws(p) : TakeID(p, e) \/ BumpID(p, e)
      BY <2>3 DEF TryID
    <3>2. CASE TakeID(p, e)
      BY <3>2 DEF TakeID, TypeOK
    <3>3. CASE BumpID(p, e)
      <4>1. /\ now'[p] = now[p] + 1 /\ tries'[p] = tries[p] + 1
            /\ UNCHANGED <<lastID, draft, peak>> /\ ~ LessID(lastID[p], <<now[p], e>>)
            /\ pc[p] = "id" /\ tries[p] < MaxAttempts
        BY <2>3, <3>3 DEF BumpID, TryID, TypeOK
      <4>2. e \in Nat \ {0} /\ lastID[p] \in ID /\ now[p] \in Nat /\ tries[p] \in Nat
            /\ draft[p] \in Row
        BY DEF Draws, TypeOK
      <4>3. lastID[p] # NoID /\ now[p] <= lastID[p][1]
        BY <4>1, <4>2 DEF LessID, NoID, ID
      <4>4. lastID[p][1] \in Nat /\ draft[p].ts \in Nat
        BY <4>2 DEF ID, Row
      <4> QED
        BY <4>1, <4>2, <4>3, <4>4 DEF Bumped
    <3> QED
      BY <3>1, <3>2, <3>3
  <2>4. CASE Commit(p) \/ CommitUnconfirmed(p) \/ StatementFails(p) \/ GiveUp(p)
             \/ EntropyOverflow(p)
    BY <2>4 DEF Commit, CommitUnconfirmed, StatementFails, GiveUp, EntropyOverflow,
               Return, TypeOK
  <2> QED
    BY <1>2, <2>1, <2>2, <2>3, <2>4 DEF ProcessStep, AppendStep
<1>3. CASE (Tick \/ StepBack \/ UNCHANGED vars) /\ UNCHANGED <<pc, lastID, draft, now, tries>>
  <2>1. peak <= peak' /\ \A q \in Process : draft[q].ts \in Nat
    <3>1. \A q \in Process : draft[q] \in Row
      BY DEF TypeOK
    <3> QED
      BY <1>3, <3>1 DEF Tick, StepBack, vars, TypeOK, Row
  <2> QED
    BY <1>3, <2>1, NextTypes DEF Bumped, TypeOK
<1> QED
  BY <1>1, <1>2, <1>3, StepCases DEF Bumped

(* Ids run ahead of the highest clock by less than the ids generated.      *)
LEMMA AheadOfClockStep ==
  ASSUME IInv, [Next]_vars
  PROVE  AheadOfClock'
<1> USE AuditAssumption DEF IInv
<1>0. /\ \A i \in DOMAIN rows : rows[i] \in Row /\ rows[i].id \in ID
      /\ \A q \in Process : lastID[q] \in ID
  <2>1. \A i \in DOMAIN rows : rows[i] \in Row
    BY DEF TypeOK
  <2> QED
    BY <2>1 DEF TypeOK, Row
<1>1. ASSUME NEW p \in Process, TryID(p)
      PROVE  AheadOfClock'
  <2>1. PICK e \in Draws(p) : TakeID(p, e) \/ BumpID(p, e)
    BY <1>1 DEF TryID
  <2>2. CASE BumpID(p, e)
    BY <2>2 DEF BumpID, AheadOfClock
  <2>3. CASE TakeID(p, e)
    <3>1. /\ UNCHANGED <<rows, clock, peak>> /\ generated' = generated + 1
          /\ lastID' = [lastID EXCEPT ![p] = <<now[p], e>>]
      BY <2>3 DEF TakeID
    <3>2. now[p] < peak + generated + 1
      <4>1. draft[p].ts \in Nat /\ lastID[p] \in ID /\ lastID[p][1] \in Nat
            /\ now[p] \in Nat /\ tries[p] \in Nat /\ peak \in Nat /\ generated \in Nat
        BY DEF TypeOK, Row, ID
      <4>2. /\ now[p] = draft[p].ts + tries[p] /\ draft[p].ts <= peak
            /\ tries[p] > 0 => lastID[p] # NoID /\ now[p] <= lastID[p][1] + 1
        BY <1>1 DEF TryID, Bumped
      <4>3. lastID[p] # NoID => lastID[p][1] < peak + generated
        BY DEF AheadOfClock
      <4> QED
        BY <4>1, <4>2, <4>3
    <3>3. \A q \in Process : lastID'[q] = IF q = p THEN <<now[p], e>> ELSE lastID[q]
      BY <3>1 DEF TypeOK
    <3>4. /\ peak \in Nat /\ generated \in Nat /\ now[p] \in Nat
          /\ \A i \in DOMAIN rows : rows[i].id[1] \in Nat
          /\ \A q \in Process : lastID[q][1] \in Nat
      BY <1>0 DEF TypeOK, ID
    <3>5. clock' <= peak' /\ \A i \in DOMAIN rows' : rows'[i].id[1] < peak' + generated'
      BY <3>1, <3>4 DEF AheadOfClock
    <3>6. \A q \in Process : lastID'[q] = NoID \/ lastID'[q][1] < peak' + generated'
      BY <3>1, <3>2, <3>3, <3>4 DEF AheadOfClock
    <3> QED
      BY <3>5, <3>6 DEF AheadOfClock
  <2> QED
    BY <2>1, <2>2, <2>3
<1>2. HeadID(rows) = NoID \/ HeadID(rows)[1] < peak + generated
  <2>1. CASE rows = << >>
    BY <2>1 DEF HeadID
  <2>2. CASE rows # << >>
    BY <2>2, HeadIsLast DEF HeadID, AheadOfClock, TypeOK
  <2> QED
    BY <2>1, <2>2
<1>3. ASSUME NEW p \in Process, Open(p) \/ ReadHead(p)
      PROVE  AheadOfClock'
  <2>1. UNCHANGED <<rows, clock, peak, generated>>
    BY <1>3 DEF Open, ReadHead
  <2>2. \A q \in Process : lastID'[q] = lastID[q] \/ lastID'[q] = HeadID(rows)
    BY <1>3 DEF Open, ReadHead, TypeOK
  <2> QED
    BY <1>2, <2>1, <2>2 DEF AheadOfClock
<1>4. ASSUME NEW p \in Process,
             Crash(p) \/ (\E event \in Event : Call(p, event)) \/ Begin(p) \/ Insert(p)
      PROVE  AheadOfClock'
  <2>1. UNCHANGED <<rows, clock, peak, generated>>
    BY <1>4 DEF Crash, Call, Begin, Insert
  <2>2. \A q \in Process : lastID'[q] = lastID[q] \/ lastID'[q] = NoID
    BY <1>4 DEF Crash, Call, Begin, Insert, TypeOK
  <2> QED
    BY <2>1, <2>2 DEF AheadOfClock
<1>5. ASSUME NEW p \in Process,
             StatementFails(p) \/ GiveUp(p) \/ EntropyOverflow(p)
      PROVE  AheadOfClock'
  BY <1>5 DEF StatementFails, GiveUp, EntropyOverflow, Return, AheadOfClock
<1>6. ASSUME NEW p \in Process, Commit(p) \/ CommitUnconfirmed(p)
      PROVE  AheadOfClock'
  <2>1. /\ rows' = Append(rows, draft[p]) /\ pc[p] = "commit"
        /\ UNCHANGED <<lastID, clock, peak, generated>>
    BY <1>6 DEF Commit, CommitUnconfirmed, Return
  <2>2. draft[p].id = lastID[p] /\ draft[p].id \in ID /\ draft[p] \in Row
    BY <1>0, <2>1 DEF DraftReady, Dated, TypeOK
  <2>3. draft[p].id # NoID
    BY <2>1 DEF DraftReady, Dated
  <2>4. draft[p].id[1] < peak + generated
    BY <2>2, <2>3 DEF AheadOfClock
  <2>5. \A i \in DOMAIN rows' : rows'[i] = draft[p] \/ (i \in DOMAIN rows /\ rows'[i] = rows[i])
    BY <2>1, <2>2 DEF TypeOK
  <2> QED
    BY <2>1, <2>4, <2>5 DEF AheadOfClock
<1>7. CASE (Tick \/ StepBack \/ UNCHANGED vars) /\ UNCHANGED <<rows, lastID, generated>>
  <2>1. clock' <= peak' /\ peak <= peak' /\ peak' \in Nat /\ peak \in Nat /\ generated \in Nat
    BY <1>7 DEF Tick, StepBack, vars, TypeOK, AheadOfClock
  <2>2. /\ \A i \in DOMAIN rows : rows[i].id[1] \in Nat
        /\ \A q \in Process : lastID[q][1] \in Nat
    BY <1>0 DEF ID
  <2> QED
    BY <1>7, <2>1, <2>2 DEF AheadOfClock
<1> QED
  BY <1>1, <1>3, <1>4, <1>5, <1>6, <1>7, StepCases DEF ProcessStep, AppendStep

(* The table only grows, so an acknowledged entry stays in it. *)
LEMMA AckedStep ==
  ASSUME IInv, [Next]_vars
  PROVE  AckedAreRecorded'
<1> USE DEF IInv
<1>1. ASSUME NEW p \in Process, Commit(p) \/ CommitUnconfirmed(p)
      PROVE  AckedAreRecorded'
  <2>1. draft[p] \in Row /\ rows' = Append(rows, draft[p]) /\ rows \in Seq(Row)
    BY <1>1 DEF Commit, CommitUnconfirmed, TypeOK
  <2>2. /\ Len(rows) + 1 \in DOMAIN rows' /\ rows'[Len(rows) + 1] = draft[p]
        /\ \A i \in DOMAIN rows : i \in DOMAIN rows' /\ rows'[i] = rows[i]
    BY <2>1
  <2>3. acked' \subseteq acked \union {draft[p]}
    BY <1>1 DEF Commit, CommitUnconfirmed
  <2> QED
    BY <2>2, <2>3 DEF AckedAreRecorded
<1>2. CASE UNCHANGED <<rows, acked>>
  BY <1>2 DEF AckedAreRecorded
<1>3. ASSUME NEW p \in Process, ProcessStep(p), ~ Commit(p), ~ CommitUnconfirmed(p)
      PROVE  UNCHANGED <<rows, acked>>
  BY <1>3 DEF ProcessStep, AppendStep, Open, Crash, Call, Begin, ReadHead, TryID, TakeID,
             BumpID, Insert, StatementFails, GiveUp, EntropyOverflow
<1> QED
  BY <1>1, <1>2, <1>3, StepCases

-----------------------------------------------------------------------------
(* Theorems.                                                               *)

LEMMA InitInv == Init => IInv
<1> SUFFICES ASSUME Init PROVE IInv
  OBVIOUS
<1>1. TypeOK
  BY InitTypes
<1>2. rows = << >> /\ DOMAIN rows = {}
  BY DEF Init
<1>3. IdsFollowInsertion /\ Linked /\ IdNearTimestamp /\ AckedAreRecorded
  BY <1>2 DEF Init, IdsFollowInsertion, Linked, IdNearTimestamp, AckedAreRecorded
<1>4. LockHeld /\ HeadKnown /\ DraftReady /\ Bumped /\ AheadOfClock
  BY <1>2 DEF Init, LockHeld, InTx, HeadKnown, DraftReady, Bumped, AheadOfClock
<1> QED
  BY <1>1, <1>3, <1>4 DEF IInv

LEMMA NextInv == IInv /\ [Next]_vars => IInv'
<1> SUFFICES ASSUME IInv, [Next]_vars PROVE IInv'
  OBVIOUS
<1>1. TypeOK' /\ LockHeld'
  BY NextTypes, LockStep DEF IInv
<1> QED
  BY <1>1, RowsInvStep, HeadKnownStep, DraftReadyStep, BumpedStep, AheadOfClockStep,
     AckedStep DEF IInv

(* The inductive invariant holds of every reachable state of Append run by *)
(* any number of processes.                                                *)
THEOREM AuditInvariant == Spec => []IInv
<1>1. Init => IInv
  BY InitInv
<1>2. IInv /\ [Next]_vars => IInv'
  BY NextInv
<1> QED
  BY <1>1, <1>2, PTL DEF Spec

(* Every variable of Store and of its Appends keeps its type.              *)
THEOREM TypeCorrect == Spec => []TypeOK
<1>1. IInv => TypeOK
  BY DEF IInv
<1> QED
  BY <1>1, AuditInvariant, PTL

(* nextID's comment: ids are strictly increasing in insertion order across *)
(* processes, whatever the clock does.                                     *)
THEOREM IdsIncrease == Spec => []IdsFollowInsertion
<1>1. IInv => IdsFollowInsertion
  BY DEF IInv
<1> QED
  BY <1>1, AuditInvariant, PTL

(* An entry Append has returned is recorded for good.                      *)
THEOREM AckedDurable == Spec => []AckedAreRecorded
<1>1. IInv => AckedAreRecorded
  BY DEF IInv
<1> QED
  BY <1>1, AuditInvariant, PTL

(* In id order the row before row i is row i - 1: Verify's walk meets the  *)
(* rows of a table as they were inserted, if their ids increase.           *)
InOrder(s, n) ==
  /\ DOMAIN s = 1 .. n /\ \A i \in 1 .. n : s[i].id \in ID
  /\ \A i, j \in 1 .. n : i < j => LessID(s[i].id, s[j].id)

HashBefore(s, i) == IF i = 1 THEN GenesisHash ELSE s[i - 1].hash

LEMMA WalkInOrder ==
  ASSUME NEW s, NEW n \in Nat, InOrder(s, n), NEW i \in 1 .. n
  PROVE  Expected(s, i) = HashBefore(s, i)
<1>1. Below(s, i) = 1 .. i - 1
  <2>1. ASSUME NEW j \in 1 .. n, j < i PROVE LessID(s[j].id, s[i].id)
    BY <2>1 DEF InOrder
  <2>2. ASSUME NEW j \in 1 .. n, ~ (j < i) PROVE ~ LessID(s[j].id, s[i].id)
    <3>1. CASE i = j
      BY <3>1, IdOrder DEF InOrder
    <3>2. CASE i < j
      <4>1. s[i].id \in ID /\ s[j].id \in ID /\ LessID(s[i].id, s[j].id)
        BY <3>2 DEF InOrder
      <4> QED
        BY <4>1, IdOrder
    <3> QED
      BY <2>2, <3>1, <3>2
  <2>3. \A j : j \in 1 .. i - 1 <=> j \in 1 .. n /\ j < i
    OBVIOUS
  <2> QED
    BY <2>1, <2>2, <2>3 DEF Below, InOrder
<1>2. CASE i = 1
  BY <1>1, <1>2 DEF Expected, HashBefore
<1>3. CASE i # 1
  <2>1. i - 1 \in Below(s, i) /\ Below(s, i) # {}
    BY <1>1, <1>3
  <2>2. IsPrevious(s, i, i - 1)
    <3> SUFFICES ASSUME NEW k \in 1 .. i - 1 PROVE ~ LessID(s[i - 1].id, s[k].id)
      BY <1>1 DEF IsPrevious
    <3>1. s[k].id \in ID /\ s[i - 1].id \in ID
      BY <1>3 DEF InOrder
    <3>2. CASE k = i - 1
      BY <3>1, <3>2, IdOrder
    <3>3. CASE k < i - 1
      <4>1. LessID(s[k].id, s[i - 1].id)
        BY <3>3 DEF InOrder
      <4> QED
        BY <3>1, <4>1, IdOrder
    <3> QED
      BY <3>2, <3>3
  <2>3. ASSUME NEW j \in Below(s, i), IsPrevious(s, i, j) PROVE j = i - 1
    <3> SUFFICES ASSUME j < i - 1 PROVE FALSE
      BY <1>1
    <3>1. LessID(s[j].id, s[i - 1].id)
      BY <1>1, <1>3 DEF InOrder
    <3> QED
      BY <2>1, <2>3, <3>1 DEF IsPrevious
  <2>4. (CHOOSE j \in Below(s, i) : IsPrevious(s, i, j)) = i - 1
    BY <2>1, <2>2, <2>3
  <2>5. Expected(s, i) = s[CHOOSE j \in Below(s, i) : IsPrevious(s, i, j)].hash
    BY <2>1, Zenon DEF Expected
  <2> QED
    BY <1>3, <2>4, <2>5 DEF HashBefore
<1> QED
  BY <1>2, <1>3

(* The table is in that order.                                             *)
LEMMA TableInOrder ==
  ASSUME TypeOK, IdsFollowInsertion
  PROVE  InOrder(rows, Len(rows)) /\ Len(rows) \in Nat /\ \A i \in 1 .. Len(rows) : rows[i] \in Row
<1>1. DOMAIN rows = 1 .. Len(rows) /\ Len(rows) \in Nat /\ \A i \in 1 .. Len(rows) : rows[i] \in Row
  BY DEF TypeOK
<1> QED
  BY <1>1 DEF InOrder, IdsFollowInsertion, Row

LEMMA WalkFollowsInsertion ==
  ASSUME TypeOK, IdsFollowInsertion, NEW i \in DOMAIN rows
  PROVE  Expected(rows, i) = IF i = 1 THEN GenesisHash ELSE rows[i - 1].hash
<1>1. InOrder(rows, Len(rows)) /\ Len(rows) \in Nat /\ i \in 1 .. Len(rows)
  BY TableInOrder DEF TypeOK
<1> QED
  BY <1>1, WalkInOrder DEF HashBefore

(* Store.Verify reports a valid chain on every snapshot of the table.      *)
THEOREM VerifyAlwaysPasses == Spec => []VerifyPasses
<1>1. IInv => VerifyPasses
  <2> SUFFICES ASSUME IInv, NEW i \in DOMAIN rows
               PROVE  /\ rows[i].prev = Expected(rows, i)
                      /\ rows[i].hash = Recomputed(rows, i)
    BY DEF VerifyPasses, Valid, Breaks
  <2>1. Expected(rows, i) = rows[i].prev
    BY WalkFollowsInsertion DEF IInv, Linked
  <2> QED
    BY <2>1 DEF IInv, Linked, Recomputed
<1> QED
  BY <1>1, AuditInvariant, PTL

(* A table in order of which one row does not fit the row before it, while *)
(* every other does: Verify stops at that row.                             *)
Fits(s, i) ==
  s[i].prev = HashBefore(s, i) /\ s[i].hash = ComputeHash(HashBefore(s, i), s[i].id, s[i].ts, s[i].event)

LEMMA StopsAtMisfit ==
  ASSUME NEW s, NEW n \in Nat, InOrder(s, n), NEW i \in 1 .. n, ~ Fits(s, i),
         \A j \in 1 .. n : j # i => Fits(s, j)
  PROVE  ~ Valid(s) /\ BrokenAt(s) = s[i].id
<1>1. DOMAIN s = 1 .. n /\ s[i].id \in ID
  BY DEF InOrder
<1>2. \A j \in 1 .. n : Expected(s, j) = HashBefore(s, j)
  BY WalkInOrder
<1>3. \A j \in 1 .. n : j \in Breaks(s) <=> ~ Fits(s, j)
  BY <1>1, <1>2 DEF Breaks, Recomputed, Fits
<1>4. Breaks(s) = {i}
  BY <1>1, <1>3 DEF Breaks
<1>5. i \notin Below(s, i)
  BY <1>1, IdOrder DEF Below
<1>6. (CHOOSE j \in Breaks(s) : Below(s, j) \cap Breaks(s) = {}) = i
  BY <1>4, <1>5
<1> QED
  BY <1>4, <1>6 DEF Valid, BrokenAt

LEMMA AllFit ==
  ASSUME IInv, NEW i \in 1 .. Len(rows)
  PROVE  Fits(rows, i)
<1>1. i \in DOMAIN rows
  BY DEF IInv, TypeOK
<1> QED
  BY <1>1 DEF Fits, HashBefore, IInv, Linked

(* Two hashes over one history differ with what they add, and one over a   *)
(* history differs from it.                                                *)
LEMMA HashesDiffer ==
  ASSUME NEW h \in Hash, NEW id \in ID, NEW t \in Nat, NEW u \in Nat, NEW e \in Event, NEW f \in Event
  PROVE  /\ ComputeHash(h, id, t, e) # h
         /\ ComputeHash(h, id, t, e) = ComputeHash(h, id, u, f) => t = u /\ e = f
<1> DEFINE Item == ID \X Nat \X Event
<1>1. <<id, t, e>> \in Item /\ <<id, u, f>> \in Item /\ h \in Seq(Item)
  BY DEF Hash
<1>2. ASSUME NEW x \in Item, NEW y \in Item
      PROVE  Append(h, x) # h /\ (Append(h, x) = Append(h, y) => x = y)
  <2>1. Len(Append(h, x)) = Len(h) + 1 /\ Append(h, x)[Len(h) + 1] = x /\ Append(h, y)[Len(h) + 1] = y
    BY <1>1
  <2>2. Len(h) \in Nat
    BY <1>1
  <2> QED
    BY <2>1, <2>2
<1> QED
  BY <1>1, <1>2 DEF ComputeHash

LEMMA EditStops == IInv => EditDetected
<1> SUFFICES ASSUME IInv, NEW i \in DOMAIN rows, NEW event \in Event, NEW ts \in 0 .. MaxClock + 1,
                    [rows EXCEPT ![i].event = event, ![i].ts = ts] # rows
             PROVE  /\ ~ Valid([rows EXCEPT ![i].event = event, ![i].ts = ts])
                    /\ BrokenAt([rows EXCEPT ![i].event = event, ![i].ts = ts]) = rows[i].id
  BY DEF EditDetected
<1> DEFINE s == [rows EXCEPT ![i].event = event, ![i].ts = ts]
           r == [rows[i] EXCEPT !.event = event, !.ts = ts]
           n == Len(rows)
<1>1. InOrder(rows, n) /\ n \in Nat /\ i \in 1 .. n /\ rows[i] \in Row /\ rows \in Seq(Row) /\ ts \in Nat
  BY TableInOrder, AuditAssumption DEF IInv, TypeOK
<1>2. /\ r.id = rows[i].id /\ r.prev = rows[i].prev /\ r.hash = rows[i].hash /\ r.event = event /\ r.ts = ts
      /\ rows[i].id \in ID /\ rows[i].prev \in Hash /\ rows[i].ts \in Nat /\ rows[i].event \in Event
  BY <1>1 DEF Row
<1>3. s = [rows EXCEPT ![i] = r]
  BY <1>1
<1>4. r # rows[i]
  BY <1>1, <1>3
<1>5. ts # rows[i].ts \/ event # rows[i].event
  BY <1>1, <1>4 DEF Row
<1> HIDE DEF r, s
<1>6. DOMAIN s = 1 .. n /\ s[i] = r /\ \A j \in 1 .. n : j # i => s[j] = rows[j]
  BY <1>1, <1>3 DEF InOrder
<1>7. \A j \in 1 .. n : s[j].id = rows[j].id /\ s[j].hash = rows[j].hash /\ s[j].prev = rows[j].prev
  BY <1>2, <1>6
<1>8. InOrder(s, n)
  BY <1>1, <1>6, <1>7 DEF InOrder
<1>9. \A j \in 1 .. n : HashBefore(s, j) = HashBefore(rows, j)
  BY <1>1, <1>7 DEF HashBefore
<1>10. \A j \in 1 .. n : j # i => Fits(s, j)
  BY <1>6, <1>9, AllFit DEF Fits
<1>11. ~ Fits(s, i)
  <2>1. rows[i].hash = ComputeHash(rows[i].prev, rows[i].id, rows[i].ts, rows[i].event) /\ HashBefore(rows, i) = rows[i].prev
    BY <1>1, AllFit DEF Fits
  <2>2. ComputeHash(rows[i].prev, rows[i].id, ts, event) # rows[i].hash
    BY <1>1, <1>2, <1>5, <2>1, HashesDiffer
  <2> QED
    BY <1>1, <1>2, <1>6, <1>9, <2>1, <2>2 DEF Fits
<1>12. ~ Valid(s) /\ BrokenAt(s) = s[i].id
  BY <1>1, <1>8, <1>10, <1>11, StopsAtMisfit
<1> QED
  BY <1>1, <1>7, <1>12 DEF s

LEMMA GapStops == IInv => GapDetected
<1> SUFFICES ASSUME IInv, NEW i \in 1 .. Len(rows) - 1
             PROVE  ~ Valid(Without(rows, i)) /\ BrokenAt(Without(rows, i)) = rows[i + 1].id
  BY DEF GapDetected
<1> DEFINE s == Without(rows, i)
           n == Len(rows) - 1
<1>1. /\ InOrder(rows, Len(rows)) /\ Len(rows) \in Nat /\ n \in Nat /\ i \in 1 .. Len(rows) /\ i + 1 \in 1 .. Len(rows)
      /\ i \in 1 .. n
  BY TableInOrder DEF IInv
<1>2. DOMAIN s = 1 .. n /\ \A j \in 1 .. n : s[j] = IF j < i THEN rows[j] ELSE rows[j + 1]
  BY DEF Without
<1> HIDE DEF s
<1>3. InOrder(s, n)
  <2>1. \A j \in 1 .. n : s[j].id \in ID
    BY <1>1, <1>2 DEF InOrder
  <2>2. ASSUME NEW j \in 1 .. n, NEW k \in 1 .. n, j < k PROVE LessID(s[j].id, s[k].id)
    <3> DEFINE a == IF j < i THEN j ELSE j + 1
               b == IF k < i THEN k ELSE k + 1
    <3>1. a \in 1 .. Len(rows) /\ b \in 1 .. Len(rows) /\ a < b
      BY <1>1, <2>2
    <3>2. s[j] = rows[a] /\ s[k] = rows[b]
      BY <1>2
    <3> HIDE DEF a, b
    <3> QED
      BY <1>1, <3>1, <3>2 DEF InOrder
  <2> QED
    BY <1>2, <2>1, <2>2 DEF InOrder
<1>4. ASSUME NEW j \in 1 .. n, j # i PROVE Fits(s, j)
  <2>1. CASE j < i
    <3>1. s[j] = rows[j] /\ HashBefore(s, j) = HashBefore(rows, j) /\ j \in 1 .. Len(rows)
      BY <1>1, <1>2, <2>1 DEF HashBefore
    <3> QED
      BY <3>1, AllFit DEF Fits
  <2>2. CASE j > i
    <3>1. s[j] = rows[j + 1] /\ s[j - 1] = rows[j] /\ j + 1 \in 1 .. Len(rows) /\ j # 1 /\ j + 1 # 1 /\ (j + 1) - 1 = j
      BY <1>1, <1>2, <2>2
    <3>2. HashBefore(s, j) = HashBefore(rows, j + 1)
      BY <3>1 DEF HashBefore
    <3> QED
      BY <3>1, <3>2, AllFit DEF Fits
  <2> QED
    BY <1>1, <1>4, <2>1, <2>2
<1>5. s[i] = rows[i + 1] /\ HashBefore(s, i) = HashBefore(rows, i)
  BY <1>1, <1>2 DEF HashBefore
<1>6. ~ Fits(s, i)
  <2>1. /\ rows[i].hash = ComputeHash(rows[i].prev, rows[i].id, rows[i].ts, rows[i].event)
        /\ rows[i].prev = HashBefore(rows, i)
    BY <1>1, AllFit DEF Fits
  <2>2. rows[i] \in Row
    BY <1>1, TableInOrder DEF IInv
  <2>3. rows[i].prev \in Hash /\ rows[i].id \in ID /\ rows[i].ts \in Nat /\ rows[i].event \in Event
    BY <2>2 DEF Row
  <2>4. rows[i].hash # rows[i].prev
    BY <2>1, <2>3, HashesDiffer
  <2>5. i + 1 # 1 /\ (i + 1) - 1 = i
    BY <1>1
  <2>6. rows[i + 1].prev = rows[i].hash
    <3>1. Fits(rows, i + 1)
      BY <1>1, AllFit
    <3> QED
      BY <2>5, <3>1 DEF Fits, HashBefore
  <2> QED
    BY <1>5, <2>1, <2>4, <2>6 DEF Fits
<1>7. ~ Valid(s) /\ BrokenAt(s) = s[i].id
  BY <1>1, <1>3, <1>4, <1>6, StopsAtMisfit
<1> QED
  BY <1>5, <1>7 DEF s

(* A rewritten row and a removed one make Store.Verify fail, at the very   *)
(* row where the chain breaks: every hash commits to the whole history     *)
(* before it, and the walk in id order meets the rows as inserted.         *)
THEOREM TamperingIsDetected == Spec => []TamperDetected
<1>1. IInv => TamperDetected
  BY EditStops, GapStops DEF TamperDetected
<1> QED
  BY <1>1, AuditInvariant, PTL

(* nextID refuses an entry only when the clock has stepped back, or ids    *)
(* have piled up, by its number of attempts.                               *)
THEOREM RefusalTakesSkew == Spec => []RefusalNeedsSkew
<1>1. IInv => RefusalNeedsSkew
  <2> SUFFICES ASSUME IInv, NEW p \in Process, pc[p] = "id", tries[p] = MaxAttempts
               PROVE  peak + generated >= draft[p].ts + MaxAttempts
    BY DEF RefusalNeedsSkew
  <2>1. draft[p] \in Row /\ lastID[p] \in ID /\ peak \in Nat /\ generated \in Nat
        /\ now[p] \in Nat /\ MaxAttempts \in Nat \ {0}
    BY AuditAssumption DEF IInv, TypeOK
  <2>2. draft[p].ts \in Nat /\ lastID[p][1] \in Nat
    BY <2>1 DEF Row, ID
  <2>3. now[p] = draft[p].ts + MaxAttempts /\ lastID[p] # NoID /\ now[p] <= lastID[p][1] + 1
    BY <2>1 DEF IInv, Bumped
  <2>4. lastID[p][1] < peak + generated
    BY <2>3 DEF IInv, AheadOfClock
  <2> QED
    BY <2>1, <2>2, <2>3, <2>4
<1> QED
  BY <1>1, AuditInvariant, PTL

(* An id is dated within MaxAttempts ms of the timestamp beside it.        *)
THEOREM IdsDated == Spec => []IdNearTimestamp
<1>1. IInv => IdNearTimestamp
  BY DEF IInv
<1> QED
  BY <1>1, AuditInvariant, PTL

(* The audit table implements the append-only hash chain: every step of    *)
(* every process is one extension of the chain at its end, or none.        *)
THEOREM Implements == Spec => ChainSpec
<1>1. Init => Chain!Init
  BY DEF Init, Chain!Init
<1>2. IInv /\ [Next]_vars => [Chain!Next]_rows
  <2> SUFFICES ASSUME IInv, NEW p \in Process, ProcessStep(p), rows' # rows
               PROVE  Chain!Next
    BY StepCases
  <2>1. rows' = Append(rows, draft[p]) /\ pc[p] = "commit"
    BY RowsStep DEF IInv
  <2>2. draft[p] \in Row /\ rows \in Seq(Row)
    BY DEF IInv, TypeOK
  <2>3. Len(rows') = Len(rows) + 1 /\ rows'[Len(rows')] = draft[p]
    BY <2>1, <2>2
  <2>4. Chain!Extends(draft[p])
    <3>1. draft[p].prev = Chain!LastHash
      BY <2>1, <2>2, HeadIsLast
      DEF Chain!LastHash, Chain!GenesisHash, GenesisHash, HeadHash, HeadKnown, IInv
    <3> QED
      BY <2>1, <3>1
      DEF Chain!Extends, Chain!LessID, LessID, Chain!ComputeHash, ComputeHash, IInv,
          DraftReady, Dated, Hashed
  <2> QED
    BY <2>1, <2>3, <2>4 DEF Chain!Next, Chain!Extends
<1> QED
  BY <1>1, <1>2, AuditInvariant, PTL DEF Spec, ChainSpec, Chain!Spec
=============================================================================
