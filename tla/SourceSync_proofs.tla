-------------------------- MODULE SourceSync_proofs --------------------------
(***************************************************************************)
(* While no name is given to a second source, no synchronization skips an  *)
(* item silently: for any names, workers, sources and items, with any      *)
(* crashes and deadlines.                                                  *)
(***************************************************************************)
EXTENDS SourceSync, TLAPS

USE SourceAssumption

LEMMA InitIInv == Init => IInv
<1> SUFFICES ASSUME Init PROVE IInv
  OBVIOUS
<1>1. Idle \in Operation
  BY DEF Idle, Begun, Operation, Step, Syncing
<1>2. TypeOK
  <2>1. rows \in [Name -> Row \union {None}]
    BY DEF Init
  <2>2. added \in 0 .. MaxSources /\ used \subseteq Name /\ item \in 0 .. MaxItem
    BY DEF Init
  <2>5. interrupted \in BOOLEAN
    BY DEF Init
  <2>3. held \in [Id -> SUBSET Item] /\ missed \in [Id -> SUBSET Item]
    BY DEF Init
  <2>4. op \in [Worker -> Operation]
    BY <1>1 DEF Init
  <2> QED
    BY <2>1, <2>2, <2>3, <2>4, <2>5 DEF TypeOK
<1>3. \A n \in Name : ~ Configured(n)
  BY DEF Init, Configured
<1>4. \A w \in Worker : op[w] = Idle
  BY DEF Init
<1>5. Identified
  BY <1>3, <1>4 DEF Identified, Idle, Begun
<1>6. Ingested
  <2>1. \A w \in Worker : op[w].at = "idle"
    BY <1>4 DEF Idle, Begun
  <2> QED
    BY <2>1 DEF Ingested, Syncing
<1>7. NothingSkipped
  BY <1>3 DEF NothingSkipped
<1> QED
  BY <1>2, <1>5, <1>6, <1>7 DEF IInv

-----------------------------------------------------------------------------
(* What a step does to what a worker has in hand.                          *)

(* A worker's part of Next. *)
Acts(w) == Call(w) \/ Continue(w) \/ Expire(w) \/ Crash(w)

LEMMA OperationFields ==
  ASSUME TypeOK, NEW w \in Worker
  PROVE  /\ op[w] \in Operation
         /\ op[w].at \in Step /\ op[w].console \in BOOLEAN /\ op[w].name \in Name \union {None}
         /\ op[w].id \in Id \union {0} /\ op[w].cursor \in 0 .. MaxItem /\ op[w].upTo \in 0 .. MaxItem
         /\ op[w].ok \in BOOLEAN /\ op[w].expired \in BOOLEAN
<1>1. op[w] \in Operation
  BY DEF TypeOK
<1> QED
  BY <1>1 DEF Operation

LEMMA RowFields ==
  ASSUME TypeOK, NEW n \in Name, Configured(n)
  PROVE  /\ rows[n] \in Row
         /\ rows[n].id \in Id /\ rows[n].cursor \in 0 .. MaxItem /\ rows[n].status \in Status
<1>1. rows[n] \in Row
  BY DEF TypeOK, Configured
<1> QED
  BY <1>1 DEF Row

LEMMA GotoTyped ==
  ASSUME TypeOK, NEW w \in Worker, NEW step \in Step, Goto(w, step)
  PROVE  /\ op' \in [Worker -> Operation]
         /\ op'[w] = [op[w] EXCEPT !.at = step]
         /\ \A v \in Worker \ {w} : op'[v] = op[v]
<1>1. [op[w] EXCEPT !.at = step] \in Operation
  BY OperationFields DEF Operation
<1>2. op' = [op EXCEPT ![w] = [op[w] EXCEPT !.at = step]]
  BY DEF Goto
<1> QED
  BY <1>1, <1>2 DEF TypeOK

LEMMA DoneTyped ==
  ASSUME TypeOK, NEW w \in Worker, Done(w)
  PROVE  /\ op' \in [Worker -> Operation]
         /\ op'[w] = Idle
         /\ \A v \in Worker \ {w} : op'[v] = op[v]
<1>1. Idle \in Operation
  BY DEF Idle, Begun, Operation, Step, Syncing
<1> QED
  BY <1>1 DEF Done, TypeOK

(* The rows a step leaves: no row, the row as it was, but for its status   *)
(* and for a cursor that a sync brings home, or a new source's row.        *)
SameSource(n) ==
  /\ Configured(n)
  /\ rows'[n] \in Row
  /\ rows'[n].id = rows[n].id
  /\ \/ rows'[n].cursor = rows[n].cursor
     \/ \E w \in Worker : At(w, "set cursor") /\ op[w].name = n /\ rows'[n].cursor = op[w].upTo

NewSource(n) ==
  /\ ~ Configured(n) /\ (Reuse \/ n \notin used)
  /\ added' = added + 1 /\ used' = used \union {n} /\ added < MaxSources
  /\ rows' = [rows EXCEPT ![n] = [id |-> added + 1, cursor |-> 0, status |-> ""]]

OldRows == \A n \in Name : rows'[n] = None \/ SameSource(n)

LEMMA SetLastSyncTyped ==
  ASSUME TypeOK, NEW w \in Worker, op[w].name \in Name, Reaches(w), NEW status \in Status,
         rows' = SetLastSync(w, status)
  PROVE  rows' \in [Name -> Row \union {None}] /\ OldRows
<1> DEFINE n == op[w].name
           row == [rows[n] EXCEPT !.status = status]
<1>1. Configured(n) /\ rows[n] \in Row
  BY RowFields DEF Reaches
<1>2. row \in Row /\ row.id = rows[n].id /\ row.cursor = rows[n].cursor
  BY <1>1 DEF Row
<1>3. rows' = [rows EXCEPT ![n] = row]
  BY DEF SetLastSync, Updated
<1>4. rows \in [Name -> Row \union {None}]
  BY DEF TypeOK
<1> HIDE DEF row
<1>5. rows' \in [Name -> Row \union {None}]
  BY <1>2, <1>3, <1>4
<1>6. ASSUME NEW m \in Name PROVE rows'[m] = None \/ SameSource(m)
  <2>1. CASE m = n
    BY <1>1, <1>2, <1>3, <1>4, <2>1 DEF SameSource
  <2>2. CASE m # n
    <3>1. rows'[m] = rows[m]
      BY <1>3, <1>4, <2>2
    <3> QED
      BY <3>1, RowFields DEF SameSource, Configured
  <2> QED
    BY <2>1, <2>2
<1> QED
  BY <1>5, <1>6 DEF OldRows

LEMMA CursorTyped ==
  ASSUME TypeOK, NEW w \in Worker, At(w, "set cursor"), op[w].name \in Name, Reaches(w),
         rows' = Updated(w, [rows[op[w].name] EXCEPT !.cursor = op[w].upTo])
  PROVE  rows' \in [Name -> Row \union {None}] /\ OldRows
<1> DEFINE n == op[w].name
           row == [rows[n] EXCEPT !.cursor = op[w].upTo]
<1>1. Configured(n) /\ rows[n] \in Row
  BY RowFields DEF Reaches
<1>2. row \in Row /\ row.id = rows[n].id /\ row.cursor = op[w].upTo
  BY <1>1, OperationFields DEF Row
<1>3. rows' = [rows EXCEPT ![n] = row]
  BY DEF Updated
<1>4. rows \in [Name -> Row \union {None}]
  BY DEF TypeOK
<1> HIDE DEF row
<1>5. rows' \in [Name -> Row \union {None}]
  BY <1>2, <1>3, <1>4
<1>6. ASSUME NEW m \in Name PROVE rows'[m] = None \/ SameSource(m)
  <2>1. CASE m = n
    BY <1>1, <1>2, <1>3, <1>4, <2>1 DEF SameSource
  <2>2. CASE m # n
    <3>1. rows'[m] = rows[m]
      BY <1>3, <1>4, <2>2
    <3> QED
      BY <3>1, RowFields DEF SameSource, Configured
  <2> QED
    BY <2>1, <2>2
<1> QED
  BY <1>5, <1>6 DEF OldRows

LEMMA DeletedTyped ==
  ASSUME TypeOK, NEW n, rows' = [rows EXCEPT ![n] = None]
  PROVE  rows' \in [Name -> Row \union {None}] /\ OldRows
<1>1. rows \in [Name -> Row \union {None}]
  BY DEF TypeOK
<1>2. rows' \in [Name -> Row \union {None}]
  BY <1>1
<1>3. ASSUME NEW m \in Name PROVE rows'[m] = None \/ SameSource(m)
  <2>1. rows'[m] = None \/ rows'[m] = rows[m]
    BY <1>1
  <2> QED
    BY <2>1, RowFields DEF SameSource, Configured
<1> QED
  BY <1>2, <1>3 DEF OldRows

LEMMA KeptTyped ==
  ASSUME TypeOK, UNCHANGED rows
  PROVE  rows' \in [Name -> Row \union {None}] /\ OldRows
<1>1. rows' \in [Name -> Row \union {None}]
  BY DEF TypeOK
<1>2. ASSUME NEW m \in Name PROVE rows'[m] = None \/ SameSource(m)
  BY RowFields DEF SameSource, Configured
<1> QED
  BY <1>1, <1>2 DEF OldRows

LEMMA AddTyped ==
  ASSUME TypeOK, NEW n \in Name, NewSource(n)
  PROVE  rows' \in [Name -> Row \union {None}] /\ added' \in 0 .. MaxSources /\ used' \subseteq Name
<1>1. added + 1 \in Id /\ added' \in 0 .. MaxSources
  <2>1. added \in 0 .. MaxSources
    BY DEF TypeOK
  <2>2. added' = added + 1 /\ added < MaxSources
    BY DEF NewSource
  <2> QED
    BY <2>1, <2>2 DEF Id
<1>2. [id |-> added + 1, cursor |-> 0, status |-> ""] \in Row
  BY <1>1 DEF Row, Status
<1> QED
  BY <1>1, <1>2 DEF NewSource, TypeOK

RowsStep ==
  /\ rows' \in [Name -> Row \union {None}]
  /\ (OldRows /\ UNCHANGED names) \/ \E n \in Name : NewSource(n)

(* What a sync has in hand has a name. *)
LEMMA Named ==
  ASSUME Ingested, NEW w \in Worker, op[w].at \in Syncing \union {"mark"}
  PROVE  op[w].name \in Name
BY DEF Ingested

LEMMA ContinueRows ==
  ASSUME TypeOK, Ingested, NEW w \in Worker, Continue(w)
  PROVE  RowsStep
<1>1. CASE Validate(w) \/ SyncList(w) \/ SyncIngest(w)
  BY <1>1, KeptTyped DEF Validate, SyncList, SyncIngest, names, RowsStep
<1>2. CASE RollBack(w) \/ Delete(w)
  BY <1>2, DeletedTyped DEF RollBack, Delete, names, RowsStep
<1>3. CASE MarkSyncRunning(w)
  <2>1. op[w].name \in Name /\ UNCHANGED names
    BY <1>3, Named DEF MarkSyncRunning, At, names
  <2>2. (Reaches(w) /\ rows' = SetLastSync(w, "running")) \/ UNCHANGED rows
    BY <1>3 DEF MarkSyncRunning
  <2> QED
    BY <2>1, <2>2, SetLastSyncTyped, KeptTyped DEF RowsStep, Status
<1>4. CASE Build(w)
  <2>1. op[w].name \in Name /\ UNCHANGED names
    BY <1>4, Named DEF Build, At, names, Syncing
  <2>2. (Reaches(w) /\ rows' = SetLastSync(w, "error")) \/ UNCHANGED rows
    BY <1>4 DEF Build
  <2> QED
    BY <2>1, <2>2, SetLastSyncTyped, KeptTyped DEF RowsStep, Status
<1>5. CASE SetStatus(w)
  <2>1. op[w].name \in Name /\ UNCHANGED names
    BY <1>5, Named DEF SetStatus, At, names, Syncing
  <2>2. \/ Reaches(w) /\ rows' = SetLastSync(w, "success")
        \/ Reaches(w) /\ rows' = SetLastSync(w, "error")
        \/ UNCHANGED rows
    BY <1>5 DEF SetStatus
  <2> QED
    BY <2>1, <2>2, SetLastSyncTyped, KeptTyped DEF RowsStep, Status
<1>6. CASE UpdateCursor(w)
  <2>1. op[w].name \in Name /\ UNCHANGED names /\ At(w, "set cursor")
    BY <1>6, Named DEF UpdateCursor, At, names, Syncing
  <2>2. \/ Reaches(w) /\ rows' = Updated(w, [rows[op[w].name] EXCEPT !.cursor = op[w].upTo])
        \/ UNCHANGED rows
    BY <1>6 DEF UpdateCursor
  <2> QED
    BY <2>1, <2>2, CursorTyped, KeptTyped DEF RowsStep
<1> QED
  BY <1>1, <1>2, <1>3, <1>4, <1>5, <1>6 DEF Continue

LEMMA NextRows ==
  ASSUME TypeOK, Ingested, [Next]_vars
  PROVE  RowsStep
<1>1. CASE UNCHANGED vars \/ Arrive \/ \E w \in Worker : Expire(w) \/ Crash(w)
  BY <1>1, KeptTyped DEF vars, Arrive, Expire, Crash, names, RowsStep
<1>2. ASSUME NEW w \in Worker, Continue(w) PROVE RowsStep
  BY <1>2, ContinueRows
<1>3. ASSUME NEW w \in Worker, NEW n \in Name, NEW console \in BOOLEAN, Add(w, n, console) PROVE RowsStep
  <2>1. NewSource(n)
    BY <1>3 DEF Add, NewSource
  <2> QED
    BY <2>1, AddTyped DEF RowsStep
<1>4. ASSUME NEW w \in Worker, NEW n \in Name, RemoveSource(w, n) \/ HandleSourceSync(w, n) \/ SourceSyncCommand(w, n)
      PROVE  RowsStep
  BY <1>4, KeptTyped DEF RemoveSource, HandleSourceSync, SourceSyncCommand, names, RowsStep
<1> QED
  BY <1>1, <1>2, <1>3, <1>4 DEF Next, Call

-----------------------------------------------------------------------------
(* What a step does to the provider and to what was ingested.              *)
Grows ==
  /\ item' \in 0 .. MaxItem
  /\ held' \in [Id -> SUBSET Item] /\ missed' \in [Id -> SUBSET Item]
  /\ \A i \in Id : held[i] \subseteq held'[i] /\ missed[i] \subseteq missed'[i]

LEMMA KeptGrows == ASSUME TypeOK, UNCHANGED provider PROVE Grows
BY DEF TypeOK, provider, Grows

LEMMA FreshItems ==
  ASSUME TypeOK, NEW w \in Worker
  PROVE  op[w].cursor + 1 .. op[w].upTo \subseteq Item
<1>1. op[w].cursor \in 0 .. MaxItem /\ op[w].upTo \in 0 .. MaxItem
  BY OperationFields
<1> QED
  BY <1>1 DEF Item

LEMMA IngestGrows ==
  ASSUME TypeOK, Identified, Ingested, NEW w \in Worker, SyncIngest(w)
  PROVE  /\ Grows
         /\ op' \in [Worker -> Operation]
         /\ \A v \in Worker \ {w} : op'[v] = op[v]
         /\ op'[w].at = "set status" /\ op'[w].name = op[w].name /\ op'[w].id = op[w].id
         /\ op'[w].cursor = op[w].cursor
         /\ op'[w].ok => Known(op[w].id, op[w].upTo)' /\ op'[w].upTo = op[w].upTo
<1> DEFINE fresh == op[w].cursor + 1 .. op[w].upTo
           i == op[w].id
<1>1. op[w].name \in Name /\ Known(i, op[w].cursor)
  BY DEF SyncIngest, At, Ingested, Syncing
<1>2. i \in Id
  BY <1>1, OperationFields DEF Identified, TypeOK, Id
<1>3. PICK got \in SUBSET fresh, ok \in BOOLEAN :
        /\ held' = [held EXCEPT ![i] = @ \union got]
        /\ missed' = IF ok THEN [missed EXCEPT ![i] = @ \union (fresh \ got)] ELSE missed
        /\ op' = [op EXCEPT ![w].at = "set status", ![w].ok = ok]
  BY DEF SyncIngest
<1>4. fresh \subseteq Item
  BY FreshItems
<1>5. held \in [Id -> SUBSET Item] /\ missed \in [Id -> SUBSET Item]
  BY DEF TypeOK
<1>6. item' = item
  BY DEF SyncIngest
<1> HIDE DEF fresh
<1>7. Grows
  <2>1. held' \in [Id -> SUBSET Item] /\ missed' \in [Id -> SUBSET Item]
    BY <1>3, <1>4, <1>5
  <2>2. \A k \in Id : held[k] \subseteq held'[k] /\ missed[k] \subseteq missed'[k]
    BY <1>2, <1>3, <1>5
  <2> QED
    BY <1>6, <2>1, <2>2 DEF Grows, TypeOK
<1>8. op'[w] = [op[w] EXCEPT !.at = "set status", !.ok = ok] /\ \A v \in Worker \ {w} : op'[v] = op[v]
  BY <1>3 DEF TypeOK
<1>9. [op[w] EXCEPT !.at = "set status", !.ok = ok] \in Operation
  BY OperationFields DEF Operation, Step, Syncing
<1>10. op' \in [Worker -> Operation]
  <2>1. op \in [Worker -> Operation]
    BY DEF TypeOK
  <2> QED
    BY <1>3, <1>9, <2>1
<1>11. op'[w].at = "set status" /\ op'[w].name = op[w].name /\ i = op'[w].id /\ op'[w].ok = ok
       /\ op'[w].cursor = op[w].cursor /\ op'[w].upTo = op[w].upTo
  BY <1>8, OperationFields DEF Operation
<1>12. ASSUME ok PROVE \A k \in 1 .. op[w].upTo : k \in held'[i] \union missed'[i]
  <2>1. held'[i] = held[i] \union got /\ missed'[i] = missed[i] \union (fresh \ got)
    BY <1>2, <1>3, <1>5, <1>12
  <2>2. ASSUME NEW k \in 1 .. op[w].upTo PROVE k \in 1 .. op[w].cursor \/ k \in fresh
    BY OperationFields DEF fresh
  <2> QED
    BY <1>1, <2>1, <2>2 DEF Known
<1> QED
  BY <1>7, <1>8, <1>10, <1>11, <1>12 DEF Known

LEMMA NextGrows ==
  ASSUME TypeOK, Identified, Ingested, [Next]_vars
  PROVE  Grows
<1>1. CASE UNCHANGED vars \/ \E w \in Worker : Expire(w) \/ Crash(w)
  BY <1>1, KeptGrows DEF vars, provider, Expire, Crash
<1>2. CASE Arrive
  <2>1. item < MaxItem /\ item' = item + 1 /\ UNCHANGED <<held, missed>>
    BY <1>2 DEF Arrive
  <2> QED
    BY <2>1 DEF TypeOK, Grows
<1>3. ASSUME NEW w \in Worker, SyncIngest(w) PROVE Grows
  BY <1>3, IngestGrows
<1>4. ASSUME NEW w \in Worker, Call(w) PROVE Grows
  BY <1>4, KeptGrows DEF Call, Add, RemoveSource, HandleSourceSync, SourceSyncCommand
<1>5. ASSUME NEW w \in Worker, Continue(w), ~ SyncIngest(w) PROVE Grows
  BY <1>5, KeptGrows DEF Continue, Validate, RollBack, Delete, MarkSyncRunning, Build, SyncList, SetStatus, UpdateCursor
<1> QED
  BY <1>1, <1>2, <1>3, <1>4, <1>5 DEF Next

-----------------------------------------------------------------------------
(* What a worker has in hand after a step: the source it had, a source     *)
(* whose row it has just read, or one it has just added.                   *)
InHand == Syncing \union {"mark"}

Keeps(w) ==
  /\ op'[w].name = op[w].name /\ op'[w].id = op[w].id /\ op'[w].cursor = op[w].cursor
  /\ op'[w].at \in InHand => op[w].at \in InHand
  /\ op'[w].at = "set status" /\ op'[w].ok =>
       \/ op[w].at = "set status" /\ op[w].ok /\ op'[w].upTo = op[w].upTo
       \/ Known(op[w].id, op[w].upTo)'
  /\ op'[w].at = "set cursor" =>
       /\ op[w].at = "set cursor" \/ (op[w].at = "set status" /\ op[w].ok)
       /\ op'[w].upTo = op[w].upTo

Reads(w) ==
  \E n \in Name :
    /\ Configured(n) /\ UNCHANGED <<rows, added, used>>
    /\ op'[w].name = n /\ op'[w].id = rows[n].id
    /\ op'[w].at \in InHand => op'[w].cursor = rows[n].cursor
    /\ op'[w].at \notin {"set status", "set cursor"}

Adds(w) ==
  \E n \in Name :
    /\ NewSource(n)
    /\ op'[w].name = n /\ op'[w].id = added + 1 /\ op'[w].at = "validate"

OpStep(w) ==
  /\ op' \in [Worker -> Operation]
  /\ \A v \in Worker \ {w} : op'[v] = op[v]
  /\ op'[w] = Idle \/ Keeps(w) \/ Reads(w) \/ Adds(w)

LEMMA StaysKeeps ==
  ASSUME TypeOK, NEW w \in Worker, UNCHANGED op
  PROVE  OpStep(w)
BY DEF OpStep, Keeps, TypeOK

LEMMA DoneSteps ==
  ASSUME TypeOK, NEW w \in Worker, Done(w)
  PROVE  OpStep(w)
BY DoneTyped DEF OpStep

(* On to a statement that neither ends a sync nor begins one. *)
LEMMA GotoKeeps ==
  ASSUME TypeOK, NEW w \in Worker, NEW step \in Step \ {"set status", "set cursor"}, Goto(w, step),
         step \in InHand => op[w].at \in InHand
  PROVE  OpStep(w)
<1>1. op'[w] = [op[w] EXCEPT !.at = step]
  BY GotoTyped
<1>2. op'[w].at = step /\ op'[w].name = op[w].name /\ op'[w].id = op[w].id /\ op'[w].cursor = op[w].cursor
  BY <1>1, OperationFields DEF Operation
<1>3. Keeps(w)
  BY <1>2 DEF Keeps
<1> QED
  BY <1>3, GotoTyped DEF OpStep

LEMMA ContinueOp ==
  ASSUME TypeOK, Identified, Ingested, NEW w \in Worker, Continue(w)
  PROVE  OpStep(w)
<1>1. CASE Validate(w) \/ RollBack(w) \/ Delete(w)
  BY <1>1, DoneSteps, GotoKeeps DEF Validate, RollBack, Delete, Step, InHand, Syncing
<1>2. CASE MarkSyncRunning(w) \/ Build(w)
  <2>1. op[w].at \in InHand
    BY <1>2 DEF MarkSyncRunning, Build, At, InHand, Syncing
  <2>2. Done(w) \/ Goto(w, "build") \/ Goto(w, "list")
    BY <1>2 DEF MarkSyncRunning, Build
  <2> QED
    BY <2>1, <2>2, DoneSteps, GotoKeeps DEF Step, Syncing
<1>3. CASE SyncList(w)
  <2>1. op' = [op EXCEPT ![w] = [op[w] EXCEPT !.at = "ingest", !.upTo = item]] /\ op[w].at = "list"
    BY <1>3 DEF SyncList, At
  <2>2. [op[w] EXCEPT !.at = "ingest", !.upTo = item] \in Operation
    BY OperationFields DEF Operation, Step, Syncing, TypeOK
  <2>3. op \in [Worker -> Operation]
    BY DEF TypeOK
  <2>4. /\ op' \in [Worker -> Operation]
        /\ \A v \in Worker \ {w} : op'[v] = op[v]
        /\ op'[w] = [op[w] EXCEPT !.at = "ingest", !.upTo = item]
    BY <2>1, <2>2, <2>3
  <2>5. op'[w].at = "ingest" /\ op'[w].name = op[w].name /\ op'[w].id = op[w].id /\ op'[w].cursor = op[w].cursor
    BY <2>4, OperationFields DEF Operation
  <2> QED
    BY <2>1, <2>4, <2>5 DEF OpStep, Keeps, InHand, Syncing
<1>4. CASE SyncIngest(w)
  <2>1. op[w].at = "ingest"
    BY <1>4 DEF SyncIngest, At
  <2> QED
    BY <1>4, <2>1, IngestGrows DEF OpStep, Keeps, InHand, Syncing
<1>5. CASE SetStatus(w)
  <2>1. op[w].at = "set status" /\ (Done(w) \/ (op[w].ok /\ Goto(w, "set cursor")))
    BY <1>5 DEF SetStatus, At
  <2>2. ASSUME op[w].ok, Goto(w, "set cursor") PROVE OpStep(w)
    <3>1. /\ op' \in [Worker -> Operation]
          /\ \A v \in Worker \ {w} : op'[v] = op[v]
          /\ op'[w] = [op[w] EXCEPT !.at = "set cursor"]
      BY <2>2, GotoTyped DEF Step, Syncing
    <3>2. /\ op'[w].at = "set cursor" /\ op'[w].name = op[w].name /\ op'[w].id = op[w].id
          /\ op'[w].cursor = op[w].cursor /\ op'[w].upTo = op[w].upTo
      BY <3>1, OperationFields DEF Operation
    <3> QED
      BY <2>1, <2>2, <3>1, <3>2 DEF OpStep, Keeps, InHand, Syncing
  <2> QED
    BY <2>1, <2>2, DoneSteps
<1>6. CASE UpdateCursor(w)
  BY <1>6, DoneSteps DEF UpdateCursor
<1> QED
  BY <1>1, <1>2, <1>3, <1>4, <1>5, <1>6 DEF Continue

(* A worker takes up an operation. *)
LEMMA TakesUp ==
  ASSUME TypeOK, NEW w \in Worker, NEW o \in Operation, op' = [op EXCEPT ![w] = o]
  PROVE  /\ op' \in [Worker -> Operation]
         /\ \A v \in Worker \ {w} : op'[v] = op[v]
         /\ op'[w] = o
BY DEF TypeOK

LEMMA CallOp ==
  ASSUME TypeOK, NEW w \in Worker, Call(w)
  PROVE  OpStep(w)
<1>1. ASSUME NEW n \in Name, NEW console \in BOOLEAN, Add(w, n, console) PROVE OpStep(w)
  <2> DEFINE o == Begun("validate", TRUE, n, added + 1, 0)
  <2>1. NewSource(n)
    BY <1>1 DEF Add, NewSource
  <2>2. added + 1 \in Id
    <3>1. added \in 0 .. MaxSources /\ added < MaxSources
      BY <2>1 DEF NewSource, TypeOK
    <3> QED
      BY <3>1 DEF Id
  <2>3. o \in Operation /\ o.name = n /\ o.id = added + 1 /\ o.at = "validate"
    <3>1. "validate" \in Step /\ 0 \in 0 .. MaxItem
      BY DEF Step
    <3> QED
      BY <2>2, <3>1 DEF Begun, Operation
  <2>4. op' = [op EXCEPT ![w] = o] \/ UNCHANGED op
    BY <1>1 DEF Add
  <2> HIDE DEF o
  <2>5. CASE op' = [op EXCEPT ![w] = o]
    <3>1. /\ op' \in [Worker -> Operation]
          /\ \A v \in Worker \ {w} : op'[v] = op[v]
          /\ op'[w] = o
      BY <2>3, <2>5, TakesUp
    <3>2. Adds(w)
      BY <2>1, <2>3, <3>1 DEF Adds
    <3> QED
      BY <3>1, <3>2 DEF OpStep
  <2> QED
    BY <2>4, <2>5, StaysKeeps
<1>2. ASSUME NEW n \in Name, NEW o \in Operation, Configured(n), UNCHANGED <<rows, added, used>>,
             op' = [op EXCEPT ![w] = o],
             o.name = n, o.id = rows[n].id, o.at \in InHand => o.cursor = rows[n].cursor,
             o.at \notin {"set status", "set cursor"}
      PROVE  OpStep(w)
  <2>1. /\ op' \in [Worker -> Operation]
        /\ \A v \in Worker \ {w} : op'[v] = op[v]
        /\ op'[w] = o
    BY <1>2, TakesUp
  <2>2. Reads(w)
    BY <1>2, <2>1 DEF Reads
  <2> QED
    BY <2>1, <2>2 DEF OpStep
<1>3. ASSUME NEW n \in Name, RemoveSource(w, n) PROVE OpStep(w)
  <2> DEFINE o == Begun("remove", FALSE, n, rows[n].id, 0)
  <2>1. Configured(n) /\ UNCHANGED <<rows, added, used>> /\ op' = [op EXCEPT ![w] = o]
    BY <1>3 DEF RemoveSource, names
  <2>2. o \in Operation /\ o.name = n /\ o.id = rows[n].id /\ o.at = "remove"
    <3>1. "remove" \in Step /\ 0 \in 0 .. MaxItem /\ rows[n].id \in Id /\ rows[n].cursor \in 0 .. MaxItem
      BY <2>1, RowFields DEF Step, Syncing
    <3> QED
      BY <3>1 DEF Begun, Operation
  <2> HIDE DEF o
  <2> QED
    BY <1>2, <2>1, <2>2 DEF InHand, Syncing
<1>4. ASSUME NEW n \in Name, HandleSourceSync(w, n) PROVE OpStep(w)
  <2> DEFINE o == Begun("mark", TRUE, n, rows[n].id, rows[n].cursor)
  <2>1. Configured(n) /\ UNCHANGED <<rows, added, used>> /\ op' = [op EXCEPT ![w] = o]
    BY <1>4 DEF HandleSourceSync, names
  <2>2. o \in Operation /\ o.name = n /\ o.id = rows[n].id /\ o.at = "mark" /\ o.cursor = rows[n].cursor
    <3>1. "mark" \in Step /\ 0 \in 0 .. MaxItem /\ rows[n].id \in Id /\ rows[n].cursor \in 0 .. MaxItem
      BY <2>1, RowFields DEF Step, Syncing
    <3> QED
      BY <3>1 DEF Begun, Operation
  <2> HIDE DEF o
  <2> QED
    BY <1>2, <2>1, <2>2
<1>5. ASSUME NEW n \in Name, SourceSyncCommand(w, n) PROVE OpStep(w)
  <2> DEFINE o == Begun("build", FALSE, n, rows[n].id, rows[n].cursor)
  <2>1. Configured(n) /\ UNCHANGED <<rows, added, used>> /\ op' = [op EXCEPT ![w] = o]
    BY <1>5 DEF SourceSyncCommand, names
  <2>2. o \in Operation /\ o.name = n /\ o.id = rows[n].id /\ o.at = "build" /\ o.cursor = rows[n].cursor
    <3>1. "build" \in Step /\ 0 \in 0 .. MaxItem /\ rows[n].id \in Id /\ rows[n].cursor \in 0 .. MaxItem
      BY <2>1, RowFields DEF Step, Syncing
    <3> QED
      BY <3>1 DEF Begun, Operation
  <2> HIDE DEF o
  <2> QED
    BY <1>2, <2>1, <2>2
<1> QED
  BY <1>1, <1>3, <1>4, <1>5 DEF Call

LEMMA ExpireOp ==
  ASSUME TypeOK, NEW w \in Worker, Expire(w)
  PROVE  OpStep(w)
<1> DEFINE o == [op[w] EXCEPT !.expired = TRUE]
<1>1. op' = [op EXCEPT ![w] = o]
  BY DEF Expire
<1>2. /\ o \in Operation /\ o.at = op[w].at /\ o.name = op[w].name /\ o.id = op[w].id
      /\ o.cursor = op[w].cursor /\ o.upTo = op[w].upTo /\ o.ok = op[w].ok
  BY OperationFields DEF Operation
<1> HIDE DEF o
<1>3. /\ op' \in [Worker -> Operation]
      /\ \A v \in Worker \ {w} : op'[v] = op[v]
      /\ op'[w] = o
  BY <1>1, <1>2, TakesUp
<1> QED
  BY <1>2, <1>3 DEF OpStep, Keeps

(* Some worker acts, or none does. *)
LEMMA NextOp ==
  ASSUME TypeOK, Identified, Ingested, [Next]_vars
  PROVE  UNCHANGED op \/ \E w \in Worker : OpStep(w)
<1>1. ASSUME NEW w \in Worker, Crash(w) PROVE OpStep(w)
  BY <1>1, DoneSteps DEF Crash
<1> QED
  BY <1>1, CallOp, ContinueOp, ExpireOp DEF Next, vars, Arrive

LEMMA TypeStep ==
  ASSUME TypeOK, Identified, Ingested, [Next]_vars
  PROVE  TypeOK'
<1>1. rows' \in [Name -> Row \union {None}] /\ added' \in 0 .. MaxSources /\ used' \subseteq Name
  BY NextRows, AddTyped DEF RowsStep, names, TypeOK
<1>2. item' \in 0 .. MaxItem /\ held' \in [Id -> SUBSET Item] /\ missed' \in [Id -> SUBSET Item]
  BY NextGrows DEF Grows
<1>3. op' \in [Worker -> Operation]
  BY NextOp DEF OpStep, TypeOK
<1>4. interrupted' \in BOOLEAN
  <2>1. interrupted' = TRUE \/ UNCHANGED interrupted
    BY DEF Next, vars, Arrive, Call, Add, RemoveSource, HandleSourceSync, SourceSyncCommand,
           Continue, Validate, RollBack, Delete, MarkSyncRunning, Build, SyncList, SyncIngest,
           SetStatus, UpdateCursor, Expire, Crash
  <2> QED
    BY <2>1 DEF TypeOK
<1> QED
  BY <1>1, <1>2, <1>3, <1>4 DEF TypeOK

-----------------------------------------------------------------------------
(* While names are not reused, the row a step leaves is of a source that   *)
(* was there, or of one that has a name no worker knows yet.               *)
LEMMA AtBeginning == Idle.at = "idle" /\ Idle.name = None
BY DEF Idle, Begun

LEMMA RowAfter ==
  ASSUME TypeOK, RowsStep, NEW n \in Name, rows'[n] # None
  PROVE  \/ SameSource(n)
         \/ NewSource(n) /\ rows'[n].id = added + 1 /\ rows'[n].cursor = 0
<1>1. CASE OldRows
  BY <1>1 DEF OldRows
<1>2. ASSUME NEW m \in Name, NewSource(m)
      PROVE  \/ SameSource(n)
             \/ NewSource(n) /\ rows'[n].id = added + 1 /\ rows'[n].cursor = 0
  <2> rows \in [Name -> Row \union {None}]
    BY DEF TypeOK
  <2>1. rows' = [rows EXCEPT ![m] = [id |-> added + 1, cursor |-> 0, status |-> ""]]
    BY <1>2 DEF NewSource
  <2>2. CASE n = m
    <3> DEFINE row == [id |-> added + 1, cursor |-> 0, status |-> ""]
    <3>1. row.id = added + 1 /\ row.cursor = 0
      OBVIOUS
    <3> HIDE DEF row
    <3>2. rows'[n].id = added + 1 /\ rows'[n].cursor = 0
      BY <2>1, <2>2, <3>1 DEF row
    <3>3. NewSource(n)
      BY <1>2, <2>2
    <3> QED
      BY <3>2, <3>3
  <2>3. CASE n # m
    <3>1. rows'[n] = rows[n]
      BY <2>1, <2>3
    <3> QED
      BY <3>1, RowFields DEF SameSource, Configured
  <2> QED
    BY <2>2, <2>3
<1> QED
  BY <1>1, <1>2 DEF RowsStep

LEMMA NamesGrow ==
  ASSUME TypeOK, RowsStep
  PROVE  used \subseteq used' /\ added \in Int /\ added' \in Int /\ added <= added'
<1>1. added \in Int
  BY DEF TypeOK
<1>2. \/ used' = used /\ added' = added
      \/ \E n \in Name : used' = used \union {n} /\ added' = added + 1
  BY DEF RowsStep, NewSource, names
<1> QED
  BY <1>1, <1>2

LEMMA HandAfter ==
  ASSUME TypeOK, Identified, Ingested, [Next]_vars, NEW w \in Worker
  PROVE  op'[w] = Idle \/ Keeps(w) \/ Reads(w) \/ Adds(w)
<1>1. ASSUME op'[w] = op[w] PROVE Keeps(w)
  BY <1>1 DEF Keeps
<1>2. CASE UNCHANGED op
  BY <1>1, <1>2
<1>3. ASSUME NEW v \in Worker, OpStep(v) PROVE op'[w] = Idle \/ Keeps(w) \/ Reads(w) \/ Adds(w)
  BY <1>1, <1>3 DEF OpStep
<1> QED
  BY <1>2, <1>3, NextOp

LEMMA OldRow ==
  ASSUME TypeOK, Identified, NEW n \in Name, Configured(n)
  PROVE  n \in used /\ rows[n].id <= added /\ rows[n].id \in Int
<1>1. rows[n].id \in Id
  BY RowFields
<1>2. rows[n].id \in Int
  BY <1>1 DEF Id
<1>3. n \in used /\ rows[n].id <= added
  BY DEF Identified
<1> QED
  BY <1>2, <1>3

LEMMA IdentifiedStep ==
  ASSUME ~ Reuse, TypeOK, Identified, Ingested, [Next]_vars
  PROVE  Identified'
<1>1. RowsStep
  BY NextRows
<1>2. used \subseteq used' /\ added \in Int /\ added' \in Int /\ added <= added'
  BY <1>1, NamesGrow
<1>3. ASSUME NEW n \in Name, NewSource(n) PROVE n \notin used /\ n \in used' /\ added' = added + 1
  BY <1>3 DEF NewSource
<1>4. ASSUME NEW n \in Name, rows'[n] # None
      PROVE  n \in used' /\ rows'[n].id <= added'
  <2>1. CASE SameSource(n)
    <3>1. n \in used /\ rows[n].id <= added /\ rows[n].id \in Int /\ rows'[n].id = rows[n].id
      BY <2>1, OldRow DEF SameSource
    <3> QED
      BY <1>2, <3>1
  <2>2. CASE NewSource(n) /\ rows'[n].id = added + 1
    BY <1>2, <1>3, <2>2
  <2> QED
    BY <1>1, <1>4, <2>1, <2>2, RowAfter
<1>5. ASSUME NEW n \in Name, NEW m \in Name, rows'[n] # None, rows'[m] # None, rows'[n].id = rows'[m].id
      PROVE  n = m
  <2>1. \A k \in Name : SameSource(k) => rows'[k].id = rows[k].id /\ Configured(k) /\ rows[k].id \in Int /\ rows[k].id <= added
    BY OldRow DEF SameSource
  <2>2. CASE SameSource(n) /\ SameSource(m)
    BY <1>5, <2>1, <2>2 DEF Identified
  <2>3. CASE NewSource(n) /\ NewSource(m)
    BY <2>3 DEF NewSource
  <2>4. ASSUME NEW k \in Name, SameSource(k) PROVE rows'[k].id # added + 1
    BY <1>2, <2>1, <2>4
  <2> QED
    BY <1>1, <1>5, <2>2, <2>3, <2>4, RowAfter
<1>6. ASSUME NEW w \in Worker, NEW n \in Name, op'[w].name = n
      PROVE  /\ n \in used' /\ op'[w].id \in 1 .. added'
             /\ rows'[n] # None => rows'[n].id = op'[w].id
  <2>1. op'[w] # Idle
    BY <1>6, AtBeginning
  <2>2. CASE Keeps(w)
    <3>1. op[w].name = n /\ op'[w].id = op[w].id
      BY <1>6, <2>2 DEF Keeps
    <3>2. n \in used /\ op[w].id \in 1 .. added /\ (Configured(n) => rows[n].id = op[w].id)
      BY <3>1 DEF Identified
    <3>3. ASSUME rows'[n] # None PROVE SameSource(n)
      BY <1>1, <1>3, <3>2, <3>3, RowAfter
    <3>4. op'[w].id \in 1 .. added'
      BY <1>2, <3>1, <3>2
    <3>5. ASSUME rows'[n] # None PROVE rows'[n].id = op'[w].id
      BY <3>1, <3>2, <3>3, <3>5 DEF SameSource
    <3> QED
      BY <1>2, <3>2, <3>4, <3>5
  <2>3. CASE Reads(w)
    <3>1. Configured(n) /\ UNCHANGED <<rows, added, used>> /\ op'[w].id = rows[n].id
      BY <1>6, <2>3 DEF Reads
    <3>2. n \in used /\ rows[n].id <= added /\ rows[n].id \in Id
      BY <3>1, RowFields, OldRow
    <3>3. rows[n].id \in 1 .. added
      BY <1>2, <3>2 DEF Id
    <3>4. used' = used /\ added' = added /\ rows' = rows
      BY <3>1
    <3> QED
      BY <3>1, <3>2, <3>3, <3>4
  <2>4. CASE Adds(w)
    <3>1. NewSource(n) /\ op'[w].id = added + 1
      BY <1>6, <2>4 DEF Adds
    <3>2. ASSUME rows'[n] # None PROVE rows'[n].id = added + 1
      BY <1>1, <3>1, <3>2, RowAfter DEF SameSource, NewSource
    <3>3. added \in 0 .. MaxSources
      BY DEF TypeOK
    <3> QED
      BY <1>3, <3>1, <3>2, <3>3
  <2> QED
    BY <2>1, <2>2, <2>3, <2>4, HandAfter
<1>7. \A n \in Name : Configured(n)' <=> rows'[n] # None
  BY DEF Configured
<1> QED
  BY <1>4, <1>5, <1>6, <1>7 DEF Identified

-----------------------------------------------------------------------------
(* What is known of a source stays known. *)
LEMMA KnownGrows ==
  ASSUME Grows, NEW i \in Id, NEW upTo, Known(i, upTo)
  PROVE  \A k \in 1 .. upTo : k \in held'[i] \union missed'[i]
BY DEF Grows, Known

LEMMA InHandIds ==
  ASSUME TypeOK, Identified, Ingested, NEW w \in Worker, op[w].at \in InHand
  PROVE  op[w].name \in Name /\ op[w].id \in Id
<1>1. op[w].name \in Name
  BY DEF Ingested, InHand
<1>2. op[w].id \in 1 .. added /\ added \in 0 .. MaxSources
  BY <1>1 DEF Identified, TypeOK
<1> QED
  BY <1>1, <1>2 DEF Id

LEMMA IngestedStep ==
  ASSUME IInv, [Next]_vars
  PROVE  Ingested'
<1> USE DEF IInv
<1>1. Grows
  BY NextGrows
<1>2. ASSUME NEW w \in Worker, op'[w].at \in InHand
      PROVE  op'[w].name \in Name /\ \A k \in 1 .. op'[w].cursor : k \in held'[op'[w].id] \union missed'[op'[w].id]
  <2>1. op'[w] # Idle /\ ~ Adds(w)
    <3>1. op'[w].at # "idle" /\ op'[w].at # "validate"
      BY <1>2 DEF InHand, Syncing
    <3> QED
      BY <3>1, AtBeginning DEF Adds
  <2>2. CASE Keeps(w)
    <3>1. op[w].at \in InHand /\ op'[w].name = op[w].name /\ op'[w].id = op[w].id /\ op'[w].cursor = op[w].cursor
      BY <1>2, <2>2 DEF Keeps
    <3>2. Known(op[w].id, op[w].cursor)
      BY <3>1 DEF Ingested, InHand
    <3> QED
      BY <1>1, <3>1, <3>2, InHandIds, KnownGrows
  <2>3. CASE Reads(w)
    <3>1. PICK n \in Name : Configured(n) /\ op'[w].name = n /\ op'[w].id = rows[n].id /\ op'[w].cursor = rows[n].cursor
      BY <1>2, <2>3 DEF Reads
    <3>2. Known(rows[n].id, rows[n].cursor) /\ rows[n].id \in Id
      BY <3>1, RowFields DEF NothingSkipped, Known
    <3> QED
      BY <1>1, <3>1, <3>2, KnownGrows
  <2> QED
    BY <2>1, <2>2, <2>3, HandAfter
<1>3. ASSUME NEW w \in Worker, op'[w].at = "set cursor" \/ (op'[w].at = "set status" /\ op'[w].ok)
      PROVE  \A k \in 1 .. op'[w].upTo : k \in held'[op'[w].id] \union missed'[op'[w].id]
  <2>1. op'[w].at \in {"set status", "set cursor"}
    BY <1>3
  <2>2. Keeps(w)
    <3>1. op'[w].at # "idle" /\ op'[w].at # "validate"
      BY <2>1
    <3>2. op'[w] # Idle /\ ~ Adds(w) /\ ~ Reads(w)
      BY <2>1, <3>1, AtBeginning DEF Adds, Reads
    <3> QED
      BY <3>2, HandAfter
  <2>3. CASE Known(op[w].id, op[w].upTo)'
    BY <2>3 DEF Known
  <2>4. CASE /\ op[w].at = "set cursor" \/ (op[w].at = "set status" /\ op[w].ok)
             /\ op'[w].upTo = op[w].upTo /\ op'[w].id = op[w].id
    <3>1. Known(op[w].id, op[w].upTo) /\ op[w].at \in InHand
      BY <2>4 DEF Ingested, InHand, Syncing
    <3> QED
      BY <1>1, <2>4, <3>1, InHandIds, KnownGrows
  <2> QED
    BY <1>3, <2>2, <2>3, <2>4 DEF Keeps
<1> QED
  BY <1>2, <1>3 DEF Ingested, InHand, Known

LEMMA SkippedStep ==
  ASSUME IInv, [Next]_vars
  PROVE  NothingSkipped'
<1> USE DEF IInv
<1>1. Grows /\ RowsStep
  BY NextGrows, NextRows
<1>2. ASSUME NEW n \in Name, rows'[n] # None
      PROVE  \A k \in 1 .. rows'[n].cursor : k \in held'[rows'[n].id] \union missed'[rows'[n].id]
  <2>1. CASE SameSource(n)
    <3>1. Configured(n) /\ rows'[n].id = rows[n].id /\ rows[n].id \in Id
      BY <2>1, RowFields DEF SameSource
    <3>2. CASE rows'[n].cursor = rows[n].cursor
      <4>1. Known(rows[n].id, rows[n].cursor)
        BY <3>1 DEF NothingSkipped, Known
      <4> QED
        BY <1>1, <3>1, <3>2, <4>1, KnownGrows
    <3>3. ASSUME NEW w \in Worker, At(w, "set cursor"), op[w].name = n, rows'[n].cursor = op[w].upTo
          PROVE  \A k \in 1 .. rows'[n].cursor : k \in held'[rows'[n].id] \union missed'[rows'[n].id]
      <4>1. Known(op[w].id, op[w].upTo) /\ op[w].id = rows[n].id
        BY <3>1, <3>3 DEF Ingested, Identified, At
      <4> QED
        BY <1>1, <3>1, <3>3, <4>1, KnownGrows
    <3> QED
      BY <2>1, <3>2, <3>3 DEF SameSource
  <2>2. CASE rows'[n].cursor = 0
    BY <2>2
  <2> QED
    BY <1>1, <1>2, <2>1, <2>2, RowAfter
<1> QED
  BY <1>2 DEF NothingSkipped, Configured

-----------------------------------------------------------------------------
(* What internal/source keeps true of its table, of the syncs under way    *)
(* and of what was ingested, while no name is given to a second source.    *)
THEOREM Invariance ==
  ASSUME ~ Reuse
  PROVE  Spec => []IInv
<1>1. ASSUME IInv, [Next]_vars PROVE IInv'
  <2>1. TypeOK'
    BY <1>1, TypeStep DEF IInv
  <2>2. Identified'
    BY <1>1, IdentifiedStep DEF IInv
  <2>3. Ingested'
    BY <1>1, IngestedStep
  <2>4. NothingSkipped'
    BY <1>1, SkippedStep
  <2> QED
    BY <2>1, <2>2, <2>3, <2>4 DEF IInv
<1> QED
  BY <1>1, InitIInv, PTL DEF Spec

(* While no name is given to a second source, every item before a source's *)
(* cursor, which no later sync lists, has been ingested for that source or *)
(* reported as failed: whatever syncs, removals, crashes and deadlines     *)
(* overlapped.                                                             *)
THEOREM NothingIsSkipped ==
  ASSUME ~ Reuse
  PROVE  Spec => []NothingSkipped
<1>1. IInv => NothingSkipped
  BY DEF IInv
<1> QED
  BY <1>1, Invariance, PTL
=============================================================================
