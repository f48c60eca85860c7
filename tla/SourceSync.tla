----------------------------- MODULE SourceSync -----------------------------
(***************************************************************************)
(* internal/source and the console and CLI commands over it: adding a      *)
(* source, synchronizing it and removing it.  A source is known by its     *)
(* name in the table sources; every statement on the table is one step,    *)
(* and so is the adapter's listing of what is new and its ingestion.  The  *)
(* provider is a growing sequence of items and a cursor a position in it.  *)
(* Credentials and audit entries are left out.                             *)
(***************************************************************************)
EXTENDS Integers, FiniteSets

CONSTANTS
  Name,        \* names of sources
  Worker,      \* console requests with their goroutines, and CLI commands
  None,        \* no row
  MaxSources,  \* bound: sources added
  MaxItem,     \* bound: items the provider has
  Reuse,       \* whether the name of a removed source is given to another
  Crashes      \* whether processes die and requests are cancelled

ASSUME SourceAssumption ==
  /\ None \notin Name
  /\ MaxSources \in Nat /\ MaxItem \in Nat
  /\ Reuse \in BOOLEAN /\ Crashes \in BOOLEAN

VARIABLES
  rows,         \* the table sources: a row, or None
  added,        \* how many sources have been added; the last one's id
  used,         \* history: the names that have been given
  item,         \* the provider: its items are 1 .. item
  held,         \* the items in memory and storage, of each source
  missed,       \* the items each source reported as failed, and went past
  op,           \* what each worker is doing
  interrupted   \* history: a worker has died, or its 30 minutes have passed

vars == <<rows, added, used, item, held, missed, op, interrupted>>

Id == 1 .. MaxSources
Item == 1 .. MaxItem
Status == {"", "running", "success", "error"}
Row == [id : Id, cursor : 0 .. MaxItem, status : Status]

(* Where a sync stands, once its row is marked. *)
Syncing == {"build", "list", "ingest", "set status", "set cursor"}
Step == {"idle", "mark", "validate", "roll back", "remove"} \union Syncing

(* The row as it was read; up to which item was listed; how the sync went; *)
(* whether the context's deadline has passed.                              *)
Operation ==
  [at : Step, console : BOOLEAN, name : Name \union {None}, id : Id \union {0},
   cursor : 0 .. MaxItem, upTo : 0 .. MaxItem, ok : BOOLEAN, expired : BOOLEAN]

(* An operation begins, with what was read of the row. *)
Begun(at, console, n, id, cursor) ==
  [at |-> at, console |-> console, name |-> n, id |-> id,
   cursor |-> cursor, upTo |-> 0, ok |-> FALSE, expired |-> FALSE]

Idle == Begun("idle", FALSE, None, 0, 0)

TypeOK ==
  /\ rows \in [Name -> Row \union {None}]
  /\ added \in 0 .. MaxSources
  /\ used \subseteq Name
  /\ item \in 0 .. MaxItem
  /\ held \in [Id -> SUBSET Item]
  /\ missed \in [Id -> SUBSET Item]
  /\ op \in [Worker -> Operation]
  /\ interrupted \in BOOLEAN

Init ==
  /\ rows = [n \in Name |-> None]
  /\ added = 0
  /\ used = {}
  /\ item = 0
  /\ held = [i \in Id |-> {}]
  /\ missed = [i \in Id |-> {}]
  /\ op = [w \in Worker |-> Idle]
  /\ interrupted = FALSE

provider == <<item, held, missed>>
names == <<added, used>>

At(w, step) == op[w].at = step
Goto(w, step) == op' = [op EXCEPT ![w].at = step]
Done(w) == op' = [op EXCEPT ![w] = Idle]

Configured(n) == rows[n] # None

-----------------------------------------------------------------------------
(* handleSourceAdd, and `loamss source add`, which does not try the source. *)
Add(w, n, console) ==
  /\ At(w, "idle")
  /\ ~ Configured(n) /\ (Reuse \/ n \notin used) /\ added < MaxSources
  /\ added' = added + 1 /\ used' = used \union {n}
  /\ rows' = [rows EXCEPT ![n] = [id |-> added + 1, cursor |-> 0, status |-> ""]]
  /\ IF console
     THEN op' = [op EXCEPT ![w] = Begun("validate", TRUE, n, added + 1, 0)]
     ELSE UNCHANGED op
  /\ UNCHANGED <<provider, interrupted>>

Validate(w) ==
  /\ At(w, "validate")
  /\ Done(w) \/ Goto(w, "roll back")
  /\ UNCHANGED <<rows, names, provider, interrupted>>

(* Delete, by name. *)
RollBack(w) ==
  /\ At(w, "roll back")
  /\ rows' = [rows EXCEPT ![op[w].name] = None]
  /\ Done(w)
  /\ UNCHANGED <<names, provider, interrupted>>

(* handleSourceDelete and `loamss source remove`: Get, then Delete. *)
RemoveSource(w, n) ==
  /\ At(w, "idle") /\ Configured(n)
  /\ op' = [op EXCEPT ![w] = Begun("remove", FALSE, n, rows[n].id, 0)]
  /\ UNCHANGED <<rows, names, provider, interrupted>>

Delete(w) ==
  /\ At(w, "remove")
  /\ rows' = [rows EXCEPT ![op[w].name] = None]
  /\ Done(w)
  /\ UNCHANGED <<names, provider, interrupted>>

-----------------------------------------------------------------------------
(* The read that begins a sync.  The console turns down a source that is   *)
(* being synchronized; the CLI does not look, nor mark.                    *)
HandleSourceSync(w, n) ==
  /\ At(w, "idle") /\ Configured(n)
  /\ rows[n].status # "running"
  /\ op' = [op EXCEPT ![w] = Begun("mark", TRUE, n, rows[n].id, rows[n].cursor)]
  /\ UNCHANGED <<rows, names, provider, interrupted>>

SourceSyncCommand(w, n) ==
  /\ At(w, "idle") /\ Configured(n)
  /\ op' = [op EXCEPT ![w] = Begun("build", FALSE, n, rows[n].id, rows[n].cursor)]
  /\ UNCHANGED <<rows, names, provider, interrupted>>

(* UPDATE ... WHERE name = ?: an error if there is no such row any more,   *)
(* or if the context has expired.                                          *)
Updated(w, row) == [rows EXCEPT ![op[w].name] = row]
Reaches(w) == Configured(op[w].name) /\ ~ op[w].expired
SetLastSync(w, status) == Updated(w, [rows[op[w].name] EXCEPT !.status = status])

MarkSyncRunning(w) ==
  /\ At(w, "mark")
  /\ \/ Reaches(w) /\ rows' = SetLastSync(w, "running") /\ Goto(w, "build")
     \/ ~ Configured(op[w].name) /\ Done(w) /\ UNCHANGED rows
  /\ UNCHANGED <<names, provider, interrupted>>

(* Slip: a source that cannot be built stays as it was marked. *)
BuildOrReturn(w) ==
  /\ At(w, "build")
  /\ Goto(w, "list") \/ Done(w)
  /\ UNCHANGED <<rows, names, provider, interrupted>>

(* Build; on an error the goroutine of the console sets the status. *)
Build(w) ==
  /\ At(w, "build")
  /\ \/ Goto(w, "list") /\ UNCHANGED rows
     \/ /\ Done(w)
        /\ IF op[w].console /\ Reaches(w) THEN rows' = SetLastSync(w, "error") ELSE UNCHANGED rows
  /\ UNCHANGED <<names, provider, interrupted>>

(* Source.Sync lists what is new since the cursor the row was read with... *)
SyncList(w) ==
  /\ At(w, "list")
  /\ op' = [op EXCEPT ![w].at = "ingest", ![w].upTo = item]
  /\ UNCHANGED <<rows, names, provider, interrupted>>

(* ... and ingests it; it gives up on an error, or goes past the items that *)
(* fail, as they all do once the deadline has passed, and reports them.    *)
SyncIngest(w) ==
  LET fresh == op[w].cursor + 1 .. op[w].upTo
      i == op[w].id IN
  /\ At(w, "ingest")
  /\ \E got \in SUBSET fresh, ok \in BOOLEAN :
       /\ held' = [held EXCEPT ![i] = @ \union got]
       /\ missed' = IF ok THEN [missed EXCEPT ![i] = @ \union (fresh \ got)] ELSE missed
       /\ op' = [op EXCEPT ![w].at = "set status", ![w].ok = ok]
  /\ UNCHANGED <<rows, names, item, interrupted>>

(* Slip: the status and the cursor are set whatever the outcome. *)
SetStatusAndGoOn(w) ==
  /\ At(w, "set status")
  /\ rows' = IF Reaches(w) THEN SetLastSync(w, IF op[w].ok THEN "success" ELSE "error") ELSE rows
  /\ Goto(w, "set cursor")
  /\ UNCHANGED <<names, provider, interrupted>>

(* RunSync: the status, whatever the outcome; its error is dropped. *)
SetStatus(w) ==
  /\ At(w, "set status")
  /\ rows' = IF Reaches(w) THEN SetLastSync(w, IF op[w].ok THEN "success" ELSE "error") ELSE rows
  /\ IF op[w].ok THEN Goto(w, "set cursor") ELSE Done(w)
  /\ UNCHANGED <<names, provider, interrupted>>

(* ... and the cursor, if it succeeded; its error is dropped. *)
UpdateCursor(w) ==
  /\ At(w, "set cursor")
  /\ rows' = IF Reaches(w) THEN Updated(w, [rows[op[w].name] EXCEPT !.cursor = op[w].upTo]) ELSE rows
  /\ Done(w)
  /\ UNCHANGED <<names, provider, interrupted>>

-----------------------------------------------------------------------------
(* The provider has something new. *)
Arrive ==
  /\ item < MaxItem
  /\ item' = item + 1
  /\ UNCHANGED <<rows, names, held, missed, op, interrupted>>

(* The 30 minutes of a console sync pass. *)
Expire(w) ==
  /\ op[w].at \in Syncing /\ op[w].console /\ ~ op[w].expired
  /\ op' = [op EXCEPT ![w].expired = TRUE]
  /\ interrupted' = TRUE
  /\ UNCHANGED <<rows, names, provider>>

Crash(w) ==
  /\ Crashes /\ ~ At(w, "idle")
  /\ Done(w)
  /\ interrupted' = TRUE
  /\ UNCHANGED <<rows, names, provider>>

Call(w) ==
  \E n \in Name :
    \/ \E console \in BOOLEAN : Add(w, n, console)
    \/ RemoveSource(w, n) \/ HandleSourceSync(w, n) \/ SourceSyncCommand(w, n)

Continue(w) ==
  \/ Validate(w) \/ RollBack(w) \/ Delete(w)
  \/ MarkSyncRunning(w) \/ Build(w) \/ SyncList(w) \/ SyncIngest(w) \/ SetStatus(w) \/ UpdateCursor(w)

Next == Arrive \/ \E w \in Worker : Call(w) \/ Continue(w) \/ Expire(w) \/ Crash(w)

Spec == Init /\ [][Next]_vars

(* A goroutine that is not waiting for anybody runs on. *)
FairSpec == Spec /\ \A w \in Worker : WF_vars(Continue(w))

-----------------------------------------------------------------------------
(* Properties.                                                             *)

(* Every item before a source's cursor, which no later sync will list, has *)
(* been ingested for that very source or reported as failed: whatever      *)
(* syncs, removals and crashes went before.  Not so once a name is reused. *)
NothingSkipped ==
  \A n \in Name : Configured(n) =>
    \A i \in 1 .. rows[n].cursor : i \in held[rows[n].id] \union missed[rows[n].id]

(* A source does not stay marked as running, where the console turns every *)
(* sync down, unless a worker was interrupted.                             *)
RunningEnds ==
  \A n \in Name :
    Configured(n) /\ rows[n].status = "running" ~>
      interrupted \/ ~ Configured(n) \/ (Configured(n) /\ rows[n].status # "running")

(* runner.go, MarkSyncRunning: "The status will be flipped back to         *)
(* success/error by RunSync's SetLastSync call": whenever a source is      *)
(* marked as running somebody is still to unmark it.                       *)
RunningIsLive ==
  \A n \in Name : Configured(n) /\ rows[n].status = "running" =>
    \E w \in Worker : op[w].name = n /\ op[w].at \in Syncing

(***************************************************************************)
(* The inductive invariant behind NothingSkipped: while names are not      *)
(* reused a worker's name and id belong together, so what a sync listed    *)
(* and ingested since the cursor it read extends what was held up to that  *)
(* cursor.                                                                 *)
(***************************************************************************)
Known(i, upTo) == \A k \in 1 .. upTo : k \in held[i] \union missed[i]

Identified ==
  /\ \A n \in Name : Configured(n) => n \in used /\ rows[n].id <= added
  /\ \A n, m \in Name : Configured(n) /\ Configured(m) /\ rows[n].id = rows[m].id => n = m
  /\ \A w \in Worker, n \in Name :
       op[w].name = n => n \in used /\ op[w].id \in 1 .. added
                         /\ (Configured(n) => rows[n].id = op[w].id)

Ingested ==
  /\ \A w \in Worker : op[w].at \in Syncing \union {"mark"} => op[w].name \in Name /\ Known(op[w].id, op[w].cursor)
  /\ \A w \in Worker : op[w].at = "set cursor" => Known(op[w].id, op[w].upTo)
  /\ \A w \in Worker : op[w].at = "set status" /\ op[w].ok => Known(op[w].id, op[w].upTo)

IInv == TypeOK /\ Identified /\ Ingested /\ NothingSkipped
=============================================================================
