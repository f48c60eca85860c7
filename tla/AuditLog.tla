------------------------------ MODULE AuditLog ------------------------------
(***************************************************************************)
(* internal/audit/writer.go: Store.Append, run by several operating-system *)
(* processes (the daemon and CLI invocations) over one audit table.  A     *)
(* process is one open Store: its mutex admits one goroutine to Append at  *)
(* a time, so one Append per process is in flight.  Every statement may    *)
(* fail, a process may crash between any two of them, and the wall clock   *)
(* may step back.                                                          *)
(***************************************************************************)
EXTENDS AuditVerify

CONSTANTS
  Process,       \* processes holding the audit database open
  NoProcess,     \* the write lock is free
  Entropy,       \* the entropy part of a ULID, 1 .. the largest draw
  MaxAttempts,   \* attempts of nextID; 100 in the code
  MaxClock,      \* bound: the wall clock, in milliseconds
  MaxIDs         \* bound: Append is called while fewer ids than this have been generated

ASSUME AuditAssumption ==
  /\ NoProcess \notin Process
  /\ Entropy \subseteq Nat \ {0}
  /\ MaxAttempts \in Nat \ {0}
  /\ MaxClock \in Nat
  /\ MaxIDs \in Nat

VARIABLES
  rows,      \* the committed rows of audit_entries, in insertion order
  dbLock,    \* who holds BEGIN IMMEDIATE, or pg_advisory_xact_lock
  pc,        \* where each process is in Append
  lastID,    \* Store.lastID
  entropy,   \* Store.ulidEnt: the millisecond and value of its last draw
  draft,     \* the entry each process is appending
  now,       \* populateAndInsert's now, advanced by nextID
  tries,     \* nextID's attempt
  clock,     \* the wall clock
  peak,      \* history: the greatest value of the clock
  generated, \* history: how many ids nextID has returned
  acked      \* history: the entries Append has returned without an error

vars == <<rows, dbLock, pc, lastID, entropy, draft, now, tries, clock, peak, generated, acked>>

(* The steps of Append that run between BEGIN and COMMIT. *)
InTx == {"head", "id", "insert", "commit"}
Step == {"down", "idle", "begin"} \union InTx

NoRow(event) ==
  [id |-> NoID, ts |-> 0, event |-> event, prev |-> GenesisHash, hash |-> GenesisHash]

TypeOK ==
  /\ rows \in Seq(Row)
  /\ dbLock \in Process \union {NoProcess}
  /\ pc \in [Process -> Step]
  /\ lastID \in [Process -> ID]
  /\ entropy \in [Process -> ID]
  /\ draft \in [Process -> Row]
  /\ now \in [Process -> Nat]
  /\ tries \in [Process -> Nat]
  /\ clock \in Nat
  /\ peak \in Nat
  /\ generated \in Nat
  /\ acked \subseteq Row

Init ==
  /\ rows = << >>
  /\ dbLock = NoProcess
  /\ pc = [p \in Process |-> "down"]
  /\ lastID = [p \in Process |-> NoID]
  /\ entropy = [p \in Process |-> NoID]
  /\ \E event \in Event : draft = [p \in Process |-> NoRow(event)]
  /\ now = [p \in Process |-> 0]
  /\ tries = [p \in Process |-> 0]
  /\ clock = 0
  /\ peak = 0
  /\ generated = 0
  /\ acked = {}

-----------------------------------------------------------------------------
(* The process: opening the store, dying, and the clock it reads.          *)

(* openWith: a fresh entropy source, and lastID from loadHeadHash. *)
Open(p) ==
  /\ pc[p] = "down"
  /\ pc' = [pc EXCEPT ![p] = "idle"]
  /\ lastID' = [lastID EXCEPT ![p] = HeadID(rows)]
  /\ entropy' = [entropy EXCEPT ![p] = NoID]
  /\ UNCHANGED <<rows, dbLock, draft, now, tries, clock, peak, generated, acked>>

Release(p) == IF dbLock = p THEN NoProcess ELSE dbLock

(* The process exits or is killed; the database rolls its transaction back. *)
Crash(p) ==
  /\ pc[p] # "down"
  /\ pc' = [pc EXCEPT ![p] = "down"]
  /\ dbLock' = Release(p)
  /\ lastID' = [lastID EXCEPT ![p] = NoID]
  /\ entropy' = [entropy EXCEPT ![p] = NoID]
  /\ draft' = [draft EXCEPT ![p] = NoRow(@.event)]
  /\ now' = [now EXCEPT ![p] = 0]
  /\ tries' = [tries EXCEPT ![p] = 0]
  /\ UNCHANGED <<rows, clock, peak, generated, acked>>

Tick ==
  /\ clock < MaxClock
  /\ clock' = clock + 1
  /\ peak' = IF clock' > peak THEN clock' ELSE peak
  /\ UNCHANGED <<rows, dbLock, pc, lastID, entropy, draft, now, tries, generated, acked>>

(* The wall clock is set back. *)
StepBack ==
  /\ clock > 0
  /\ \E t \in 0 .. clock - 1 : clock' = t
  /\ UNCHANGED <<rows, dbLock, pc, lastID, entropy, draft, now, tries, peak, generated, acked>>

-----------------------------------------------------------------------------
(* Append.                                                                 *)

(* Append is entered with a valid entry and has taken the mutex. *)
Call(p, event) ==
  /\ pc[p] = "idle"
  /\ generated < MaxIDs
  /\ pc' = [pc EXCEPT ![p] = "begin"]
  /\ draft' = [draft EXCEPT ![p] = NoRow(event)]
  /\ UNCHANGED <<rows, dbLock, lastID, entropy, now, tries, clock, peak, generated, acked>>

(* Slip: BEGIN DEFERRED, which takes no write lock. *)
BeginDeferred(p) ==
  /\ pc[p] = "begin"
  /\ dbLock' = p
  /\ pc' = [pc EXCEPT ![p] = "head"]
  /\ UNCHANGED <<rows, lastID, entropy, draft, now, tries, clock, peak, generated, acked>>

(* BEGIN IMMEDIATE, or the transaction and its advisory lock. *)
Begin(p) ==
  /\ pc[p] = "begin"
  /\ dbLock = NoProcess
  /\ dbLock' = p
  /\ pc' = [pc EXCEPT ![p] = "head"]
  /\ UNCHANGED <<rows, lastID, entropy, draft, now, tries, clock, peak, generated, acked>>

(* Slip: lastID is left as this process last saw it. *)
ReadHeadHashOnly(p) ==
  /\ pc[p] = "head"
  /\ draft' = [draft EXCEPT ![p].prev = HeadHash(rows), ![p].ts = clock]
  /\ now' = [now EXCEPT ![p] = clock]
  /\ tries' = [tries EXCEPT ![p] = 0]
  /\ pc' = [pc EXCEPT ![p] = "id"]
  /\ UNCHANGED <<rows, dbLock, lastID, entropy, clock, peak, generated, acked>>

(* readHeadInSQLiteTx / readHeadInPgTx, then populateAndInsert's now. *)
ReadHead(p) ==
  /\ pc[p] = "head"
  /\ draft' = [draft EXCEPT ![p].prev = HeadHash(rows), ![p].ts = clock]
  /\ lastID' = [lastID EXCEPT ![p] = IF LessID(@, HeadID(rows)) THEN HeadID(rows) ELSE @]
  /\ now' = [now EXCEPT ![p] = clock]
  /\ tries' = [tries EXCEPT ![p] = 0]
  /\ pc' = [pc EXCEPT ![p] = "id"]
  /\ UNCHANGED <<rows, dbLock, entropy, clock, peak, generated, acked>>

(* MonotonicEntropy: within a millisecond the draws only grow. *)
Draws(p) ==
  IF entropy[p][1] = now[p] THEN {e \in Entropy : e > entropy[p][2]} ELSE Entropy

(* An iteration of nextID's loop: the draw sorts above lastID and is the id. *)
TakeID(p, e) ==
  LET id == <<now[p], e>> IN
  /\ LessID(lastID[p], id)
  /\ entropy' = [entropy EXCEPT ![p] = id]
  /\ lastID' = [lastID EXCEPT ![p] = id]
  /\ draft' = [draft EXCEPT ![p].id = id]
  /\ generated' = generated + 1
  /\ pc' = [pc EXCEPT ![p] = "insert"]
  /\ UNCHANGED <<rows, dbLock, now, tries, clock, peak, acked>>

(* It does not: the next iteration draws for the next millisecond. *)
BumpID(p, e) ==
  LET id == <<now[p], e>> IN
  /\ ~ LessID(lastID[p], id)
  /\ entropy' = [entropy EXCEPT ![p] = id]
  /\ now' = [now EXCEPT ![p] = @ + 1]
  /\ tries' = [tries EXCEPT ![p] = @ + 1]
  /\ UNCHANGED <<rows, dbLock, pc, lastID, draft, clock, peak, generated, acked>>

TryID(p) ==
  /\ pc[p] = "id"
  /\ tries[p] < MaxAttempts
  /\ \E e \in Draws(p) : TakeID(p, e) \/ BumpID(p, e)

(* Slip: the entry is handed out once it is inserted. *)
InsertAndReturn(p) ==
  LET d == draft[p]
      row == [d EXCEPT !.hash = ComputeHash(d.prev, d.id, d.ts, d.event)] IN
  /\ pc[p] = "insert"
  /\ draft' = [draft EXCEPT ![p] = row]
  /\ acked' = acked \union {row}
  /\ pc' = [pc EXCEPT ![p] = "commit"]
  /\ UNCHANGED <<rows, dbLock, lastID, entropy, now, tries, clock, peak, generated>>

(* computeHash and the INSERT; id is the primary key. *)
Insert(p) ==
  LET d == draft[p] IN
  /\ pc[p] = "insert"
  /\ \A i \in DOMAIN rows : rows[i].id # d.id
  /\ draft' = [draft EXCEPT ![p].hash = ComputeHash(d.prev, d.id, d.ts, d.event)]
  /\ pc' = [pc EXCEPT ![p] = "commit"]
  /\ UNCHANGED <<rows, dbLock, lastID, entropy, now, tries, clock, peak, generated, acked>>

(* Append returns: its locals are gone and its transaction is over. *)
Return(p) ==
  /\ pc' = [pc EXCEPT ![p] = "idle"]
  /\ draft' = [draft EXCEPT ![p] = NoRow(@.event)]
  /\ now' = [now EXCEPT ![p] = 0]
  /\ tries' = [tries EXCEPT ![p] = 0]
  /\ dbLock' = Release(p)
  /\ UNCHANGED <<lastID, entropy, clock, peak, generated>>

(* COMMIT; the entry is returned. *)
Commit(p) ==
  /\ pc[p] = "commit"
  /\ rows' = Append(rows, draft[p])
  /\ acked' = acked \union {draft[p]}
  /\ Return(p)

(* COMMIT reaches the server and its answer is lost: the caller gets an error. *)
CommitUnconfirmed(p) ==
  /\ pc[p] = "commit"
  /\ rows' = Append(rows, draft[p])
  /\ Return(p)
  /\ UNCHANGED acked

(* Slip: a failed statement starts the transaction over. *)
StatementRetried(p) ==
  /\ pc[p] \in {"begin"} \union InTx
  /\ pc' = [pc EXCEPT ![p] = "begin"]
  /\ dbLock' = Release(p)
  /\ UNCHANGED <<rows, lastID, entropy, draft, now, tries, clock, peak, generated, acked>>

(* BEGIN fails, for the lock stayed taken throughout busy_timeout; a statement *)
(* of the transaction fails and it is rolled back; or the call is cancelled.   *)
StatementFails(p) ==
  /\ pc[p] \in {"begin"} \union InTx
  /\ Return(p)
  /\ UNCHANGED <<rows, acked>>

(* nextID runs out of attempts: "clock skew?". *)
GiveUp(p) ==
  /\ pc[p] = "id"
  /\ tries[p] = MaxAttempts
  /\ Return(p)
  /\ UNCHANGED <<rows, acked>>

(* ulid.New: the monotonic entropy overflows its millisecond. *)
EntropyOverflow(p) ==
  /\ pc[p] = "id"
  /\ tries[p] < MaxAttempts
  /\ Draws(p) = {}
  /\ Return(p)
  /\ UNCHANGED <<rows, acked>>

-----------------------------------------------------------------------------
AppendStep(p) ==
  \/ Begin(p) \/ ReadHead(p) \/ TryID(p) \/ Insert(p) \/ Commit(p)
  \/ CommitUnconfirmed(p) \/ StatementFails(p) \/ GiveUp(p) \/ EntropyOverflow(p)

Next ==
  \/ \E p \in Process : Open(p) \/ Crash(p) \/ AppendStep(p)
  \/ \E p \in Process, event \in Event : Call(p, event)
  \/ Tick
  \/ StepBack

Spec == Init /\ [][Next]_vars

(***************************************************************************)
(* A goroutine inside Append keeps running: it waits at most busy_timeout  *)
(* for the lock and every other statement returns.  Nothing is assumed of  *)
(* callers, of crashes, of the clock, or that a statement succeeds.        *)
(***************************************************************************)
Fairness == \A p \in Process : WF_vars(AppendStep(p))

FairSpec == Spec /\ Fairness

-----------------------------------------------------------------------------
(* Properties.                                                             *)

(* Every snapshot of the table passes Store.Verify: no interleaving of     *)
(* writers, failed transaction, crash or clock step leaves a row whose     *)
(* prev_hash is not the hash of the row before it in id order.             *)
VerifyPasses == Valid(rows)

(* nextID's first invariant: ids strictly increase in insertion order,     *)
(* whichever process inserted and whatever its clock said.                 *)
IdsFollowInsertion ==
  \A i, j \in DOMAIN rows : i < j => LessID(rows[i].id, rows[j].id)

(* An entry Append returned is in the table ever after, with the id, the   *)
(* previous hash and the hash its caller was given.                        *)
AckedAreRecorded == \A r \in acked : \E i \in DOMAIN rows : rows[i] = r

(* The bumping of nextID never dates an id more than MaxAttempts ms away   *)
(* from the timestamp stored in the same row.                              *)
IdNearTimestamp ==
  \A i \in DOMAIN rows :
    /\ rows[i].ts <= rows[i].id[1]
    /\ rows[i].id[1] < rows[i].ts + MaxAttempts

(* An entry is refused for want of an id only if the clock has been set    *)
(* back, or enough ids have been generated for the bumps to pile up: the   *)
(* step back and the ids together make up MaxAttempts milliseconds.        *)
RefusalNeedsSkew ==
  \A p \in Process :
    pc[p] = "id" /\ tries[p] = MaxAttempts =>
      peak + generated >= draft[p].ts + MaxAttempts

(* Altering the content or the time of any recorded row makes Verify stop  *)
(* at that row.                                                            *)
EditDetected ==
  \A i \in DOMAIN rows, event \in Event, ts \in 0 .. MaxClock + 1 :
    LET edited == [rows EXCEPT ![i].event = event, ![i].ts = ts] IN
    edited # rows => ~ Valid(edited) /\ BrokenAt(edited) = rows[i].id

Without(s, i) == [j \in 1 .. Len(s) - 1 |-> IF j < i THEN s[j] ELSE s[j + 1]]

(* A row missing from before the newest one makes Verify stop at the row   *)
(* that followed it.                                                       *)
GapDetected ==
  \A i \in 1 .. Len(rows) - 1 :
    ~ Valid(Without(rows, i)) /\ BrokenAt(Without(rows, i)) = rows[i + 1].id

(* A rewritten row and a removed one are both detected, and Verify names   *)
(* the row where the chain breaks.                                         *)
TamperDetected == EditDetected /\ GapDetected

(* Every call of Append returns, unless its process dies: neither the lock *)
(* nor nextID's loop holds it for ever.                                    *)
AppendReturns ==
  \A p \in Process : pc[p] \in {"begin"} \union InTx ~> pc[p] \in {"idle", "down"}

(***************************************************************************)
(* The inductive invariant behind the properties above.  The write lock    *)
(* makes what a transaction read of the head stay true until it commits;   *)
(* the id it drew exceeds every recorded one; ids run ahead of the highest *)
(* clock by less than the number of ids generated.                         *)
(***************************************************************************)
LockHeld == \A p \in Process : pc[p] \in InTx => dbLock = p

Linked ==
  \A i \in DOMAIN rows :
    /\ rows[i].prev = IF i = 1 THEN GenesisHash ELSE rows[i - 1].hash
    /\ rows[i].hash = ComputeHash(rows[i].prev, rows[i].id, rows[i].ts, rows[i].event)

HeadKnown ==
  \A p \in Process :
    /\ pc[p] \in {"id", "insert", "commit"} => draft[p].prev = HeadHash(rows)
    /\ pc[p] = "id" => ~ LessID(lastID[p], HeadID(rows))

Dated(p) ==
  /\ draft[p].id = lastID[p] /\ draft[p].id # NoID
  /\ \A i \in DOMAIN rows : LessID(rows[i].id, draft[p].id)
  /\ draft[p].ts <= draft[p].id[1]
  /\ draft[p].id[1] < draft[p].ts + MaxAttempts

Hashed(p) ==
  draft[p].hash = ComputeHash(draft[p].prev, draft[p].id, draft[p].ts, draft[p].event)

DraftReady ==
  \A p \in Process :
    /\ pc[p] \in {"insert", "commit"} => Dated(p)
    /\ pc[p] = "commit" => Hashed(p)

Bumped ==
  \A p \in Process : pc[p] = "id" =>
    /\ now[p] = draft[p].ts + tries[p]
    /\ tries[p] <= MaxAttempts
    /\ draft[p].ts <= peak
    /\ tries[p] > 0 => lastID[p] # NoID /\ now[p] <= lastID[p][1] + 1

AheadOfClock ==
  /\ clock <= peak
  /\ \A i \in DOMAIN rows : rows[i].id[1] < peak + generated
  /\ \A p \in Process : lastID[p] = NoID \/ lastID[p][1] < peak + generated

IInv ==
  /\ TypeOK
  /\ LockHeld
  /\ IdsFollowInsertion
  /\ Linked
  /\ HeadKnown
  /\ DraftReady
  /\ Bumped
  /\ AheadOfClock
  /\ IdNearTimestamp
  /\ AckedAreRecorded

(* The table implements the abstract chain: a commit by anybody extends it *)
(* at its end, and nothing else changes it.                                *)
Chain == INSTANCE AuditChain WITH chain <- rows
ChainSpec == Chain!Spec
=============================================================================
