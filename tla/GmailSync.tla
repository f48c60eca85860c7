----------------------------- MODULE GmailSync -----------------------------
(***************************************************************************)
(* internal/source/gmail: one pass over a mailbox.  Without a cursor the   *)
(* newest messages are listed page by page and fetched one by one, and the *)
(* largest history id among them becomes the cursor; with a cursor the     *)
(* history since then says what to fetch and what to delete.  Mail         *)
(* arrives, changes and goes meanwhile; the ids are numbers that Gmail     *)
(* writes in decimal and that the code compares as strings.                *)
(***************************************************************************)
EXTENDS Naturals, Sequences, FiniteSets, FiniteSetsExt, Functions

CONSTANTS
  Message,       \* 1 .. n, numbered as they arrive
  Page,          \* records on a page of the service (100 messages)
  MaxFullSync,   \* max_full_sync of the configuration
  FirstId,       \* the mailbox's history id at the start
  LastId,        \* bound: history ids
  MaxPasses,     \* bound: passes
  None

GmailParameters ==
  /\ Message \subseteq Nat /\ IsFiniteSet(Message) /\ Page \in Nat \ {0}
  /\ FirstId \in Nat /\ LastId \in Nat /\ FirstId <= LastId
  /\ None \notin Nat

VARIABLES
  mail,          \* the mailbox: the messages, with the id of their last change
  log,           \* the mailbox's history: its records by id
  now,           \* the id of the newest record
  oldest,        \* history from here on is still served
  stored, memory, \* the .eml files, the entries of the memory layer
  cursor,        \* history_id of the cursor; None if empty
  pass, passes,
  blamed         \* ghost: messages in Errors, half done, or not covered by the promise of a pass

gmailVars == <<mail, log, now, oldest, stored, memory, cursor, pass, passes, blamed>>

NoPass == [at |-> "idle", full |-> FALSE, todo |-> <<>>, after |-> None, more |-> FALSE,
           count |-> 0, high |-> None, largest |-> 0, drop |-> {}, did |-> {}]

GmailInit ==
  /\ mail = [m \in Message |-> None] /\ log = <<>> /\ now = FirstId /\ oldest = FirstId
  /\ stored = {} /\ memory = {} /\ cursor = None
  /\ pass = NoPass /\ passes = 0 /\ blamed = {}

GmailTypeOK ==
  /\ mail \in [Message -> (FirstId .. LastId) \union {None}]
  /\ now \in FirstId .. LastId /\ Len(log) = now - FirstId
  /\ stored \subseteq Message /\ memory \subseteq Message /\ blamed \subseteq Message
  /\ cursor \in (FirstId .. LastId) \union {None}
  /\ pass.at \in {"idle", "list", "fetch", "history", "delete"}

Box == {m \in Message : mail[m] # None}
Record(id) == log[id - FirstId]

-----------------------------------------------------------------------------
(* The mailbox.                                                            *)
Arrived == {m \in Message : \E i \in DOMAIN log : log[i] = <<"added", m>>}

Happens(kind, m, id) ==
  /\ now < LastId
  /\ now' = now + 1
  /\ log' = Append(log, <<kind, m>>)
  /\ mail' = [mail EXCEPT ![m] = id]
  /\ blamed' = IF pass.at # "idle" /\ pass.full THEN blamed \union {m} ELSE blamed
  /\ UNCHANGED <<oldest, stored, memory, cursor, pass, passes>>

Arrives(m) == m \notin Arrived /\ (\A k \in Message : k < m => k \in Arrived) /\ Happens("added", m, now + 1)
Changes(m) == m \in Box /\ Happens("changed", m, now + 1)
Goes(m) == m \in Box /\ Happens("deleted", m, None)

(* Gmail serves the history of a few weeks.                                *)
Forget ==
  /\ oldest < now /\ oldest' = now
  /\ UNCHANGED <<mail, log, now, stored, memory, cursor, pass, passes, blamed>>

-----------------------------------------------------------------------------
(* The order of the strings: of the decimal digits, from the left.         *)
InDigits(id) == IF id < 10 THEN id * 11 ELSE (id \div 10) * 11 + (id % 10) + 1
Greater(a, b) == a # None /\ (b = None \/ InDigits(a) > InDigits(b))
Raise(high, ids) ==
  LET seen == ids \union {high} IN CHOOSE id \in seen : \A other \in seen : ~ Greater(other, id)

Largest(id) == Max({pass.largest, id})

Steps(p) == pass' = p /\ UNCHANGED <<mail, log, now, oldest, cursor, passes>>
Fails ==
  /\ pass' = NoPass /\ blamed' = blamed \union pass.did
  /\ UNCHANGED <<mail, log, now, oldest, cursor, passes, stored, memory>>
Quiet == UNCHANGED <<stored, memory, blamed>>

(* Sync: no cursor, a full pass; a cursor, the history since it.           *)
Begin ==
  /\ pass.at = "idle" /\ passes < MaxPasses
  /\ passes' = passes + 1
  /\ pass' = [NoPass EXCEPT !.at = IF cursor = None THEN "list" ELSE "history", !.full = cursor = None,
                            !.high = cursor, !.largest = IF cursor = None THEN 0 ELSE cursor,
                            !.after = IF cursor = None THEN Cardinality(Message) + 1 ELSE cursor]
  /\ UNCHANGED <<mail, log, now, oldest, stored, memory, cursor, blamed>>

(* messages.list gives the newest message first.                           *)
NewestFirst(messages) ==
  CHOOSE list \in Bijection(1 .. Cardinality(messages), messages) :
    \A i, j \in DOMAIN list : i < j => list[i] > list[j]

(* fullSync: a page holds the newest messages after the last page's; what  *)
(* the limit leaves out is never listed again.                             *)
ListPage ==
  /\ pass.at = "list"
  /\ LET rest == {m \in Box : m < pass.after}
         page == SubSeq(NewestFirst(rest), 1, Min({Page, Cardinality(rest)}))
     IN Steps([pass EXCEPT !.at = "fetch", !.todo = page, !.more = Len(page) < Cardinality(rest),
                           !.after = IF page = <<>> THEN 1 ELSE page[Len(page)]])
  /\ Quiet

(* listHistory: the records after the cursor, page by page, and on every   *)
(* page the mailbox's newest id.                                           *)
InOrder(ids) ==
  CHOOSE list \in Bijection(1 .. Cardinality(ids), ids) :
    \A i, j \in DOMAIN list : i < j => list[i] < list[j]

On(page, kind) == {id \in page : Record(id)[1] = kind}

HistoryPage ==
  /\ pass.at = "history" /\ pass.after >= oldest
  /\ LET last == Min({pass.after + Page, now})
         page == pass.after + 1 .. last
         added == InOrder(On(page, "added"))
         more == pass.after + Page < now
     IN Steps([pass EXCEPT !.todo = @ \o [i \in DOMAIN added |-> Record(added[i])[2]],
                           !.drop = @ \union {Record(id)[2] : id \in On(page, "deleted")},
                           !.after = last, !.at = IF more THEN "history" ELSE "fetch",
                           !.high = Raise(@, {now} \union page), !.largest = now])
  /\ Quiet

(* A listing fails: the pass does, and the cursor stays.  History before   *)
(* `oldest` is not found, at this pass and at every later one.             *)
ListFails == pass.at \in {"list", "history"} /\ Fails

(* The limit counts what was ingested.                                     *)
Room == ~ pass.full \/ pass.count < MaxFullSync
Next1 == [pass EXCEPT !.todo = Tail(@)]
Done(m) == blamed' = blamed \ {m}
Failed(m) == blamed' = blamed \union {m} /\ Steps(Next1)

(* ingestMessageReturnHistory: the message as it is now, to storage and to *)
(* memory; a step that fails puts it in Errors, with what is done done.    *)
Ingest ==
  /\ pass.at = "fetch" /\ pass.todo # <<>> /\ Room
  /\ LET m == Head(pass.todo)
         done == [Next1 EXCEPT !.count = @ + 1, !.did = @ \union {m}, !.largest = Largest(mail[m]),
                               !.high = IF pass.full THEN Raise(@, {mail[m]}) ELSE @]
     IN \/ m \in Box /\ stored' = stored \union {m} /\ memory' = memory \union {m}
           /\ Steps(done) /\ Done(m)
        \/ Failed(m) /\ UNCHANGED <<stored, memory>>
        \/ m \in Box /\ Failed(m) /\ stored' = stored \union {m} /\ UNCHANGED memory

(* The end of a page of a full pass: the next one, or none.                *)
PageDone ==
  /\ pass.at = "fetch" /\ (pass.todo = <<>> \/ ~ Room)
  /\ pass.full /\ pass.more /\ Room
  /\ Steps([pass EXCEPT !.at = "list"]) /\ Quiet

(* What was fetched, then what the history deleted; the errors of the      *)
(* deletions are dropped.                                                  *)
Fetched ==
  /\ pass.at = "fetch" /\ (pass.todo = <<>> \/ ~ Room)
  /\ ~ (pass.full /\ pass.more /\ Room)
  /\ Steps([pass EXCEPT !.at = "delete"])
  /\ blamed' = IF pass.full THEN blamed \union (Arrived \ pass.did) ELSE blamed
  /\ UNCHANGED <<stored, memory>>

Delete ==
  /\ pass.at = "delete" /\ pass.drop # {}
  /\ \E m \in pass.drop :
       /\ stored' \in {stored, stored \ {m}} /\ memory' \in {memory, memory \ {m}}
       /\ blamed' = IF m \in stored' \union memory' THEN blamed \union {m} ELSE blamed
       /\ Steps([pass EXCEPT !.drop = @ \ {m}])

(* The runtime keeps the new cursor.                                       *)
Finish ==
  /\ pass.at = "delete" /\ pass.drop = {}
  /\ cursor' = pass.high
  /\ pass' = [pass EXCEPT !.at = "idle", !.did = {}]
  /\ UNCHANGED <<mail, log, now, oldest, stored, memory, passes, blamed>>

(* The process ends in the middle of a pass.                               *)
CutShort == pass.at # "idle" /\ Fails

GmailNext ==
  \/ \E m \in Message : Arrives(m) \/ Changes(m) \/ Goes(m)
  \/ Forget \/ Begin \/ ListPage \/ HistoryPage \/ ListFails \/ Ingest \/ PageDone \/ Fetched
  \/ Delete \/ Finish \/ CutShort

GmailSpec == GmailInit /\ [][GmailNext]_gmailVars

-----------------------------------------------------------------------------
(* Properties.                                                             *)

(* After a pass that ran to its end, a message that the history up to the  *)
(* cursor adds is stored and in memory, and one that it deletes is in      *)
(* neither, whatever arrived and went between the pages and the fetches;   *)
(* unless it was in Errors, or changed while a full pass ran, or that pass *)
(* had no room for it.                                                     *)
UpTo(kind, m) == \E i \in DOMAIN log : FirstId + i <= cursor /\ log[i] = <<kind, m>>

MailboxMirrored ==
  pass.at = "idle" /\ pass # NoPass /\ cursor # None =>
    \A m \in Message \ blamed :
      /\ UpTo("deleted", m) => m \notin stored \union memory
      /\ UpTo("added", m) /\ m \in Box => m \in stored /\ m \in memory

(* The cursor is the largest history id the pass has seen (gmail.go, of    *)
(* the full pass: "capture the largest historyId we see along the way").   *)
CursorIsNewest ==
  pass.at = "idle" /\ pass # NoPass /\ cursor # None => cursor = pass.largest
=============================================================================
