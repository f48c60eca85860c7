---------------------------- MODULE CapsuleCalls ----------------------------
(***************************************************************************)
(* Tool calls in both directions over the transport of one capsule.        *)
(* mcp/tools.go: a paired client calls a tool that the capsule mounted,    *)
(* and the handler forwards it by Transport.Request.  host.go's            *)
(* runtimeHandler: the capsule calls back a tool of the runtime's, which   *)
(* is checked against the capsule's grants and keeps its credentials in    *)
(* one encrypted object, read, changed and written under a lock.           *)
(***************************************************************************)
EXTENDS Transport

CONSTANTS
  Key,       \* the names of a capsule's credentials
  MaxCalls   \* a bound on the calls made, in both directions

ASSUME CallsAssumption == Request \cap Callback = {}

VARIABLES
  served,    \* the client calls whose handler has returned
  book,      \* the audit log: tool.invoked and tool.failed, by call
  call,      \* the callbacks: what each asks for and where it stands
  copy,      \* the object as a callback has read it
  object,    \* credentials.json: the callback whose value each key holds
  latest,    \* history: the callback that wrote each key last
  granted,   \* whether the capsule holds grants for the credential tools
  removal    \* where the uninstall of the capsule stands

toolVars == <<served, book, call, copy, object, latest, granted, removal>>
vars == <<transportVars, serving, toolVars>>

Entries == [Key -> Callback \union {None}]

Nothing == [key \in Key |-> None]

(* A callback: a tool and its key.                                         *)
Tool == {"credentials.set", "credentials.get", "credentials.delete", "other"}

NoCall == [tool |-> "other", key |-> None, at |-> "idle"]

CallsTypeOK ==
  /\ TransportTypeOK
  /\ served \subseteq Request
  /\ book \subseteq [type : {"tool.invoked", "tool.failed"}, of : Request \union Callback]
  /\ call \in [Callback -> [tool : Tool, key : Key \union {None},
                at : {"idle", "begun", "allowed", "inside", "effected", "failed", "done"}]]
  /\ copy \in [Callback -> Entries] /\ object \in Entries /\ latest \in Entries
  /\ granted \in BOOLEAN
  /\ removal \in {"no", "stopping", "revoking", "deleting", "done"}

Init ==
  /\ TransportInit
  /\ served = {} /\ book = {}
  /\ call = [b \in Callback |-> NoCall]
  /\ copy = [b \in Callback |-> Nothing]
  /\ object = Nothing /\ latest = Nothing
  /\ granted = TRUE
  /\ removal = "no"

AnotherCall ==
  Cardinality({r \in Request : req[r] # "idle"}) + Cardinality(serving) < MaxCalls

-----------------------------------------------------------------------------
(* A client's call.  handleToolsCall asks the engine about a tool that     *)
(* needs a capability; a mounted tool needs none, so the call is forwarded *)
(* to the capsule, and what came back decides which entry is written.  The *)
(* entry is lost if the client hung up, or the log refuses it.             *)
Forward(r) == AnotherCall /\ Register(r) /\ UNCHANGED <<serving, toolVars>>

(* Slip: an error that the transport made up counts as a result.           *)
EntryForAny(r) == [type |-> "tool.invoked", of |-> r]

Entry(r) ==
  [type |-> IF outcome[r] = "answer" THEN "tool.invoked" ELSE "tool.failed", of |-> r]

ToolsCallReturns(r) ==
  /\ req[r] = "returned" /\ r \notin served
  /\ served' = served \union {r}
  /\ book' \in {book, book \union {Entry(r)}}
  /\ UNCHANGED <<transportVars, serving, call, copy, object, latest, granted, removal>>

-----------------------------------------------------------------------------
(* A callback.  The handler refuses a method other than tools/call, a tool *)
(* of a capsule's and a tool it does not know.                             *)
Receives(b, tool, key) ==
  /\ AnotherCall
  /\ Dispatch(b)
  /\ call' = [call EXCEPT ![b] = [tool |-> tool, key |-> key,
                at |-> IF tool = "other" THEN "done" ELSE "begun"]]
  /\ UNCHANGED <<served, book, copy, object, latest, granted, removal>>

Goes(b, to) == call' = [call EXCEPT ![b].at = to]

(* Engine.Check: the grant allows it; or it denies, asks for an approval,  *)
(* or fails because the handler's context is cancelled.                    *)
Check(b) ==
  /\ call[b].at = "begun"
  /\ (granted /\ Goes(b, "allowed")) \/ Goes(b, "done")
  /\ UNCHANGED <<transportVars, serving, served, book, copy, object, latest, granted, removal>>

(* Slip: one lock for each key.                                            *)
SameLockByKey(b, d) == call[b].key = call[d].key

(* lockFor: one lock for the capsule's credentials.                        *)
SameLock(b, d) == b \in Callback /\ d \in Callback

Locked(b) == \E d \in Callback \ {b} : call[d].at = "inside" /\ SameLock(b, d)

(* Under the lock the object is read, which fails if the storage does.     *)
Read(b) ==
  /\ call[b].at = "allowed" /\ ~ Locked(b)
  /\ \/ Goes(b, "inside") /\ copy' = [copy EXCEPT ![b] = object]
     \/ Goes(b, "failed") /\ UNCHANGED copy
  /\ UNCHANGED <<transportVars, serving, served, book, object, latest, granted, removal>>

(* The value that a key takes. *)
Value(b) == IF call[b].tool = "credentials.set" THEN b ELSE None

(* The changed copy is written over the object; without an entry left, the *)
(* object is deleted instead, or written empty if that fails.              *)
Store(b) ==
  /\ call[b].at = "inside" /\ call[b].tool # "credentials.get"
  /\ copy' = [copy EXCEPT ![b] = Nothing]
  /\ \/ /\ Goes(b, "effected")
        /\ object' = [copy[b] EXCEPT ![call[b].key] = Value(b)]
        /\ latest' = [latest EXCEPT ![call[b].key] = Value(b)]
     \/ Goes(b, "failed") /\ UNCHANGED <<object, latest>>
  /\ UNCHANGED <<transportVars, serving, served, book, granted, removal>>

(* What it finds, and whether the entry has expired, changes nothing.      *)
Get(b) ==
  /\ call[b].at = "inside" /\ call[b].tool = "credentials.get"
  /\ Goes(b, "effected")
  /\ copy' = [copy EXCEPT ![b] = Nothing]
  /\ UNCHANGED <<transportVars, serving, served, book, object, latest, granted, removal>>

(* The end of a callback: its entry is appended under the handler's        *)
(* context, which a stopped transport has cancelled.                       *)
Record(b) ==
  /\ call[b].at \in {"effected", "failed"}
  /\ Goes(b, "done")
  /\ LET entry == [type |-> IF call[b].at = "effected" THEN "tool.invoked" ELSE "tool.failed",
                   of |-> b]
     IN  book' \in {book \union {entry}} \union (IF stop THEN {book} ELSE {})
  /\ UNCHANGED <<transportVars, serving, served, copy, object, latest, granted, removal>>

-----------------------------------------------------------------------------
(* The capsule is uninstalled: its client is stopped, its grants are       *)
(* revoked, and OnUninstall deletes its credentials, under their lock.     *)
Uninstall(c) ==
  /\ removal = "no"
  /\ Close(c)
  /\ removal' = "stopping"
  /\ UNCHANGED <<serving, served, book, call, copy, object, latest, granted>>

Stopped(c) ==
  /\ removal = "stopping"
  /\ Closed(c)
  /\ removal' = "revoking"
  /\ UNCHANGED <<serving, served, book, call, copy, object, latest, granted>>

RevokeGrants ==
  /\ removal = "revoking"
  /\ removal' = "deleting" /\ granted' = FALSE
  /\ UNCHANGED <<transportVars, serving, served, book, call, copy, object, latest>>

DeleteAll ==
  /\ removal = "deleting" /\ \A b \in Callback : call[b].at # "inside"
  /\ removal' = "done" /\ object' = Nothing /\ latest' = Nothing
  /\ UNCHANGED <<transportVars, serving, served, book, call, copy, granted>>

-----------------------------------------------------------------------------
Serve(b) == Check(b) \/ Read(b) \/ Store(b) \/ Get(b) \/ Record(b)

Wire ==
  /\ \/ \E r \in Request : Calling(r) \/ GiveUp(r) \/ RouteResponse(r)
     \/ Send \/ EndOfStream \/ DrainPending
  /\ UNCHANGED <<serving, toolVars>>

Next ==
  \/ Wire
  \/ \E r \in Request : Forward(r) \/ ToolsCallReturns(r)
  \/ \E b \in Callback : \/ Receives(b, "other", None)
                        \/ \E tool \in Tool \ {"other"}, key \in Key : Receives(b, tool, key)
  \/ \E b \in Callback : Serve(b)
  \/ \E c \in Closer : Uninstall(c) \/ Stopped(c)
  \/ RevokeGrants \/ DeleteAll

Spec == Init /\ [][Next]_vars

(* The goroutines run: a request's, the read loop, Close's.  Nothing says  *)
(* that the peer answers, that a caller gives up or that the pipe breaks.  *)
LiveSpec ==
  /\ Spec
  /\ \A r \in Request : WF_vars(Calling(r) /\ UNCHANGED <<serving, toolVars>>)
  /\ WF_vars(Reading /\ UNCHANGED <<serving, toolVars>>)
  /\ \A c \in Closer : WF_vars(Stopped(c))

-----------------------------------------------------------------------------
(* Properties.                                                             *)

(* A tool.invoked entry of a client's call means that the capsule answered *)
(* that call: mcp/tools.go records after the handler, whatever the         *)
(* transport's end, a late response or the client's departure do to it.    *)
(* Carries the types of the calls' state.                                  *)
InvokedWasAnswered ==
  /\ CallsTypeOK
  /\ \A e \in book : e.of \in Request /\ e.type = "tool.invoked" => e.of \in answered

(* While no callback is inside the lock, the object holds for every key    *)
(* what was last written to it, so no set or delete of one key undoes that *)
(* of another (mcp/credentials_store.go rewrites the whole object).        *)
NoLostCredential ==
  (\A b \in Callback : call[b].at # "inside") => object = latest

(* A callback that took effect is in the log once it is done: "Emits a     *)
(* tool.invoked audit entry on every tool call (inbound or callback)".     *)
EveryEffectRecorded ==
  \A b \in Callback : call[b].at = "done" /\ (\E key \in Key : object[key] = b)
                        => [type |-> "tool.invoked", of |-> b] \in book
=============================================================================
