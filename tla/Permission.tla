----------------------------- MODULE Permission -----------------------------
(***************************************************************************)
(* internal/permission: the check engine over its tables.  Several workers *)
(* (HTTP handlers of the daemon, CLI invocations, the console) run the     *)
(* engine's operations at once; the tables are all they share, and every   *)
(* statement on a table and every append to the audit log is one step.  A  *)
(* worker may stop between any two of its steps: its context is cancelled, *)
(* a statement fails, or its process dies.                                 *)
(***************************************************************************)
EXTENDS Timestamps, Bags

CONSTANTS
  Worker,          \* concurrent callers of the engine
  Principal,       \* capsules and clients
  Capability,      \* the registered capabilities
  Unregistered,    \* capabilities somebody may ask for that are not registered
  DefaultApproval, \* the capabilities whose every use needs the user's approval
  Scope,           \* scopes, of grants and of attempts
  Covers,          \* matchScope: the pairs of a grant's scope and an attempt it admits
  Instant,         \* the values the wall clock takes
  Expiry,          \* the expiries a grant may be issued with
  None,            \* no expiry, no request, no instant
  AuditFails,      \* whether an append to the audit log can fail
  MaxCalls         \* bound: an operation begins while fewer than this have begun

ASSUME PermissionAssumption ==
  /\ Capability \intersect Unregistered = {}
  /\ DefaultApproval \subseteq Capability
  /\ Covers \subseteq Scope \X Scope
  /\ Instant \subseteq Time
  /\ Expiry \subseteq Time
  /\ None \notin Time
  /\ AuditFails \in BOOLEAN
  /\ MaxCalls \in Nat

VARIABLES
  grants,      \* the table grants; an id is a place in the sequence
  approvals,   \* the table pending_approvals, likewise
  log,         \* the audit log as a bag: its order is the business of AuditLog
  clock,       \* the wall clock
  pc,          \* where each worker is
  req,         \* the request of a Check, or the row IssueGrant is about to insert
  asOf,        \* the instant the operation took for now
  pick,        \* the grant or approval the operation is about; 0: none
  before,      \* history: the grants already revoked when the operation began
  answered,    \* history: what callers were told, as the entries the log owes them
  calls        \* history: how many operations have begun

vars == <<grants, approvals, log, clock, pc, req, asOf, pick, before, answered, calls>>

Request == [principal : Principal, cap : Capability \union Unregistered, scope : Scope]

Grant == [principal : Principal, cap : Capability, scope : Scope, approval : BOOLEAN,
          issued : Time, expires : Time \union {None}, revoked : BOOLEAN]

State == {"pending", "granted", "denied"}
Approval == [grant : Nat, principal : Principal, cap : Capability, scope : Scope, state : State]

(* The audit entries: a type, and the grant or approval it is about. *)
Type == {"check.allow", "check.deny", "approval.requested", "approval.granted",
         "approval.denied", "grant.create", "grant.revoke"}
Entry == Type \X Nat

With(bag, entry) == bag (+) SetToBag({entry})

(* A worker stands before a statement of its operation or, with the type   *)
(* of an entry, before the append that ends it.                            *)
Step == {"idle", "list", "enqueue", "insert", "revoke", "reread", "wait"} \union Type

TypeOK ==
  /\ grants \in Seq(Grant)
  /\ approvals \in Seq(Approval)
  /\ clock \in Time
  /\ pc \in [Worker -> Step]
  /\ req \in [Worker -> Request \union Grant \union {None}]
  /\ asOf \in [Worker -> Time \union {None}]
  /\ pick \in [Worker -> Nat]
  /\ before \in [Worker -> SUBSET Nat]
  /\ calls \in Nat

Init ==
  /\ grants = << >>
  /\ approvals = << >>
  /\ log = EmptyBag
  /\ clock \in Instant
  /\ pc = [w \in Worker |-> "idle"]
  /\ req = [w \in Worker |-> None]
  /\ asOf = [w \in Worker |-> None]
  /\ pick = [w \in Worker |-> 0]
  /\ before = [w \in Worker |-> {}]
  /\ answered = EmptyBag
  /\ calls = 0

RevokedGrants == {g \in DOMAIN grants : grants[g].revoked}

(* An operation is called, takes its now, and stops before its next statement. *)
Begin(w, step, r, id) ==
  /\ pc[w] = "idle"
  /\ calls < MaxCalls
  /\ calls' = calls + 1
  /\ pc' = [pc EXCEPT ![w] = step]
  /\ req' = [req EXCEPT ![w] = r]
  /\ asOf' = [asOf EXCEPT ![w] = clock]
  /\ pick' = [pick EXCEPT ![w] = id]
  /\ before' = [before EXCEPT ![w] = RevokedGrants]
  /\ UNCHANGED <<log, clock, answered>>

Goto(w, step, id) ==
  /\ pc' = [pc EXCEPT ![w] = step]
  /\ pick' = [pick EXCEPT ![w] = id]
  /\ UNCHANGED <<log, clock, req, asOf, before, answered, calls>>

Return(w) ==
  /\ pc' = [pc EXCEPT ![w] = "idle"]
  /\ req' = [req EXCEPT ![w] = None]
  /\ asOf' = [asOf EXCEPT ![w] = None]
  /\ pick' = [pick EXCEPT ![w] = 0]
  /\ before' = [before EXCEPT ![w] = {}]
  /\ UNCHANGED <<grants, approvals, clock, calls>>

-----------------------------------------------------------------------------
(* Engine.Check.                                                           *)

(* GetCapability, and the now of the query that follows. *)
Check(w, r) ==
  /\ Begin(w, IF r.cap \in Capability THEN "list" ELSE "check.deny", r, 0)
  /\ UNCHANGED <<grants, approvals>>

(* Slip: expired grants are not filtered out. *)
ActiveOrExpired(w) ==
  {g \in DOMAIN grants :
    /\ grants[g].principal = req[w].principal
    /\ grants[g].cap = req[w].cap
    /\ ~ grants[g].revoked}

(* ListActiveGrantsForCheck. *)
Active(w) ==
  {g \in DOMAIN grants :
    /\ grants[g].principal = req[w].principal
    /\ grants[g].cap = req[w].cap
    /\ ~ grants[g].revoked
    /\ grants[g].expires = None \/ SortsBefore(asOf[w], grants[g].expires)}

Matching(w) == {g \in Active(w) : <<grants[g].scope, req[w].scope>> \in Covers}

(* ORDER BY issued_at, and among equals whatever order the database likes. *)
First(w) ==
  {g \in Matching(w) : \A h \in Matching(w) : NoLater(grants[g].issued, grants[h].issued)}

(* Slip: the flag of the grant is forgotten. *)
CapabilityAsks(g) == grants[g].cap \in DefaultApproval

NeedsApproval(g) == grants[g].cap \in DefaultApproval \/ grants[g].approval

(* Slip: a denial is returned without its entry. *)
ListDenySilently(w) ==
  /\ pc[w] = "list"
  /\ \/ /\ Matching(w) = {}
        /\ answered' = With(answered, <<"check.deny", 0>>)
        /\ Return(w)
        /\ UNCHANGED log
     \/ \E g \in First(w) :
          /\ Goto(w, IF NeedsApproval(g) THEN "enqueue" ELSE "check.allow", g)
          /\ UNCHANGED <<grants, approvals>>

(* The query, and the walk over its rows to the first that matches. *)
List(w) ==
  /\ pc[w] = "list"
  /\ \/ Matching(w) = {} /\ Goto(w, "check.deny", 0)
     \/ \E g \in First(w) :
          Goto(w, IF NeedsApproval(g) THEN "enqueue" ELSE "check.allow", g)
  /\ UNCHANGED <<grants, approvals>>

EnqueueApproval(w) ==
  /\ pc[w] = "enqueue"
  /\ approvals' = Append(approvals,
       [grant |-> pick[w], principal |-> req[w].principal, cap |-> req[w].cap,
        scope |-> req[w].scope, state |-> "pending"])
  /\ Goto(w, "approval.requested", Len(approvals) + 1)
  /\ UNCHANGED grants

-----------------------------------------------------------------------------
(* Engine.IssueGrant: the row is made up, issued_at included, and inserted. *)
IssueGrant(w, r, approval, expires) ==
  /\ r.cap \in Capability
  /\ Begin(w, "insert",
       [principal |-> r.principal, cap |-> r.cap, scope |-> r.scope,
        approval |-> approval \/ r.cap \in DefaultApproval,
        issued |-> clock, expires |-> expires, revoked |-> FALSE], 0)
  /\ UNCHANGED <<grants, approvals>>

InsertGrant(w) ==
  /\ pc[w] = "insert"
  /\ grants' = Append(grants, req[w])
  /\ Goto(w, "grant.create", Len(grants) + 1)
  /\ UNCHANGED approvals

-----------------------------------------------------------------------------
(* Engine.RevokeGrant reads the grant, and goes on if it is not revoked.   *)

(* Slip: the entry is appended before the row is updated. *)
RevokeGrantAuditFirst(w, g) ==
  /\ g \in DOMAIN grants /\ ~ grants[g].revoked
  /\ Begin(w, "grant.revoke", None, g)
  /\ UNCHANGED <<grants, approvals>>

RevokeGrant(w, g) ==
  /\ g \in DOMAIN grants /\ ~ grants[g].revoked
  /\ Begin(w, "revoke", None, g)
  /\ UNCHANGED <<grants, approvals>>

(* UPDATE ... WHERE revoked_at IS NULL: a second one succeeds all the same. *)
MarkRevoked(w) ==
  /\ pc[w] = "revoke"
  /\ grants' = [grants EXCEPT ![pick[w]].revoked = TRUE]
  /\ Goto(w, "grant.revoke", pick[w])
  /\ UNCHANGED approvals

-----------------------------------------------------------------------------
(* Engine.ResolveApproval: UPDATE ... WHERE state = pending, read back.    *)

(* Slip: the UPDATE does not look at the state. *)
ResolveAnyApproval(w, a, decision) ==
  /\ a \in DOMAIN approvals
  /\ approvals' = [approvals EXCEPT ![a].state = decision]
  /\ Begin(w, "reread", None, a)
  /\ UNCHANGED grants

ResolveApproval(w, a, decision) ==
  /\ a \in DOMAIN approvals /\ approvals[a].state = "pending"
  /\ approvals' = [approvals EXCEPT ![a].state = decision]
  /\ Begin(w, "reread", None, a)
  /\ UNCHANGED grants

Reread(w) ==
  /\ pc[w] = "reread"
  /\ Goto(w, IF approvals[pick[w]].state = "granted" THEN "approval.granted"
                                                     ELSE "approval.denied", pick[w])
  /\ UNCHANGED <<grants, approvals>>

-----------------------------------------------------------------------------
(* Engine.WaitForApproval returns at once if the approval is resolved,     *)
(* and polls it otherwise.                                                 *)
WaitForApproval(w, a) ==
  /\ a \in DOMAIN approvals /\ approvals[a].state = "pending"
  /\ Begin(w, "wait", None, a)
  /\ UNCHANGED <<grants, approvals>>

(* Slip: only a consent ends the wait. *)
PollForConsent(w) ==
  /\ pc[w] = "wait"
  /\ approvals[pick[w]].state = "granted"
  /\ Return(w)
  /\ UNCHANGED <<log, answered>>

Poll(w) ==
  /\ pc[w] = "wait"
  /\ approvals[pick[w]].state # "pending"
  /\ Return(w)
  /\ UNCHANGED <<log, answered>>

-----------------------------------------------------------------------------
(* The append that ends an operation; its error is dropped. *)
Answer(w) ==
  LET entry == <<pc[w], pick[w]>> IN
  /\ pc[w] \in Type
  /\ log' = With(log, entry) \/ (AuditFails /\ log' = log)
  /\ answered' = With(answered, entry)
  /\ Return(w)

(* The operation is cut short. *)
Abandon(w) ==
  /\ pc[w] # "idle"
  /\ Return(w)
  /\ UNCHANGED <<log, answered>>

Tick ==
  /\ clock' \in {t \in Instant : Before(clock, t)}
  /\ UNCHANGED <<grants, approvals, log, pc, req, asOf, pick, before, answered, calls>>

Call(w) ==
  \/ \E r \in Request : Check(w, r)
  \/ \E r \in Request, approval \in BOOLEAN, expires \in Expiry \union {None} :
       IssueGrant(w, r, approval, expires)
  \/ \E g \in DOMAIN grants : RevokeGrant(w, g)
  \/ \E a \in DOMAIN approvals, decision \in {"granted", "denied"} : ResolveApproval(w, a, decision)
  \/ \E a \in DOMAIN approvals : WaitForApproval(w, a)

Continue(w) ==
  \/ List(w) \/ EnqueueApproval(w) \/ InsertGrant(w) \/ MarkRevoked(w)
  \/ Reread(w) \/ Poll(w) \/ Answer(w)

Next == Tick \/ \E w \in Worker : Call(w) \/ Continue(w) \/ Abandon(w)

Spec == Init /\ [][Next]_vars

(* A goroutine inside an operation runs on, and the ticker of a poll fires. *)
FairSpec == Spec /\ \A w \in Worker : WF_vars(Continue(w))

-----------------------------------------------------------------------------
(* Properties.                                                             *)

Copies(type, id) == IF BagIn(<<type, id>>, log) THEN log[<<type, id>>] ELSE 0

MustAsk(g) == grants[g].cap \in DefaultApproval \/ grants[g].approval

(* A grant that a Check settled on belongs to the asker, is for the        *)
(* capability and covers the attempt; it was not revoked when the Check    *)
(* began, nor expired by a second or more; and if it or its capability     *)
(* demands the user's approval the outcome is never Allow.                 *)
Justified(w) ==
  LET g == grants[pick[w]] IN
  /\ pick[w] \in DOMAIN grants \ before[w]
  /\ g.principal = req[w].principal
  /\ g.cap = req[w].cap
  /\ <<g.scope, req[w].scope>> \in Covers
  /\ g.expires # None => asOf[w].sec <= g.expires.sec
  /\ pc[w] = "check.allow" <=> ~ MustAsk(pick[w])

DecisionJustified ==
  \A w \in Worker : pc[w] \in {"check.allow", "enqueue"} => Justified(w)

AskJustified(a) ==
  LET g == approvals[a].grant IN
  /\ g \in DOMAIN grants
  /\ MustAsk(g)
  /\ grants[g].principal = approvals[a].principal
  /\ grants[g].cap = approvals[a].cap

(* No Check ever allows the use of a grant that demands the user's         *)
(* approval, itself or by the default of its capability, whatever flag it  *)
(* was issued with; and the user is asked only about such a grant, held by *)
(* the asker.                                                              *)
ApprovalNeverBypassed ==
  /\ \A e \in BagToSet(log) :
       e[1] = "check.allow" => e[2] \in DOMAIN grants /\ ~ MustAsk(e[2])
  /\ \A a \in DOMAIN approvals : AskJustified(a)

(* Revoked grants stay revoked and resolved approvals stay as resolved;    *)
(* nothing else of a recorded grant or approval ever changes.              *)
Settled(old, new) ==
  /\ \A g \in DOMAIN old.grants :
       /\ g \in DOMAIN new.grants
       /\ new.grants[g] \in {old.grants[g], [old.grants[g] EXCEPT !.revoked = TRUE]}
  /\ \A a \in DOMAIN old.approvals :
       /\ a \in DOMAIN new.approvals
       /\ new.approvals[a] = old.approvals[a] \/ old.approvals[a].state = "pending"

SettledForGood ==
  [][ Settled([grants |-> grants, approvals |-> approvals],
              [grants |-> grants', approvals |-> approvals']) ]_vars

(* However many users and surfaces resolve an approval at once, the log    *)
(* holds one resolution of it at most, and that one is what the table says. *)
ResolutionRecordedOnce ==
  \A a \in 1 .. Len(approvals) :
    /\ Copies("approval.granted", a) + Copies("approval.denied", a) <= 1
    /\ Copies("approval.granted", a) > 0 => approvals[a].state = "granted"
    /\ Copies("approval.denied", a) > 0 => approvals[a].state = "denied"

(* The log never runs ahead of the tables: a grant recorded as created or  *)
(* revoked is, and is recorded as created once.                            *)
LogFollowsTables ==
  \A e \in BagToSet(log) :
    /\ e[1] = "grant.create" => e[2] \in DOMAIN grants /\ log[e] = 1
    /\ e[1] = "grant.revoke" => e[2] \in DOMAIN grants /\ grants[e[2]].revoked
    /\ e[1] = "approval.requested" => e[2] \in DOMAIN approvals /\ log[e] = 1

(* audit-spec.md: the log is "complete (every gated operation produces an  *)
(* entry)": whatever a caller was told is in the log.                      *)
AnswersRecorded == answered \sqsubseteq log

(* Once an approval is resolved, either way, whoever waits for it returns. *)
WaiterResumes ==
  \A w \in Worker, a \in 1 .. MaxCalls :
    pc[w] = "wait" /\ pick[w] = a /\ a \in DOMAIN approvals /\ approvals[a].state # "pending"
      ~> pc[w] = "idle"

(* engine.go, RevokeGrant: revoking an already-revoked grant emits no      *)
(* duplicate audit entry.                                                  *)
RevokedOnce == \A g \in DOMAIN grants : Copies("grant.revoke", g) <= 1

(* permission-model.md: the user approves and the "runtime resumes the     *)
(* call": a request the user has granted, and that has not been let        *)
(* through since, is not put to the user again.                            *)
GrantedIsResumed ==
  \A w \in Worker : pc[w] = "enqueue" =>
    ~ \E a \in DOMAIN approvals :
        /\ approvals[a].state = "granted"
        /\ approvals[a].grant = pick[w]
        /\ approvals[a].principal = req[w].principal
        /\ approvals[a].cap = req[w].cap
        /\ approvals[a].scope = req[w].scope
        /\ Copies("check.allow", pick[w]) = 0

(***************************************************************************)
(* The inductive invariant.  What an operation has read stays true until   *)
(* it ends, for grants are only ever added and revoked; the worker that    *)
(* moved an approval out of pending is the only one to record it, as is    *)
(* the one that inserted a grant or an approval.                           *)
(***************************************************************************)
LogTyped == IsABag(log) /\ DOMAIN log \subseteq Entry

LocatedAt(w) ==
  /\ pc[w] \in {"list", "enqueue", "check.allow"} =>
       req[w] \in Request /\ req[w].cap \in Capability /\ asOf[w] \in Time
  /\ pc[w] = "insert" => req[w] \in Grant
  /\ pc[w] \in {"revoke", "grant.create", "grant.revoke"} => pick[w] \in DOMAIN grants
  /\ pc[w] = "grant.revoke" => grants[pick[w]].revoked
  /\ pc[w] \in {"reread", "wait", "approval.requested", "approval.granted", "approval.denied"} =>
       pick[w] \in DOMAIN approvals
  /\ pc[w] = "approval.granted" => approvals[pick[w]].state = "granted"
  /\ pc[w] = "approval.denied" => approvals[pick[w]].state = "denied"
  /\ before[w] \subseteq RevokedGrants

Located == \A w \in Worker : LocatedAt(w)

Resolving(w) == pc[w] \in {"reread", "approval.granted", "approval.denied"}

OneResolver ==
  /\ \A w \in Worker : Resolving(w) => approvals[pick[w]].state # "pending"
  /\ \A w, v \in Worker : Resolving(w) /\ Resolving(v) /\ pick[w] = pick[v] => w = v
  /\ \A w \in Worker : Resolving(w) =>
       <<"approval.granted", pick[w]>> \notin BagToSet(log) /\ <<"approval.denied", pick[w]>> \notin BagToSet(log)
  /\ \A e \in BagToSet(log) :
       /\ e[1] = "approval.granted" => e[2] \in DOMAIN approvals /\ approvals[e[2]].state = "granted"
       /\ e[1] = "approval.denied" => e[2] \in DOMAIN approvals /\ approvals[e[2]].state = "denied"
       /\ e[1] \in {"approval.granted", "approval.denied"} => log[e] = 1

(* The worker that inserted a row has yet to record it. *)
OneRecorder(type) ==
  /\ \A w, v \in Worker : pc[w] = type /\ pc[v] = type /\ pick[w] = pick[v] => w = v
  /\ \A w \in Worker : pc[w] = type => <<type, pick[w]>> \notin BagToSet(log)

IInv ==
  /\ TypeOK
  /\ LogTyped
  /\ Located
  /\ DecisionJustified
  /\ ApprovalNeverBypassed
  /\ OneResolver
  /\ OneRecorder("grant.create")
  /\ OneRecorder("approval.requested")
  /\ LogFollowsTables
=============================================================================
