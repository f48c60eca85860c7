------------------------- MODULE Permission_proofs -------------------------
(***************************************************************************)
(* Proofs about Permission, for any workers, principals, capabilities and  *)
(* scopes, any clock values and expiries, and any number of calls.         *)
(***************************************************************************)
EXTENDS Permission, TLAPS

-----------------------------------------------------------------------------
(* The operators.                                                          *)

(* The expires_at > ? of the store's queries errs by less than a second    *)
(* when it takes an expired instant for a future one.                      *)
LEMMA TextErrsWithinSecond ==
  ASSUME NEW s \in Time, NEW t \in Time, SortsBefore(s, t)
  PROVE  s.sec <= t.sec
<1>1. 0 \in 0 .. Digits + 2
  BY TimeAssumption
<1>2. ASSUME NEW u \in Time PROVE Format(u)[0] = u.sec
  <2>1. Format(u)[0] =
          CASE 0 = 0 -> u.sec
            [] 0 = 1 -> IF Written(u) = {} THEN Zulu ELSE Dot
            [] 0 - 1 \in Written(u) -> Digit(u.frac[0 - 1])
            [] 0 - 1 \notin Written(u) /\ 0 - 2 \in Written(u) -> Zulu
            [] OTHER -> Blank
    BY <1>1 DEF Format
  <2>2. 0 - 1 \notin Written(u) /\ 0 - 2 \notin Written(u)
    BY TimeAssumption DEF Written
  <2> QED
    BY <2>1, <2>2
<1>3. s.sec \in Nat /\ t.sec \in Nat
  BY DEF Time
<1>4. PICK k \in 0 .. Digits + 2 : DiffersAt(Format(s), Format(t), k)
  BY DEF SortsBefore, TextLess
<1>5. CASE k = 0
  BY <1>2, <1>3, <1>4, <1>5 DEF DiffersAt
<1>6. CASE k > 0
  <2>1. 0 \in 0 .. k - 1
    BY <1>6
  <2> QED
    BY <2>1, <1>2, <1>3, <1>4 DEF DiffersAt
<1> QED
  BY <1>4, <1>5, <1>6, TimeAssumption

(* Appending an entry to the log adds one copy of it and nothing else. *)
LEMMA OneMoreCopy ==
  ASSUME NEW B, IsABag(B), NEW e
  PROVE  /\ IsABag(With(B, e))
         /\ DOMAIN With(B, e) = DOMAIN B \union {e}
         /\ \A x \in DOMAIN B : x # e => With(B, e)[x] = B[x]
         /\ e \notin DOMAIN B => With(B, e)[e] = 1
<1> DEFINE C == With(B, e)
<1>1. SetToBag({e}) = [x \in {e} |-> 1]
  BY DEF SetToBag
<1>2. \A x \in DOMAIN B : B[x] \in Nat /\ B[x] > 0
  BY DEF IsABag
<1>3. DOMAIN C = DOMAIN B \union {e}
  BY <1>1 DEF With, (+)
<1>4. \A x \in DOMAIN C : C[x] = (IF x \in DOMAIN B THEN B[x] ELSE 0) + (IF x \in {e} THEN 1 ELSE 0)
  BY <1>1 DEF With, (+)
<1>5. C = [x \in DOMAIN C |-> C[x]]
  BY DEF With, (+)
<1>6. \A x \in DOMAIN C : C[x] \in {n \in Nat : n > 0}
  BY <1>2, <1>3, <1>4
<1> QED
  BY <1>2, <1>3, <1>4, <1>5, <1>6 DEF IsABag

-----------------------------------------------------------------------------
(* Steps.                                                                  *)

(* A worker that takes a step leaves the others where they are. *)
LEMMA OthersStay ==
  ASSUME TypeOK, NEW w \in Worker, Call(w) \/ Continue(w) \/ Abandon(w)
  PROVE  \A v \in Worker : v # w =>
           /\ pc'[v] = pc[v] /\ req'[v] = req[v] /\ asOf'[v] = asOf[v]
           /\ pick'[v] = pick[v] /\ before'[v] = before[v]
<1>1. ASSUME NEW step, NEW r, NEW id, Begin(w, step, r, id)
      PROVE  \A v \in Worker : v # w =>
               /\ pc'[v] = pc[v] /\ req'[v] = req[v] /\ asOf'[v] = asOf[v]
               /\ pick'[v] = pick[v] /\ before'[v] = before[v]
  BY <1>1 DEF TypeOK, Begin
<1>2. ASSUME NEW step, NEW id, Goto(w, step, id)
      PROVE  \A v \in Worker : v # w =>
               /\ pc'[v] = pc[v] /\ req'[v] = req[v] /\ asOf'[v] = asOf[v]
               /\ pick'[v] = pick[v] /\ before'[v] = before[v]
  BY <1>2 DEF TypeOK, Goto
<1>3. Return(w) => \A v \in Worker : v # w =>
               /\ pc'[v] = pc[v] /\ req'[v] = req[v] /\ asOf'[v] = asOf[v]
               /\ pick'[v] = pick[v] /\ before'[v] = before[v]
  BY DEF TypeOK, Return
<1>4. CASE Call(w)
  BY <1>1, <1>4 DEF Call, Check, IssueGrant, RevokeGrant, ResolveApproval, WaitForApproval
<1>5. CASE Continue(w)
  BY <1>2, <1>3, <1>5 DEF Continue, List, EnqueueApproval, InsertGrant, MarkRevoked, Reread, Poll, Answer
<1> QED
  BY <1>3, <1>4, <1>5 DEF Abandon

(* The tables grow; a grant changes only by being revoked, and an approval *)
(* only by leaving pending.                                                *)
GrantsKept ==
  \A g \in DOMAIN grants :
    /\ g \in DOMAIN grants'
    /\ grants'[g] \in {grants[g], [grants[g] EXCEPT !.revoked = TRUE]}
    /\ grants[g].revoked => grants'[g].revoked

ApprovalsKept ==
  \A a \in DOMAIN approvals :
    /\ a \in DOMAIN approvals'
    /\ approvals'[a] \in {approvals[a], [approvals[a] EXCEPT !.state = "granted"],
                                         [approvals[a] EXCEPT !.state = "denied"]}
    /\ approvals'[a] = approvals[a] \/ approvals[a].state = "pending"

LEMMA GrantFields ==
  ASSUME grants \in Seq(Grant), NEW g \in DOMAIN grants
  PROVE  /\ grants[g] \in Grant /\ grants[g].principal \in Principal
         /\ grants[g].cap \in Capability /\ grants[g].scope \in Scope
         /\ grants[g].approval \in BOOLEAN /\ grants[g].issued \in Time
         /\ grants[g].expires \in Time \union {None} /\ grants[g].revoked \in BOOLEAN
<1>1. grants[g] \in Grant
  OBVIOUS
<1> QED
  BY <1>1 DEF Grant

LEMMA ApprovalFields ==
  ASSUME approvals \in Seq(Approval), NEW a \in DOMAIN approvals
  PROVE  /\ approvals[a] \in Approval /\ approvals[a].grant \in Nat
         /\ approvals[a].principal \in Principal /\ approvals[a].cap \in Capability
         /\ approvals[a].scope \in Scope /\ approvals[a].state \in State
<1>1. approvals[a] \in Approval
  OBVIOUS
<1> QED
  BY <1>1 DEF Approval

LEMMA Grow ==
  ASSUME TypeOK, Located, [Next]_vars
  PROVE  GrantsKept /\ ApprovalsKept
<1>g. UNCHANGED grants => GrantsKept
  BY DEF GrantsKept
<1>a. UNCHANGED approvals => ApprovalsKept
  BY DEF ApprovalsKept
<1>1. CASE UNCHANGED vars
  BY <1>1, <1>g, <1>a DEF vars
<1>2. CASE Tick
  BY <1>2, <1>g, <1>a DEF Tick
<1>3. ASSUME NEW w \in Worker, Call(w) PROVE GrantsKept /\ ApprovalsKept
  <2>1. ASSUME NEW a \in DOMAIN approvals, NEW decision \in {"granted", "denied"},
               ResolveApproval(w, a, decision)
        PROVE  GrantsKept /\ ApprovalsKept
    <3>1. approvals' = [approvals EXCEPT ![a].state = decision] /\ approvals[a].state = "pending"
      BY <2>1 DEF ResolveApproval
    <3>2. DOMAIN approvals' = DOMAIN approvals
      BY <3>1 DEF TypeOK
    <3>3. ASSUME NEW b \in DOMAIN approvals
          PROVE  approvals'[b] = IF b = a THEN [approvals[a] EXCEPT !.state = decision] ELSE approvals[b]
      BY <3>1 DEF TypeOK
    <3> QED
      BY <2>1, <3>1, <3>2, <3>3, <1>g DEF ApprovalsKept, ResolveApproval
  <2> QED
    BY <1>3, <1>g, <1>a, <2>1 DEF Call, Check, IssueGrant, RevokeGrant, WaitForApproval
<1>4. ASSUME NEW w \in Worker, EnqueueApproval(w) PROVE GrantsKept /\ ApprovalsKept
  BY <1>4, <1>g DEF EnqueueApproval, ApprovalsKept, TypeOK
<1>5. ASSUME NEW w \in Worker, InsertGrant(w) PROVE GrantsKept /\ ApprovalsKept
  BY <1>5, <1>a DEF InsertGrant, GrantsKept, TypeOK
<1>6. ASSUME NEW w \in Worker, MarkRevoked(w) PROVE GrantsKept /\ ApprovalsKept
  <2>1. grants' = [grants EXCEPT ![pick[w]].revoked = TRUE] /\ pick[w] \in DOMAIN grants
    BY <1>6 DEF MarkRevoked, Located, LocatedAt
  <2>2. DOMAIN grants' = DOMAIN grants
    BY <2>1 DEF TypeOK
  <2>3. ASSUME NEW g \in DOMAIN grants
        PROVE  grants'[g] = IF g = pick[w] THEN [grants[g] EXCEPT !.revoked = TRUE] ELSE grants[g]
    BY <2>1 DEF TypeOK
  <2>4. \A g \in DOMAIN grants : grants[g] \in Grant
    BY DEF TypeOK
  <2> QED
    BY <1>6, <1>a, <2>2, <2>3, <2>4 DEF GrantsKept, MarkRevoked, Grant
<1>7. ASSUME NEW w \in Worker, List(w) \/ Reread(w) \/ Poll(w) \/ Answer(w) \/ Abandon(w)
      PROVE  GrantsKept /\ ApprovalsKept
  BY <1>7, <1>g, <1>a DEF List, Reread, Poll, Answer, Abandon, Return
<1> QED
  BY <1>1, <1>2, <1>3, <1>4, <1>5, <1>6, <1>7 DEF Next, Continue

(* What a step may do to the log: nothing, or add what the worker at the   *)
(* end of an operation owes it; the tables are then left alone.            *)
Appends(w) ==
  /\ pc[w] \in Type
  /\ log' = With(log, <<pc[w], pick[w]>>)
  /\ Return(w)

LEMMA LogStep ==
  ASSUME [Next]_vars
  PROVE  log' = log \/ \E w \in Worker : Appends(w)
<1>1. ASSUME NEW w \in Worker, Answer(w) PROVE log' = log \/ Appends(w)
  BY <1>1 DEF Answer, Appends
<1>2. ASSUME NEW w \in Worker, Continue(w), ~ Answer(w) PROVE log' = log
  BY <1>2 DEF Continue, List, EnqueueApproval, InsertGrant, MarkRevoked, Reread, Poll, Goto
<1>3. ASSUME NEW w \in Worker, Call(w) PROVE log' = log
  BY <1>3 DEF Call, Check, IssueGrant, RevokeGrant, ResolveApproval, WaitForApproval, Begin
<1> QED
  BY <1>1, <1>2, <1>3 DEF Next, Abandon, Tick, vars

LEMMA LogGrows ==
  ASSUME LogTyped, [Next]_vars, NEW e \in BagToSet(log')
  PROVE  \/ e \in BagToSet(log) /\ log'[e] = log[e]
         \/ \E w \in Worker :
              /\ Appends(w) /\ e = <<pc[w], pick[w]>>
              /\ e \notin BagToSet(log) => log'[e] = 1
<1>1. CASE log' = log
  BY <1>1
<1>2. ASSUME NEW w \in Worker, Appends(w)
      PROVE  \/ e \in BagToSet(log) /\ log'[e] = log[e]
             \/ /\ e = <<pc[w], pick[w]>>
                /\ e \notin BagToSet(log) => log'[e] = 1
  <2>1. ASSUME NEW x, x = <<pc[w], pick[w]>>
        PROVE  /\ DOMAIN (log') = DOMAIN log \union {x}
               /\ \A y \in DOMAIN log : y # x => log'[y] = log[y]
               /\ x \notin DOMAIN log => log'[x] = 1
    BY <1>2, <2>1, OneMoreCopy DEF LogTyped, Appends
  <2> QED
    BY <2>1 DEF BagToSet
<1> QED
  BY <1>1, <1>2, LogStep

LEMMA LogTypedStep ==
  ASSUME TypeOK, LogTyped, [Next]_vars
  PROVE  LogTyped'
<1>1. ASSUME NEW w \in Worker, Appends(w) PROVE LogTyped'
  <2>1. <<pc[w], pick[w]>> \in Entry
    BY <1>1 DEF Appends, TypeOK, Entry
  <2>2. IsABag(log') /\ DOMAIN (log') = DOMAIN log \union {<<pc[w], pick[w]>>}
    BY <1>1, OneMoreCopy DEF LogTyped, Appends
  <2> QED
    BY <2>1, <2>2 DEF LogTyped
<1> QED
  BY <1>1, LogStep DEF LogTyped

-----------------------------------------------------------------------------
(* Types.                                                                  *)

LEMMA BeginTypes ==
  ASSUME TypeOK, NEW w \in Worker, NEW step \in Step, NEW r \in Request \union Grant \union {None},
         NEW id \in Nat, Begin(w, step, r, id)
  PROVE  /\ clock' \in Time /\ calls' \in Nat /\ pc' \in [Worker -> Step]
         /\ req' \in [Worker -> Request \union Grant \union {None}]
         /\ asOf' \in [Worker -> Time \union {None}]
         /\ pick' \in [Worker -> Nat] /\ before' \in [Worker -> SUBSET Nat]
<1>1. RevokedGrants \in SUBSET Nat
  BY DEF RevokedGrants, TypeOK
<1>2. clock' \in Time /\ calls' \in Nat /\ pc' \in [Worker -> Step] /\ pick' \in [Worker -> Nat]
  BY DEF Begin, TypeOK
<1>3. req' \in [Worker -> Request \union Grant \union {None}]
  BY DEF Begin, TypeOK
<1>4. asOf' \in [Worker -> Time \union {None}] /\ before' \in [Worker -> SUBSET Nat]
  BY <1>1 DEF Begin, TypeOK
<1> QED
  BY <1>2, <1>3, <1>4

LEMMA GotoTypes ==
  ASSUME TypeOK, NEW w \in Worker, NEW step \in Step, NEW id \in Nat, Goto(w, step, id)
  PROVE  /\ clock' \in Time /\ calls' \in Nat /\ pc' \in [Worker -> Step]
         /\ req' \in [Worker -> Request \union Grant \union {None}]
         /\ asOf' \in [Worker -> Time \union {None}]
         /\ pick' \in [Worker -> Nat] /\ before' \in [Worker -> SUBSET Nat]
BY DEF Goto, TypeOK

LEMMA ReturnTypes ==
  ASSUME TypeOK, NEW w \in Worker, Return(w)
  PROVE  TypeOK'
<1>1. pc' \in [Worker -> Step]
  BY DEF Return, TypeOK, Step
<1>2. req' \in [Worker -> Request \union Grant \union {None}] /\ asOf' \in [Worker -> Time \union {None}]
  BY DEF Return, TypeOK
<1>3. pick' \in [Worker -> Nat] /\ before' \in [Worker -> SUBSET Nat]
  BY DEF Return, TypeOK
<1> QED
  BY <1>1, <1>2, <1>3 DEF Return, TypeOK

LEMMA CallTypes ==
  ASSUME TypeOK, NEW w \in Worker, Call(w)
  PROVE  TypeOK'
<1> USE DEF Step
<1>1. ASSUME NEW r \in Request, Check(w, r) PROVE TypeOK'
  <2>1. (IF r.cap \in Capability THEN "list" ELSE "check.deny") \in Step
    BY DEF Type
  <2>2. UNCHANGED <<grants, approvals>>
    BY <1>1 DEF Check
  <2> QED
    BY <1>1, <2>1, <2>2, BeginTypes DEF Check, TypeOK
<1>2. ASSUME NEW r \in Request, NEW approval \in BOOLEAN, NEW expires \in Expiry \union {None},
             IssueGrant(w, r, approval, expires)
      PROVE  TypeOK'
  <2>1. [principal |-> r.principal, cap |-> r.cap, scope |-> r.scope,
         approval |-> approval \/ r.cap \in DefaultApproval,
         issued |-> clock, expires |-> expires, revoked |-> FALSE] \in Grant
    BY <1>2, PermissionAssumption DEF IssueGrant, Request, Grant, TypeOK
  <2>2. UNCHANGED <<grants, approvals>>
    BY <1>2 DEF IssueGrant
  <2> QED
    BY <1>2, <2>1, <2>2, BeginTypes DEF IssueGrant, TypeOK
<1>3. ASSUME NEW g \in DOMAIN grants, RevokeGrant(w, g) PROVE TypeOK'
  <2>1. g \in Nat /\ UNCHANGED <<grants, approvals>>
    BY <1>3 DEF RevokeGrant, TypeOK
  <2> QED
    BY <1>3, <2>1, BeginTypes DEF RevokeGrant, TypeOK
<1>4. ASSUME NEW a \in DOMAIN approvals, NEW decision \in {"granted", "denied"},
             ResolveApproval(w, a, decision)
      PROVE  TypeOK'
  <2>1. a \in Nat /\ UNCHANGED grants
    BY <1>4 DEF ResolveApproval, TypeOK
  <2>2. [approvals[a] EXCEPT !.state = decision] \in Approval
    <3>1. approvals[a] \in Approval
      BY ApprovalFields DEF TypeOK
    <3> QED
      BY <3>1 DEF Approval, State
  <2>3. approvals' \in Seq(Approval)
    BY <1>4, <2>2 DEF ResolveApproval, TypeOK
  <2> QED
    BY <1>4, <2>1, <2>3, BeginTypes DEF ResolveApproval, TypeOK
<1>5. ASSUME NEW a \in DOMAIN approvals, WaitForApproval(w, a) PROVE TypeOK'
  <2>1. a \in Nat /\ UNCHANGED <<grants, approvals>>
    BY <1>5 DEF WaitForApproval, TypeOK
  <2> QED
    BY <1>5, <2>1, BeginTypes DEF WaitForApproval, TypeOK
<1> QED
  BY <1>1, <1>2, <1>3, <1>4, <1>5 DEF Call

LEMMA ContinueTypes ==
  ASSUME TypeOK, Located, DecisionJustified, NEW w \in Worker, Continue(w)
  PROVE  TypeOK'
<1> USE DEF Step, Type
<1>1. CASE List(w)
  <2>1. \A g \in First(w) : g \in Nat
    BY DEF First, Matching, Active, TypeOK
  <2>2. \A g : (IF NeedsApproval(g) THEN "enqueue" ELSE "check.allow") \in Step
    OBVIOUS
  <2>3. UNCHANGED <<grants, approvals>>
    BY <1>1 DEF List
  <2> QED
    BY <1>1, <2>1, <2>2, <2>3, GotoTypes DEF List, TypeOK
<1>2. CASE EnqueueApproval(w)
  <2>1. req[w] \in Request /\ req[w].cap \in Capability
    BY <1>2 DEF EnqueueApproval, Located, LocatedAt
  <2>2. [grant |-> pick[w], principal |-> req[w].principal, cap |-> req[w].cap,
         scope |-> req[w].scope, state |-> "pending"] \in Approval
    BY <2>1 DEF Approval, Request, State, TypeOK
  <2>3. approvals' \in Seq(Approval) /\ Len(approvals) + 1 \in Nat /\ UNCHANGED grants
    BY <1>2, <2>2 DEF EnqueueApproval, TypeOK
  <2> QED
    BY <1>2, <2>3, GotoTypes DEF EnqueueApproval, TypeOK
<1>3. CASE InsertGrant(w)
  <2>1. grants' \in Seq(Grant) /\ Len(grants) + 1 \in Nat /\ UNCHANGED approvals
    BY <1>3 DEF InsertGrant, Located, LocatedAt, TypeOK
  <2> QED
    BY <1>3, <2>1, GotoTypes DEF InsertGrant, TypeOK
<1>4. CASE MarkRevoked(w)
  <2>1. pick[w] \in DOMAIN grants /\ pick[w] \in Nat
    BY <1>4 DEF MarkRevoked, Located, LocatedAt, TypeOK
  <2>2. [grants[pick[w]] EXCEPT !.revoked = TRUE] \in Grant
    <3>1. grants[pick[w]] \in Grant
      BY <2>1, GrantFields DEF TypeOK
    <3> QED
      BY <3>1 DEF Grant
  <2>3. grants' \in Seq(Grant) /\ UNCHANGED approvals
    BY <1>4, <2>1, <2>2 DEF MarkRevoked, TypeOK
  <2> QED
    BY <1>4, <2>1, <2>3, GotoTypes DEF MarkRevoked, TypeOK
<1>5. CASE Reread(w)
  <2>1. UNCHANGED <<grants, approvals>> /\ pick[w] \in Nat
    BY <1>5 DEF Reread, TypeOK
  <2> QED
    BY <1>5, <2>1, GotoTypes DEF Reread, TypeOK
<1>6. CASE Poll(w) \/ Answer(w)
  BY <1>6, ReturnTypes DEF Poll, Answer
<1> QED
  BY <1>1, <1>2, <1>3, <1>4, <1>5, <1>6 DEF Continue

LEMMA TypeStep ==
  ASSUME TypeOK, Located, DecisionJustified, [Next]_vars
  PROVE  TypeOK'
<1>1. CASE UNCHANGED vars
  BY <1>1 DEF vars, TypeOK
<1>2. CASE Tick
  BY <1>2, PermissionAssumption DEF Tick, TypeOK
<1> QED
  BY <1>1, <1>2, CallTypes, ContinueTypes, ReturnTypes DEF Next, Abandon

-----------------------------------------------------------------------------
(* What an operation has read stays true.                                  *)

(* Where a step leaves the worker that takes it. *)
LEMMA OwnBegin ==
  ASSUME TypeOK, NEW w \in Worker, NEW step, NEW r, NEW id, Begin(w, step, r, id)
  PROVE  /\ pc[w] = "idle" /\ pc'[w] = step /\ req'[w] = r /\ asOf'[w] = clock
         /\ pick'[w] = id /\ before'[w] = RevokedGrants
BY DEF Begin, TypeOK

LEMMA OwnGoto ==
  ASSUME TypeOK, NEW w \in Worker, NEW step, NEW id, Goto(w, step, id)
  PROVE  /\ pc'[w] = step /\ pick'[w] = id
         /\ req'[w] = req[w] /\ asOf'[w] = asOf[w] /\ before'[w] = before[w]
BY DEF Goto, TypeOK

LEMMA OwnReturn ==
  ASSUME TypeOK, NEW w \in Worker, Return(w)
  PROVE  pc'[w] = "idle" /\ before'[w] = {}
BY DEF Return, TypeOK

LEMMA RevokedGrow ==
  ASSUME GrantsKept
  PROVE  RevokedGrants \subseteq RevokedGrants'
BY DEF GrantsKept, RevokedGrants

(* A worker that does not move stays located. *)
LEMMA LocatedStays ==
  ASSUME TypeOK, NEW v \in Worker, LocatedAt(v), GrantsKept, ApprovalsKept,
         pc'[v] = pc[v], req'[v] = req[v], asOf'[v] = asOf[v],
         pick'[v] = pick[v], before'[v] = before[v]
  PROVE  LocatedAt(v)'
<1>1. pick[v] \in DOMAIN approvals /\ approvals[pick[v]].state # "pending"
        => pick[v] \in DOMAIN approvals' /\ approvals'[pick[v]] = approvals[pick[v]]
  BY DEF ApprovalsKept
<1>2. pick[v] \in DOMAIN approvals => pick[v] \in DOMAIN approvals'
  BY DEF ApprovalsKept
<1>3. pick[v] \in DOMAIN grants => pick[v] \in DOMAIN grants' /\ (grants[pick[v]].revoked => grants'[pick[v]].revoked)
  BY DEF GrantsKept
<1> QED
  BY <1>1, <1>2, <1>3, RevokedGrow DEF LocatedAt

LEMMA LocatedCall ==
  ASSUME TypeOK, TypeOK', NEW w \in Worker, Call(w)
  PROVE  LocatedAt(w)'
<1>1. ASSUME UNCHANGED grants PROVE RevokedGrants' = RevokedGrants
  BY <1>1 DEF RevokedGrants
<1>2. ASSUME NEW r \in Request, Check(w, r) PROVE LocatedAt(w)'
  <2>1. pc'[w] \in {"list", "check.deny"} /\ (pc'[w] = "list" => r.cap \in Capability)
        /\ req'[w] = r /\ asOf'[w] = clock /\ before'[w] = RevokedGrants
    BY <1>2, OwnBegin DEF Check
  <2>2. RevokedGrants' = RevokedGrants
    BY <1>1, <1>2 DEF Check
  <2> QED
    BY <2>1, <2>2 DEF LocatedAt, TypeOK
<1>3. ASSUME NEW r \in Request, NEW approval \in BOOLEAN, NEW expires \in Expiry \union {None},
             IssueGrant(w, r, approval, expires)
      PROVE  LocatedAt(w)'
  <2>1. [principal |-> r.principal, cap |-> r.cap, scope |-> r.scope,
         approval |-> approval \/ r.cap \in DefaultApproval,
         issued |-> clock, expires |-> expires, revoked |-> FALSE] \in Grant
    BY <1>3, PermissionAssumption DEF IssueGrant, Request, Grant, TypeOK
  <2>2. pc'[w] = "insert" /\ req'[w] \in Grant /\ before'[w] = RevokedGrants
    BY <1>3, <2>1, OwnBegin DEF IssueGrant
  <2>3. RevokedGrants' = RevokedGrants
    BY <1>1, <1>3 DEF IssueGrant
  <2> QED
    BY <2>2, <2>3 DEF LocatedAt
<1>4. ASSUME NEW g \in DOMAIN grants, RevokeGrant(w, g) PROVE LocatedAt(w)'
  <2>1. pc'[w] = "revoke" /\ pick'[w] = g /\ before'[w] = RevokedGrants
    BY <1>4, OwnBegin DEF RevokeGrant
  <2>2. RevokedGrants' = RevokedGrants /\ g \in DOMAIN grants'
    BY <1>1, <1>4 DEF RevokeGrant
  <2> QED
    BY <2>1, <2>2 DEF LocatedAt
<1>5. ASSUME NEW a \in DOMAIN approvals, NEW decision \in {"granted", "denied"},
             ResolveApproval(w, a, decision)
      PROVE  LocatedAt(w)'
  <2>1. pc'[w] = "reread" /\ pick'[w] = a /\ before'[w] = RevokedGrants
    BY <1>5, OwnBegin DEF ResolveApproval
  <2>2. RevokedGrants' = RevokedGrants /\ a \in DOMAIN approvals'
    BY <1>1, <1>5 DEF ResolveApproval, TypeOK
  <2> QED
    BY <2>1, <2>2 DEF LocatedAt
<1>6. ASSUME NEW a \in DOMAIN approvals, WaitForApproval(w, a) PROVE LocatedAt(w)'
  <2>1. pc'[w] = "wait" /\ pick'[w] = a /\ before'[w] = RevokedGrants
    BY <1>6, OwnBegin DEF WaitForApproval
  <2>2. RevokedGrants' = RevokedGrants /\ a \in DOMAIN approvals'
    BY <1>1, <1>6 DEF WaitForApproval
  <2> QED
    BY <2>1, <2>2 DEF LocatedAt
<1> QED
  BY <1>2, <1>3, <1>4, <1>5, <1>6 DEF Call

LEMMA LocatedContinue ==
  ASSUME TypeOK, TypeOK', NEW w \in Worker, LocatedAt(w), OneResolver, GrantsKept, Continue(w)
  PROVE  LocatedAt(w)'
<1>1. before[w] \subseteq RevokedGrants'
  BY RevokedGrow DEF LocatedAt
<1>2. CASE List(w)
  <2>1. pc'[w] \in {"check.deny", "enqueue", "check.allow"}
        /\ req'[w] = req[w] /\ asOf'[w] = asOf[w] /\ before'[w] = before[w]
    BY <1>2, OwnGoto DEF List
  <2>2. req[w] \in Request /\ req[w].cap \in Capability /\ asOf[w] \in Time
    BY <1>2 DEF List, LocatedAt
  <2> QED
    BY <1>1, <2>1, <2>2 DEF LocatedAt
<1>3. CASE EnqueueApproval(w)
  <2>1. pc'[w] = "approval.requested" /\ pick'[w] = Len(approvals) + 1 /\ before'[w] = before[w]
    BY <1>3, OwnGoto DEF EnqueueApproval
  <2>2. Len(approvals) + 1 \in DOMAIN approvals'
    BY <1>3 DEF EnqueueApproval, TypeOK
  <2> QED
    BY <1>1, <2>1, <2>2 DEF LocatedAt
<1>4. CASE InsertGrant(w)
  <2>1. pc'[w] = "grant.create" /\ pick'[w] = Len(grants) + 1 /\ before'[w] = before[w]
    BY <1>4, OwnGoto DEF InsertGrant
  <2>2. Len(grants) + 1 \in DOMAIN grants'
    BY <1>4 DEF InsertGrant, TypeOK
  <2> QED
    BY <1>1, <2>1, <2>2 DEF LocatedAt
<1>5. CASE MarkRevoked(w)
  <2>1. pc'[w] = "grant.revoke" /\ pick'[w] = pick[w] /\ before'[w] = before[w]
    BY <1>5, OwnGoto DEF MarkRevoked
  <2>2. pick[w] \in DOMAIN grants /\ grants' = [grants EXCEPT ![pick[w]].revoked = TRUE]
    BY <1>5 DEF MarkRevoked, LocatedAt
  <2>3. grants[pick[w]] \in Grant
    BY <2>2, GrantFields DEF TypeOK
  <2>4. pick[w] \in DOMAIN grants' /\ grants'[pick[w]].revoked
    BY <2>2, <2>3 DEF TypeOK, Grant
  <2> QED
    BY <1>1, <2>1, <2>4 DEF LocatedAt
<1>6. CASE Reread(w)
  <2>1. pick'[w] = pick[w] /\ before'[w] = before[w]
        /\ pc'[w] = IF approvals[pick[w]].state = "granted" THEN "approval.granted" ELSE "approval.denied"
    BY <1>6, OwnGoto DEF Reread
  <2>2. pick[w] \in DOMAIN approvals /\ approvals[pick[w]].state # "pending" /\ approvals' = approvals
    BY <1>6 DEF Reread, LocatedAt, OneResolver, Resolving
  <2>3. approvals[pick[w]].state \in State
    BY <2>2, ApprovalFields DEF TypeOK
  <2> QED
    BY <1>1, <2>1, <2>2, <2>3 DEF LocatedAt, State
<1>7. CASE Poll(w) \/ Answer(w)
  BY <1>7, OwnReturn DEF Poll, Answer, LocatedAt
<1> QED
  BY <1>2, <1>3, <1>4, <1>5, <1>6, <1>7 DEF Continue

LEMMA LocatedStep ==
  ASSUME TypeOK, TypeOK', Located, OneResolver, [Next]_vars
  PROVE  Located'
<1>1. GrantsKept /\ ApprovalsKept
  BY Grow
<1>2. CASE UNCHANGED vars \/ Tick
  <2>1. UNCHANGED <<pc, req, asOf, pick, before>>
    BY <1>2 DEF vars, Tick
  <2> QED
    BY <1>1, <2>1, LocatedStays DEF Located
<1>3. ASSUME NEW w \in Worker, Call(w) \/ Continue(w) \/ Abandon(w), NEW v \in Worker
      PROVE  LocatedAt(v)'
  <2>1. CASE v # w
    BY <1>1, <1>3, <2>1, OthersStay, LocatedStays DEF Located
  <2>2. CASE Abandon(w) /\ v = w
    BY <2>2, OwnReturn DEF Abandon, LocatedAt
  <2> QED
    BY <1>1, <1>3, <2>1, <2>2, LocatedCall, LocatedContinue DEF Located
<1> QED
  BY <1>2, <1>3 DEF Next, Located

(* What Check relies on in a grant never changes. *)
LEMMA GrantStable ==
  ASSUME TypeOK, GrantsKept, NEW g \in DOMAIN grants
  PROVE  /\ g \in DOMAIN grants'
         /\ grants'[g].principal = grants[g].principal /\ grants'[g].cap = grants[g].cap
         /\ grants'[g].scope = grants[g].scope /\ grants'[g].expires = grants[g].expires
         /\ grants'[g].approval = grants[g].approval /\ MustAsk(g)' = MustAsk(g)
<1>1. grants[g] \in Grant
  BY GrantFields DEF TypeOK
<1>2. g \in DOMAIN grants' /\ grants'[g] \in {grants[g], [grants[g] EXCEPT !.revoked = TRUE]}
  BY DEF GrantsKept
<1> QED
  BY <1>1, <1>2 DEF Grant, MustAsk

LEMMA JustifiedStays ==
  ASSUME TypeOK, GrantsKept, NEW v \in Worker, Justified(v),
         pc'[v] = pc[v], req'[v] = req[v], asOf'[v] = asOf[v],
         pick'[v] = pick[v], before'[v] = before[v]
  PROVE  Justified(v)'
<1>1. pick[v] \in DOMAIN grants
  BY DEF Justified
<1> QED
  BY <1>1, GrantStable DEF Justified

(* The query and the walk settle on a justified grant. *)
LEMMA ListJustifies ==
  ASSUME TypeOK, Located, NEW w \in Worker, List(w), pc'[w] # "check.deny"
  PROVE  Justified(w)'
<1>1. pc[w] = "list" /\ UNCHANGED grants
  BY DEF List
<1>2. PICK g \in First(w) : Goto(w, IF NeedsApproval(g) THEN "enqueue" ELSE "check.allow", g)
  BY OwnGoto DEF List
<1>3. /\ g \in DOMAIN grants /\ ~ grants[g].revoked
      /\ grants[g].principal = req[w].principal /\ grants[g].cap = req[w].cap
      /\ <<grants[g].scope, req[w].scope>> \in Covers
      /\ grants[g].expires = None \/ SortsBefore(asOf[w], grants[g].expires)
  BY DEF First, Matching, Active
<1>4. asOf[w] \in Time /\ before[w] \subseteq RevokedGrants
  BY <1>1 DEF Located, LocatedAt
<1>5. grants[g].expires # None => asOf[w].sec <= grants[g].expires.sec
  <2>1. grants[g].expires # None => grants[g].expires \in Time
    BY <1>3, GrantFields DEF TypeOK
  <2> QED
    BY <1>3, <1>4, <2>1, TextErrsWithinSecond
<1>6. pc'[w] = "check.allow" <=> ~ NeedsApproval(g)
  BY <1>2, OwnGoto
<1>7. pick'[w] = g /\ req'[w] = req[w] /\ asOf'[w] = asOf[w] /\ before'[w] = before[w]
  BY <1>2, OwnGoto
<1>8. MustAsk(g) <=> NeedsApproval(g)
  BY DEF MustAsk, NeedsApproval
<1>9. g \notin before[w]
  BY <1>3, <1>4 DEF RevokedGrants
<1>10. MustAsk(g)' <=> MustAsk(g)
  BY <1>1 DEF MustAsk
<1> QED
  BY <1>1, <1>3, <1>5, <1>6, <1>7, <1>8, <1>9, <1>10 DEF Justified, MustAsk

LEMMA JustifiedStep ==
  ASSUME TypeOK, Located, DecisionJustified, [Next]_vars
  PROVE  DecisionJustified'
<1>1. GrantsKept
  BY Grow
<1>2. CASE UNCHANGED vars \/ Tick
  <2>1. UNCHANGED <<pc, req, asOf, pick, before>>
    BY <1>2 DEF vars, Tick
  <2> QED
    BY <1>1, <2>1, JustifiedStays DEF DecisionJustified
<1>3. ASSUME NEW w \in Worker, Call(w) \/ Continue(w) \/ Abandon(w), NEW v \in Worker,
             pc'[v] \in {"check.allow", "enqueue"}
      PROVE  Justified(v)'
  <2>1. CASE v # w
    BY <1>1, <1>3, <2>1, OthersStay, JustifiedStays DEF DecisionJustified
  <2>2. ASSUME Call(w) PROVE pc'[w] \notin {"check.allow", "enqueue"}
    <3>1. ASSUME NEW r \in Request, Check(w, r) PROVE pc'[w] \notin {"check.allow", "enqueue"}
      <4>1. pc'[w] = IF r.cap \in Capability THEN "list" ELSE "check.deny"
        BY <3>1, OwnBegin DEF Check
      <4> QED
        BY <4>1
    <3>2. ASSUME NEW r \in Request, NEW approval \in BOOLEAN, NEW expires \in Expiry \union {None},
                 IssueGrant(w, r, approval, expires)
          PROVE  pc'[w] \notin {"check.allow", "enqueue"}
      BY <3>2, OwnBegin DEF IssueGrant
    <3>3. ASSUME NEW g \in DOMAIN grants, RevokeGrant(w, g) PROVE pc'[w] \notin {"check.allow", "enqueue"}
      BY <3>3, OwnBegin DEF RevokeGrant
    <3>4. ASSUME NEW a \in DOMAIN approvals, NEW decision \in {"granted", "denied"}, ResolveApproval(w, a, decision)
          PROVE  pc'[w] \notin {"check.allow", "enqueue"}
      BY <3>4, OwnBegin DEF ResolveApproval
    <3>5. ASSUME NEW a \in DOMAIN approvals, WaitForApproval(w, a) PROVE pc'[w] \notin {"check.allow", "enqueue"}
      BY <3>5, OwnBegin DEF WaitForApproval
    <3> QED
      BY <2>2, <3>1, <3>2, <3>3, <3>4, <3>5 DEF Call
  <2>3. ASSUME Continue(w), ~ List(w) PROVE pc'[w] \notin {"check.allow", "enqueue"}
    <3>1. CASE EnqueueApproval(w) \/ InsertGrant(w) \/ MarkRevoked(w)
      BY <3>1, OwnGoto DEF EnqueueApproval, InsertGrant, MarkRevoked
    <3>2. CASE Reread(w)
      <4>1. pc'[w] = IF approvals[pick[w]].state = "granted" THEN "approval.granted" ELSE "approval.denied"
        BY <3>2, OwnGoto DEF Reread
      <4> QED
        BY <4>1
    <3>3. CASE Poll(w) \/ Answer(w)
      BY <3>3, OwnReturn DEF Poll, Answer
    <3> QED
      BY <2>3, <3>1, <3>2, <3>3 DEF Continue
  <2>4. ASSUME Abandon(w) PROVE pc'[w] \notin {"check.allow", "enqueue"}
    BY <2>4, OwnReturn DEF Abandon
  <2> QED
    BY <1>3, <2>1, <2>2, <2>3, <2>4, ListJustifies
<1> QED
  BY <1>2, <1>3 DEF Next, DecisionJustified

LEMMA NeverBypassedStep ==
  ASSUME TypeOK, LogTyped, Located, DecisionJustified, ApprovalNeverBypassed, [Next]_vars
  PROVE  ApprovalNeverBypassed'
<1>1. GrantsKept /\ ApprovalsKept
  BY Grow
<1>2. ASSUME NEW e \in BagToSet(log'), e[1] = "check.allow"
      PROVE  e[2] \in DOMAIN grants' /\ ~ MustAsk(e[2])'
  <2>1. ASSUME e \in BagToSet(log) PROVE e[2] \in DOMAIN grants' /\ ~ MustAsk(e[2])'
    BY <1>1, <1>2, <2>1, GrantStable DEF ApprovalNeverBypassed
  <2>2. ASSUME NEW w \in Worker, Appends(w), e = <<pc[w], pick[w]>>
        PROVE  e[2] \in DOMAIN grants' /\ ~ MustAsk(e[2])'
    <3>1. pc[w] = "check.allow" /\ e[2] = pick[w]
      BY <1>2, <2>2
    <3>2. pick[w] \in DOMAIN grants /\ ~ MustAsk(pick[w])
      BY <3>1 DEF DecisionJustified, Justified
    <3> QED
      BY <1>1, <3>1, <3>2, GrantStable
  <2>3. e \in BagToSet(log) \/ \E w \in Worker : Appends(w) /\ e = <<pc[w], pick[w]>>
    BY LogGrows
  <2> QED
    BY <2>1, <2>2, <2>3
<1>3. ASSUME NEW a \in DOMAIN approvals', a \in DOMAIN approvals
      PROVE  AskJustified(a)'
  <2>1. approvals[a] \in Approval /\ AskJustified(a)
    BY <1>3, ApprovalFields DEF TypeOK, ApprovalNeverBypassed
  <2>2. /\ approvals'[a].grant = approvals[a].grant /\ approvals'[a].cap = approvals[a].cap
        /\ approvals'[a].principal = approvals[a].principal
    BY <1>1, <1>3, <2>1 DEF ApprovalsKept, Approval
  <2> QED
    BY <1>1, <2>1, <2>2, GrantStable DEF AskJustified, MustAsk
<1>4. ASSUME NEW a \in DOMAIN approvals', a \notin DOMAIN approvals
      PROVE  AskJustified(a)'
  <2>1. PICK w \in Worker : EnqueueApproval(w)
    <3>1. ASSUME NEW w \in Worker, Call(w) PROVE DOMAIN approvals' = DOMAIN approvals
      BY <3>1 DEF Call, Check, IssueGrant, RevokeGrant, ResolveApproval, WaitForApproval, TypeOK
    <3>2. ASSUME NEW w \in Worker, Continue(w), ~ EnqueueApproval(w) PROVE approvals' = approvals
      BY <3>2 DEF Continue, List, InsertGrant, MarkRevoked, Reread, Poll, Answer, Return
    <3> QED
      BY <1>4, <3>1, <3>2 DEF Next, vars, Tick, Abandon, Return
  <2>2. a = Len(approvals) + 1 /\ UNCHANGED grants
    BY <1>4, <2>1 DEF EnqueueApproval, TypeOK
  <2>3. approvals'[a] = [grant |-> pick[w], principal |-> req[w].principal, cap |-> req[w].cap,
                         scope |-> req[w].scope, state |-> "pending"]
    BY <2>1, <2>2 DEF EnqueueApproval, TypeOK
  <2>4. Justified(w) /\ pc[w] = "enqueue"
    BY <2>1 DEF EnqueueApproval, DecisionJustified
  <2>5. MustAsk(pick[w])
    BY <2>4 DEF Justified
  <2> QED
    BY <2>2, <2>3, <2>4, <2>5 DEF Justified, AskJustified, MustAsk
<1> QED
  BY <1>2, <1>3, <1>4 DEF ApprovalNeverBypassed

-----------------------------------------------------------------------------
(* Who records what.                                                       *)

(* How a worker comes to owe the log an entry about a row. *)
LEMMA Arrivals ==
  ASSUME TypeOK, [Next]_vars, NEW w \in Worker
  PROVE  /\ pc'[w] = "grant.create" =>
              (pc[w] = "grant.create" /\ pick'[w] = pick[w]) \/ InsertGrant(w)
         /\ pc'[w] = "approval.requested" =>
              (pc[w] = "approval.requested" /\ pick'[w] = pick[w]) \/ EnqueueApproval(w)
         /\ Resolving(w)' =>
              \/ Resolving(w) /\ pick'[w] = pick[w]
              \/ \E a \in DOMAIN approvals, decision \in {"granted", "denied"} :
                   ResolveApproval(w, a, decision)
<1> DEFINE Owing == {"grant.create", "approval.requested", "reread", "approval.granted", "approval.denied"}
<1>1. CASE pc'[w] = pc[w] /\ pick'[w] = pick[w]
  BY <1>1 DEF Resolving
<1>2. CASE UNCHANGED vars \/ Tick
  BY <1>1, <1>2 DEF vars, Tick
<1>3. ASSUME NEW x \in Worker, x # w, Call(x) \/ Continue(x) \/ Abandon(x)
      PROVE  pc'[w] = pc[w] /\ pick'[w] = pick[w]
  BY <1>3, OthersStay
<1>4. CASE Call(w)
  <2>1. ASSUME NEW r \in Request, Check(w, r) PROVE pc'[w] \notin Owing
    <3>1. pc'[w] = IF r.cap \in Capability THEN "list" ELSE "check.deny"
      BY <2>1, OwnBegin DEF Check
    <3> QED
      BY <3>1
  <2>2. ASSUME NEW a \in DOMAIN approvals, NEW decision \in {"granted", "denied"}, ResolveApproval(w, a, decision)
        PROVE  pc'[w] = "reread"
    BY <2>2, OwnBegin DEF ResolveApproval
  <2>3. ASSUME \A a \in DOMAIN approvals, decision \in {"granted", "denied"} : ~ ResolveApproval(w, a, decision)
        PROVE  pc'[w] \notin Owing
    <3>1. ASSUME NEW r \in Request, NEW approval \in BOOLEAN, NEW expires \in Expiry \union {None},
                 IssueGrant(w, r, approval, expires)
          PROVE  pc'[w] = "insert"
      BY <3>1, OwnBegin DEF IssueGrant
    <3>2. ASSUME NEW g \in DOMAIN grants, RevokeGrant(w, g) PROVE pc'[w] = "revoke"
      BY <3>2, OwnBegin DEF RevokeGrant
    <3>3. ASSUME NEW a \in DOMAIN approvals, WaitForApproval(w, a) PROVE pc'[w] = "wait"
      BY <3>3, OwnBegin DEF WaitForApproval
    <3> QED
      BY <1>4, <2>1, <2>3, <3>1, <3>2, <3>3 DEF Call
  <2> QED
    BY <2>2, <2>3 DEF Resolving
<1>5. CASE List(w) \/ MarkRevoked(w)
  BY <1>5, OwnGoto DEF List, MarkRevoked, Resolving
<1>6. CASE InsertGrant(w) \/ EnqueueApproval(w)
  BY <1>6, OwnGoto DEF InsertGrant, EnqueueApproval, Resolving
<1>7. CASE Reread(w)
  <2>1. pick'[w] = pick[w] /\ pc[w] = "reread"
        /\ pc'[w] = IF approvals[pick[w]].state = "granted" THEN "approval.granted" ELSE "approval.denied"
    BY <1>7, OwnGoto DEF Reread
  <2> QED
    BY <2>1 DEF Resolving
<1>8. CASE Poll(w) \/ Answer(w) \/ Abandon(w)
  BY <1>8, OwnReturn DEF Poll, Answer, Abandon, Resolving
<1> QED
  BY <1>1, <1>2, <1>3, <1>4, <1>5, <1>6, <1>7, <1>8 DEF Next, Continue

LEMMA CreateRecorder ==
  ASSUME TypeOK, LogTyped, Located, LogFollowsTables, OneRecorder("grant.create"), [Next]_vars
  PROVE  OneRecorder("grant.create")'
<1>1. ASSUME NEW w \in Worker, InsertGrant(w)
      PROVE  /\ UNCHANGED log /\ pick'[w] = Len(grants) + 1 /\ pick'[w] \notin DOMAIN grants
             /\ \A v \in Worker : v # w => pc'[v] = pc[v] /\ pick'[v] = pick[v]
  <2>1. pick'[w] = Len(grants) + 1
    BY <1>1, OwnGoto DEF InsertGrant
  <2>2. UNCHANGED log
    BY <1>1 DEF InsertGrant, Goto
  <2>3. Continue(w)
    BY <1>1 DEF Continue
  <2> QED
    BY <2>1, <2>2, <2>3, OthersStay DEF TypeOK
<1>2. ASSUME NEW w \in Worker, pc'[w] = "grant.create"
      PROVE  <<"grant.create", pick'[w]>> \notin BagToSet(log')
  <2>1. CASE InsertGrant(w)
    BY <1>1, <2>1 DEF LogFollowsTables
  <2>2. CASE pc[w] = "grant.create" /\ pick'[w] = pick[w]
    <3>1. <<"grant.create", pick[w]>> \notin BagToSet(log)
      BY <2>2 DEF OneRecorder
    <3>2. ASSUME NEW v \in Worker, Appends(v), <<"grant.create", pick[w]>> = <<pc[v], pick[v]>>
          PROVE  FALSE
      <4>1. v = w
        BY <2>2, <3>2 DEF OneRecorder
      <4>2. pc'[v] = "idle"
        BY <3>2, OwnReturn DEF Appends
      <4> QED
        BY <1>2, <4>1, <4>2
    <3> QED
      BY <2>2, <3>1, <3>2, LogGrows
  <2> QED
    BY <1>2, <2>1, <2>2, Arrivals
<1>3. ASSUME NEW w \in Worker, NEW v \in Worker, w # v,
             pc'[w] = "grant.create", pc'[v] = "grant.create", pick'[w] = pick'[v]
      PROVE  FALSE
  <2>1. ASSUME NEW x \in Worker, NEW y \in Worker, x # y, InsertGrant(x), pc'[y] = "grant.create"
        PROVE  pick'[x] # pick'[y]
    <3>1. pc[y] = "grant.create" /\ pick'[y] = pick[y]
      BY <1>1, <2>1
    <3> QED
      BY <1>1, <2>1, <3>1 DEF Located, LocatedAt
  <2>2. CASE InsertGrant(w) \/ InsertGrant(v)
    BY <1>3, <2>1, <2>2
  <2> QED
    BY <1>3, <2>2, Arrivals DEF OneRecorder
<1> QED
  BY <1>2, <1>3 DEF OneRecorder

LEMMA RequestRecorder ==
  ASSUME TypeOK, LogTyped, Located, LogFollowsTables, OneRecorder("approval.requested"), [Next]_vars
  PROVE  OneRecorder("approval.requested")'
<1>1. ASSUME NEW w \in Worker, EnqueueApproval(w)
      PROVE  /\ UNCHANGED log /\ pick'[w] = Len(approvals) + 1 /\ pick'[w] \notin DOMAIN approvals
             /\ \A v \in Worker : v # w => pc'[v] = pc[v] /\ pick'[v] = pick[v]
  <2>1. pick'[w] = Len(approvals) + 1
    BY <1>1, OwnGoto DEF EnqueueApproval
  <2>2. UNCHANGED log
    BY <1>1 DEF EnqueueApproval, Goto
  <2>3. Continue(w)
    BY <1>1 DEF Continue
  <2> QED
    BY <2>1, <2>2, <2>3, OthersStay DEF TypeOK
<1>2. ASSUME NEW w \in Worker, pc'[w] = "approval.requested"
      PROVE  <<"approval.requested", pick'[w]>> \notin BagToSet(log')
  <2>1. CASE EnqueueApproval(w)
    BY <1>1, <2>1 DEF LogFollowsTables
  <2>2. CASE pc[w] = "approval.requested" /\ pick'[w] = pick[w]
    <3>1. <<"approval.requested", pick[w]>> \notin BagToSet(log)
      BY <2>2 DEF OneRecorder
    <3>2. ASSUME NEW v \in Worker, Appends(v), <<"approval.requested", pick[w]>> = <<pc[v], pick[v]>>
          PROVE  FALSE
      <4>1. v = w
        BY <2>2, <3>2 DEF OneRecorder
      <4>2. pc'[v] = "idle"
        BY <3>2, OwnReturn DEF Appends
      <4> QED
        BY <1>2, <4>1, <4>2
    <3> QED
      BY <2>2, <3>1, <3>2, LogGrows
  <2> QED
    BY <1>2, <2>1, <2>2, Arrivals
<1>3. ASSUME NEW w \in Worker, NEW v \in Worker, w # v,
             pc'[w] = "approval.requested", pc'[v] = "approval.requested", pick'[w] = pick'[v]
      PROVE  FALSE
  <2>1. ASSUME NEW x \in Worker, NEW y \in Worker, x # y, EnqueueApproval(x), pc'[y] = "approval.requested"
        PROVE  pick'[x] # pick'[y]
    <3>1. pc[y] = "approval.requested" /\ pick'[y] = pick[y]
      BY <1>1, <2>1
    <3> QED
      BY <1>1, <2>1, <3>1 DEF Located, LocatedAt
  <2>2. CASE EnqueueApproval(w) \/ EnqueueApproval(v)
    BY <1>3, <2>1, <2>2
  <2> QED
    BY <1>3, <2>2, Arrivals DEF OneRecorder
<1> QED
  BY <1>2, <1>3 DEF OneRecorder

LEMMA LogFollowsStep ==
  ASSUME TypeOK, LogTyped, Located, LogFollowsTables,
         OneRecorder("grant.create"), OneRecorder("approval.requested"), [Next]_vars
  PROVE  LogFollowsTables'
<1>1. GrantsKept /\ ApprovalsKept
  BY Grow
<1> SUFFICES ASSUME NEW e \in BagToSet(log')
             PROVE  /\ e[1] = "grant.create" => e[2] \in DOMAIN grants' /\ log'[e] = 1
                    /\ e[1] = "grant.revoke" => e[2] \in DOMAIN grants' /\ grants'[e[2]].revoked
                    /\ e[1] = "approval.requested" => e[2] \in DOMAIN approvals' /\ log'[e] = 1
  BY DEF LogFollowsTables
<1>2. CASE e \in BagToSet(log) /\ log'[e] = log[e]
  BY <1>1, <1>2 DEF LogFollowsTables, GrantsKept, ApprovalsKept
<1>3. ASSUME NEW w \in Worker, e = <<pc[w], pick[w]>>, e \notin BagToSet(log) => log'[e] = 1
      PROVE  /\ e[1] = "grant.create" => e[2] \in DOMAIN grants' /\ log'[e] = 1
             /\ e[1] = "grant.revoke" => e[2] \in DOMAIN grants' /\ grants'[e[2]].revoked
             /\ e[1] = "approval.requested" => e[2] \in DOMAIN approvals' /\ log'[e] = 1
  <2>1. LocatedAt(w)
    BY DEF Located
  <2>2. pc[w] \in {"grant.create", "approval.requested"} => e \notin BagToSet(log)
    BY <1>3 DEF OneRecorder
  <2> QED
    BY <1>1, <1>3, <2>1, <2>2 DEF LocatedAt, GrantsKept, ApprovalsKept
<1> QED
  BY <1>2, <1>3, LogGrows

LEMMA ResolverStep ==
  ASSUME TypeOK, LogTyped, Located, OneResolver, [Next]_vars
  PROVE  OneResolver'
<1>1. ApprovalsKept
  BY Grow
<1>2. ASSUME NEW w \in Worker, NEW a \in DOMAIN approvals, NEW decision \in {"granted", "denied"},
             ResolveApproval(w, a, decision)
      PROVE  /\ UNCHANGED log /\ pick'[w] = a /\ approvals[a].state = "pending"
             /\ approvals'[a].state = decision
             /\ \A v \in Worker : v # w => pc'[v] = pc[v] /\ pick'[v] = pick[v]
  <2>1. approvals[a] \in Approval
    BY ApprovalFields DEF TypeOK
  <2>2. approvals'[a].state = decision
    BY <1>2, <2>1 DEF ResolveApproval, TypeOK, Approval
  <2>3. UNCHANGED log /\ approvals[a].state = "pending"
    BY <1>2 DEF ResolveApproval, Begin
  <2>4. pick'[w] = a
    BY <1>2, OwnBegin DEF ResolveApproval
  <2>5. Call(w)
    BY <1>2 DEF Call
  <2> QED
    BY <2>2, <2>3, <2>4, <2>5, OthersStay
<1>3. ASSUME NEW w \in Worker, Resolving(w)
      PROVE  pick[w] \in DOMAIN approvals /\ approvals[pick[w]].state # "pending"
  BY <1>3 DEF Resolving, Located, LocatedAt, OneResolver
<1>4. ASSUME NEW w \in Worker, Resolving(w)'
      PROVE  approvals'[pick'[w]].state # "pending"
  <2>1. CASE Resolving(w) /\ pick'[w] = pick[w]
    BY <1>1, <1>3, <2>1 DEF ApprovalsKept
  <2> QED
    BY <1>2, <1>4, <2>1, Arrivals
<1>5. ASSUME NEW w \in Worker, NEW v \in Worker, w # v, Resolving(w)', Resolving(v)', pick'[w] = pick'[v]
      PROVE  FALSE
  <2>1. ASSUME NEW x \in Worker, NEW y \in Worker, x # y, Resolving(y)',
               NEW a \in DOMAIN approvals, NEW decision \in {"granted", "denied"}, ResolveApproval(x, a, decision)
        PROVE  pick'[x] # pick'[y]
    <3>1. Resolving(y) /\ pick'[y] = pick[y]
      BY <1>2, <2>1 DEF Resolving
    <3> QED
      BY <1>2, <1>3, <2>1, <3>1
  <2>2. CASE (Resolving(w) /\ pick'[w] = pick[w]) /\ (Resolving(v) /\ pick'[v] = pick[v])
    BY <1>5, <2>2 DEF OneResolver
  <2> QED
    BY <1>5, <2>1, <2>2, Arrivals
<1>6. ASSUME NEW w \in Worker, Resolving(w)', NEW type \in {"approval.granted", "approval.denied"}
      PROVE  <<type, pick'[w]>> \notin BagToSet(log')
  <2>1. CASE Resolving(w) /\ pick'[w] = pick[w]
    <3>1. <<type, pick[w]>> \notin BagToSet(log)
      BY <2>1 DEF OneResolver
    <3>2. ASSUME NEW v \in Worker, Appends(v), <<type, pick[w]>> = <<pc[v], pick[v]>>
          PROVE  FALSE
      <4>1. Resolving(v) /\ pick[v] = pick[w]
        BY <3>2 DEF Resolving
      <4>2. v = w
        BY <2>1, <4>1 DEF OneResolver
      <4>3. pc'[v] = "idle"
        BY <3>2, OwnReturn DEF Appends
      <4> QED
        BY <1>6, <4>2, <4>3 DEF Resolving
    <3> QED
      BY <2>1, <3>1, <3>2, LogGrows
  <2>2. ASSUME NEW a \in DOMAIN approvals, NEW decision \in {"granted", "denied"}, ResolveApproval(w, a, decision)
        PROVE  <<type, pick'[w]>> \notin BagToSet(log')
    BY <1>2, <2>2 DEF OneResolver
  <2> QED
    BY <1>6, <2>1, <2>2, Arrivals
<1>7. ASSUME NEW e \in BagToSet(log')
      PROVE  /\ e[1] = "approval.granted" => e[2] \in DOMAIN approvals' /\ approvals'[e[2]].state = "granted"
             /\ e[1] = "approval.denied" => e[2] \in DOMAIN approvals' /\ approvals'[e[2]].state = "denied"
             /\ e[1] \in {"approval.granted", "approval.denied"} => log'[e] = 1
  <2>1. CASE e \in BagToSet(log) /\ log'[e] = log[e]
    BY <1>1, <2>1 DEF OneResolver, ApprovalsKept
  <2>2. ASSUME NEW w \in Worker, e = <<pc[w], pick[w]>>, e \notin BagToSet(log) => log'[e] = 1
        PROVE  /\ e[1] = "approval.granted" => e[2] \in DOMAIN approvals' /\ approvals'[e[2]].state = "granted"
               /\ e[1] = "approval.denied" => e[2] \in DOMAIN approvals' /\ approvals'[e[2]].state = "denied"
               /\ e[1] \in {"approval.granted", "approval.denied"} => log'[e] = 1
    <3>1. LocatedAt(w)
      BY DEF Located
    <3>2. pc[w] \in {"approval.granted", "approval.denied"} => e \notin BagToSet(log)
      BY <2>2 DEF OneResolver, Resolving
    <3> QED
      BY <1>1, <2>2, <3>1, <3>2 DEF LocatedAt, ApprovalsKept
  <2> QED
    BY <2>1, <2>2, LogGrows
<1> QED
  BY <1>4, <1>5, <1>6, <1>7 DEF OneResolver

-----------------------------------------------------------------------------
(* The inductive invariant.                                                *)

LEMMA InitInv ==
  ASSUME Init
  PROVE  IInv
<1>1. DOMAIN grants = {} /\ DOMAIN approvals = {} /\ BagToSet(log) = {} /\ DOMAIN log = {}
  BY DEF Init, EmptyBag, SetToBag, BagToSet
<1>2. TypeOK
  BY PermissionAssumption DEF Init, TypeOK, Step
<1>3. LogTyped
  BY DEF Init, LogTyped, IsABag, EmptyBag, SetToBag
<1>4. \A w \in Worker : pc[w] = "idle" /\ before[w] = {}
  BY DEF Init
<1>5. Located
  BY <1>4 DEF Located, LocatedAt
<1>6. OneResolver
  BY <1>1, <1>4 DEF OneResolver, Resolving
<1>7. OneRecorder("grant.create") /\ OneRecorder("approval.requested")
  BY <1>4 DEF OneRecorder
<1>8. DecisionJustified
  BY <1>4 DEF DecisionJustified
<1>9. ApprovalNeverBypassed /\ LogFollowsTables
  BY <1>1 DEF ApprovalNeverBypassed, LogFollowsTables
<1> QED
  BY <1>2, <1>3, <1>5, <1>6, <1>7, <1>8, <1>9 DEF IInv

LEMMA NextInv ==
  ASSUME IInv, [Next]_vars
  PROVE  IInv'
<1>1. TypeOK'
  BY TypeStep DEF IInv
<1>2. LogTyped'
  BY LogTypedStep DEF IInv
<1>3. Located'
  BY <1>1, LocatedStep DEF IInv
<1>4. DecisionJustified'
  BY JustifiedStep DEF IInv
<1>5. ApprovalNeverBypassed'
  BY NeverBypassedStep DEF IInv
<1>6. OneResolver'
  BY ResolverStep DEF IInv
<1>7. OneRecorder("grant.create")'
  BY CreateRecorder DEF IInv
<1>8. OneRecorder("approval.requested")'
  BY RequestRecorder DEF IInv
<1>9. LogFollowsTables'
  BY LogFollowsStep DEF IInv
<1> QED
  BY <1>1, <1>2, <1>3, <1>4, <1>5, <1>6, <1>7, <1>8, <1>9 DEF IInv

(* The inductive invariant holds of every run of the check engine. *)
THEOREM Invariance == Spec => []IInv
<1>1. Init => IInv
  BY InitInv
<1>2. IInv /\ [Next]_vars => IInv'
  BY NextInv
<1> QED
  BY <1>1, <1>2, PTL DEF Spec

-----------------------------------------------------------------------------
(* What follows from it.                                                   *)

(* The tables hold grants and approvals, and workers what they work with. *)
THEOREM TypeCorrect == Spec => []TypeOK
<1>1. IInv => TypeOK
  BY DEF IInv
<1> QED
  BY <1>1, Invariance, PTL

(* Check allows, and asks, only on a grant that was the asker's, for the   *)
(* capability, covering the attempt, not revoked when the Check began and  *)
(* not expired by a second or more.                                        *)
THEOREM DecisionsJustified == Spec => []DecisionJustified
<1>1. IInv => DecisionJustified
  BY DEF IInv
<1> QED
  BY <1>1, Invariance, PTL

(* Check never allows the use of a grant that demands the user's approval. *)
THEOREM ApprovalsNeverBypassed == Spec => []ApprovalNeverBypassed
<1>1. IInv => ApprovalNeverBypassed
  BY DEF IInv
<1> QED
  BY <1>1, Invariance, PTL

(* An approval that several resolve at once is recorded once at most, and  *)
(* as the table has it: ResolveApproval moves it out of pending in a       *)
(* single statement, and only the worker that did goes on to the log.      *)
THEOREM ResolvedOnce == Spec => []ResolutionRecordedOnce
<1>1. IInv => ResolutionRecordedOnce
  <2> SUFFICES ASSUME IInv, NEW a \in 1 .. Len(approvals)
               PROVE  /\ Copies("approval.granted", a) + Copies("approval.denied", a) <= 1
                      /\ Copies("approval.granted", a) > 0 => approvals[a].state = "granted"
                      /\ Copies("approval.denied", a) > 0 => approvals[a].state = "denied"
    BY DEF ResolutionRecordedOnce
  <2>1. ASSUME NEW type \in {"approval.granted", "approval.denied"}
        PROVE  Copies(type, a) = IF <<type, a>> \in BagToSet(log) THEN 1 ELSE 0
    BY DEF Copies, BagIn, IInv, OneResolver
  <2>2. <<"approval.granted", a>> \in BagToSet(log) => approvals[a].state = "granted"
    BY DEF IInv, OneResolver
  <2>3. <<"approval.denied", a>> \in BagToSet(log) => approvals[a].state = "denied"
    BY DEF IInv, OneResolver
  <2> QED
    BY <2>1, <2>2, <2>3
<1> QED
  BY <1>1, Invariance, PTL

(* The log never runs ahead of the tables: RevokeGrant, IssueGrant and     *)
(* Check write the row first and append its entry after.                   *)
THEOREM LogTruthful == Spec => []LogFollowsTables
<1>1. IInv => LogFollowsTables
  BY DEF IInv
<1> QED
  BY <1>1, Invariance, PTL

(* The log is complete, in the sense of audit-spec.md, while no append to  *)
(* it fails: whatever a caller was told has its entry, and nothing else    *)
(* has one, since every operation appends before it answers.               *)
THEOREM AnswersAreRecorded ==
  ASSUME ~ AuditFails
  PROVE  Spec => []AnswersRecorded
<1>1. Init => answered = log
  BY DEF Init
<1>2. answered = log /\ [Next]_vars => (answered = log)'
  <2> SUFFICES ASSUME answered = log, [Next]_vars PROVE answered' = log'
    OBVIOUS
  <2>1. ASSUME NEW w \in Worker, Answer(w) PROVE answered' = log'
    BY <2>1 DEF Answer
  <2>2. ASSUME NEW w \in Worker, Continue(w), ~ Answer(w) PROVE UNCHANGED <<log, answered>>
    BY <2>2 DEF Continue, List, EnqueueApproval, InsertGrant, MarkRevoked, Reread, Poll, Goto
  <2>3. ASSUME NEW w \in Worker, Call(w) PROVE UNCHANGED <<log, answered>>
    BY <2>3 DEF Call, Check, IssueGrant, RevokeGrant, ResolveApproval, WaitForApproval, Begin
  <2> QED
    BY <2>1, <2>2, <2>3 DEF Next, Abandon, Tick, vars
<1>3. IInv /\ answered = log => AnswersRecorded
  <2> SUFFICES ASSUME IInv, answered = log PROVE answered \sqsubseteq log
    BY DEF AnswersRecorded
  <2>1. \A e \in DOMAIN log : log[e] \in Nat
    BY DEF IInv, LogTyped, IsABag
  <2> QED
    BY <2>1 DEF \sqsubseteq
<1> QED
  BY <1>1, <1>2, <1>3, Invariance, PTL DEF Spec

(* No operation brings a revoked grant back, changes what a grant allows   *)
(* or resolves an approval again.                                          *)
THEOREM Settles == Spec => SettledForGood
<1>1. IInv /\ [Next]_vars =>
        [Settled([grants |-> grants, approvals |-> approvals],
                 [grants |-> grants', approvals |-> approvals'])]_vars
  <2> SUFFICES ASSUME IInv, [Next]_vars
               PROVE  Settled([grants |-> grants, approvals |-> approvals],
                              [grants |-> grants', approvals |-> approvals'])
    OBVIOUS
  <2>1. GrantsKept /\ ApprovalsKept
    BY Grow DEF IInv
  <2> QED
    BY <2>1 DEF Settled, GrantsKept, ApprovalsKept
<1> QED
  BY <1>1, Invariance, PTL DEF Spec, SettledForGood
=============================================================================
