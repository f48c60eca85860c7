-------------------------- MODULE MCDaemon_proofs --------------------------
(***************************************************************************)
(* Proofs about the daemon's parts, for any number of consents, waiters,   *)
(* calls, init requests, starts, adapters, streams and handlers.  Each     *)
(* part has an inductive invariant of its own; the last section carries    *)
(* the results over to the run, which interleaves none of them.            *)
(***************************************************************************)
EXTENDS MCDaemon, SequenceTheorems, TLAPS

-----------------------------------------------------------------------------
(***************************************************************************)
(* The consent of a capsule.  The inductive invariant: a call that goes to *)
(* the provider holds a token; a visit that has no answer yet has given    *)
(* its name to no token that is stored or held, so that the provider never *)
(* honours again what it no longer honoured.                               *)
(***************************************************************************)
VisitRecord == [of : Flow \union {None}, new : BOOLEAN,
                at : {"idle", "exchange", "access", "refresh", "complete", "signal", "ok", "failed"}]
CallRecord  == [held : O!Token \union {None},
                at : {"idle", "post", "access", "refresh", "token", "reauth", "error"}]

FlowsTyped ==
  /\ flow \in [Flow -> {"none", "pending", "gone"}]
  /\ watchdog \in [Flow -> {"none", "waiting", "done"}]
  /\ oauthServer \in [Flow -> {"none", "serving", "closing", "closed"}]
  /\ oauthCode \subseteq Flow

TokensTyped ==
  /\ visit \in [Visit -> VisitRecord] /\ caller \in [Caller -> CallRecord]
  /\ oauthValid \subseteq Visit
  /\ access \in O!Token \union {None} /\ refresh \in O!Token \union {None} /\ oauthStale \in BOOLEAN

TokensNamed ==
  /\ \A c \in Caller : caller[c].at \in {"post", "access", "refresh"} => caller[c].held # None
  /\ \A v \in Visit : visit[v].at \in {"idle", "exchange"} => v # refresh /\ \A c \in Caller : caller[c].held # v

LEMMA FlowsKeep ==
  ASSUME FlowsTyped, [O!Next]_(O!vars)
  PROVE  FlowsTyped'
<1>1. CASE UNCHANGED O!vars
  BY <1>1 DEF O!vars, FlowsTyped
<1>2. ASSUME NEW f \in Flow, O!Begin(f) PROVE FlowsTyped'
  BY <1>2 DEF O!Begin, FlowsTyped
<1>3. ASSUME NEW f \in Flow, O!Consent(f) \/ O!Shutdown(f) PROVE FlowsTyped'
  BY <1>3 DEF O!Consent, O!Shutdown, FlowsTyped
<1>4. ASSUME NEW f \in Flow, O!Expire(f) PROVE FlowsTyped'
  BY <1>4 DEF O!Expire, FlowsTyped
<1>5. ASSUME NEW v \in Visit, O!Visiting(v) PROVE FlowsTyped'
  <2>1. CASE O!Exchange(v)
    BY <2>1 DEF O!Exchange, FlowsTyped
  <2>2. CASE O!PersistAccess(v) \/ O!PersistRefresh(v)
    BY <2>2 DEF O!PersistAccess, O!PersistRefresh, FlowsTyped
  <2>3. CASE O!Complete(v)
    BY <2>3 DEF O!Complete, FlowsTyped
  <2>4. CASE O!Signal(v)
    BY <2>4 DEF O!Signal, FlowsTyped
  <2> QED
    BY <1>5, <2>1, <2>2, <2>3, <2>4 DEF O!Visiting
<1>6. ASSUME NEW v \in Visit, NEW f \in Flow, O!Callback(v, f) PROVE FlowsTyped'
  BY <1>6 DEF O!Callback, FlowsTyped
<1>7. ASSUME NEW c \in Caller, O!AccessToken(c) \/ O!Post(c) \/ O!StoreAccess(c) \/ O!StoreRefresh(c) PROVE FlowsTyped'
  BY <1>7 DEF O!AccessToken, O!Post, O!StoreAccess, O!StoreRefresh, FlowsTyped
<1>8. CASE O!GrowStale \/ \E t \in O!Token : O!Withdraw(t)
  BY <1>8 DEF O!GrowStale, O!Withdraw, FlowsTyped
<1> QED
  BY <1>1, <1>2, <1>3, <1>4, <1>5, <1>6, <1>7, <1>8 DEF O!Next

-----------------------------------------------------------------------------
LEMMA VisitMoves ==
  ASSUME TokensTyped, NEW v \in Visit, NEW to \in {"access", "refresh", "complete", "signal", "ok"}, O!Goes(v, to)
  PROVE  visit' \in [Visit -> VisitRecord] /\ visit'[v].at = to /\ \A u \in Visit \ {v} : visit'[u] = visit[u]
<1> DEFINE r == [visit[v] EXCEPT !.at = to]
<1>1. r \in VisitRecord /\ r.at = to /\ visit' = [visit EXCEPT ![v] = r]
  BY DEF O!Goes, TokensTyped, VisitRecord
<1> HIDE DEF r
<1> QED
  BY <1>1 DEF TokensTyped

LEMMA CallMoves ==
  ASSUME TokensTyped, NEW c \in Caller, NEW to \in {"access", "refresh", "token", "reauth", "error"},
         caller' = [caller EXCEPT ![c].at = to]
  PROVE  /\ caller' \in [Caller -> CallRecord] /\ caller'[c].at = to /\ caller'[c].held = caller[c].held
         /\ \A d \in Caller \ {c} : caller'[d] = caller[d]
<1> DEFINE r == [caller[c] EXCEPT !.at = to]
<1>1. r \in CallRecord /\ r.at = to /\ r.held = caller[c].held /\ caller' = [caller EXCEPT ![c] = r]
  BY DEF TokensTyped, CallRecord
<1> HIDE DEF r
<1> QED
  BY <1>1 DEF TokensTyped

(* What a step of the consent keeps.                                       *)
ConsentHolds == TokensTyped /\ TokensNamed /\ O!ReauthMeansRevoked

(* A visit that has had its answer, or has failed, has no claim on names.  *)
LEMMA VisitKeeps ==
  ASSUME ConsentHolds, NEW v \in Visit, visit' \in [Visit -> VisitRecord], visit'[v].at \notin {"idle", "exchange"},
         \A u \in Visit \ {v} : visit'[u] = visit[u], UNCHANGED <<oauthValid, caller>>,
         refresh' = refresh \/ (refresh' = v /\ visit[v].at = "refresh"),
         access' \in {access, v}, oauthStale' \in BOOLEAN
  PROVE  ConsentHolds'
<1>1. v \in O!Token
  BY DEF O!Token
<1>2. TokensTyped'
  BY <1>1 DEF ConsentHolds, TokensTyped
<1>3. TokensNamed'
  BY DEF ConsentHolds, TokensNamed
<1>4. O!ReauthMeansRevoked'
  BY DEF ConsentHolds, O!ReauthMeansRevoked
<1> QED
  BY <1>2, <1>3, <1>4 DEF ConsentHolds

LEMMA ExchangeKeeps == ASSUME ConsentHolds, NEW v \in Visit, O!Exchange(v) PROVE ConsentHolds'
<1>1. visit[v].at = "exchange" /\ UNCHANGED <<access, refresh, oauthStale, caller>>
  BY DEF O!Exchange
<1>2. CASE O!Goes(v, "complete") /\ UNCHANGED <<oauthCode, oauthValid>>
  BY <1>1, <1>2, VisitMoves, VisitKeeps DEF ConsentHolds, TokensTyped
<1>3. ASSUME NEW new \in BOOLEAN, visit' = [visit EXCEPT ![v].at = "access", ![v].new = new],
             oauthValid' = oauthValid \union (IF new THEN {v} ELSE {})
      PROVE  ConsentHolds'
  <2> DEFINE r == [visit[v] EXCEPT !.at = "access", !.new = new]
  <2>1. r \in VisitRecord /\ r.at = "access" /\ visit' = [visit EXCEPT ![v] = r]
    BY <1>3 DEF ConsentHolds, TokensTyped, VisitRecord
  <2> HIDE DEF r
  <2>2. visit' \in [Visit -> VisitRecord] /\ visit'[v].at = "access" /\ \A u \in Visit \ {v} : visit'[u] = visit[u]
    BY <2>1 DEF ConsentHolds, TokensTyped
  <2>3. TokensTyped'
    BY <1>1, <1>3, <2>2 DEF ConsentHolds, TokensTyped
  <2>4. TokensNamed'
    BY <1>1, <2>2 DEF ConsentHolds, TokensNamed
  <2>5. \A c \in Caller : caller[c].held # v
    BY <1>1 DEF ConsentHolds, TokensNamed
  <2>6. O!ReauthMeansRevoked'
    BY <1>1, <1>3, <2>5 DEF ConsentHolds, O!ReauthMeansRevoked
  <2> QED
    BY <2>3, <2>4, <2>6 DEF ConsentHolds
<1> QED
  BY <1>2, <1>3 DEF O!Exchange

LEMMA VisitingKeeps ==
  ASSUME ConsentHolds, NEW v \in Visit,
         O!PersistAccess(v) \/ O!PersistRefresh(v) \/ O!Complete(v) \/ O!Signal(v)
  PROVE  ConsentHolds'
<1>1. PICK to \in {"refresh", "complete", "signal", "ok"} : O!Goes(v, to)
  BY DEF O!PersistAccess, O!PersistRefresh, O!Complete, O!Signal
<1>2. visit' \in [Visit -> VisitRecord] /\ visit'[v].at = to /\ \A u \in Visit \ {v} : visit'[u] = visit[u]
  BY <1>1, VisitMoves DEF ConsentHolds
<1>3. UNCHANGED <<oauthValid, caller>>
  BY DEF O!PersistAccess, O!PersistRefresh, O!Complete, O!Signal
<1>4. refresh' = refresh \/ (refresh' = v /\ visit[v].at = "refresh")
  BY DEF O!PersistAccess, O!PersistRefresh, O!Complete, O!Signal, O!Kept
<1>5. access' \in {access, v} /\ oauthStale' \in BOOLEAN
  BY DEF O!PersistAccess, O!PersistRefresh, O!Complete, O!Signal, ConsentHolds, TokensTyped
<1> QED
  BY <1>2, <1>3, <1>4, <1>5, VisitKeeps

LEMMA CallbackKeeps == ASSUME ConsentHolds, NEW v \in Visit, NEW f \in Flow, O!Callback(v, f) PROVE ConsentHolds'
<1>1. PICK to \in {"exchange", "complete"} : visit' = [visit EXCEPT ![v] = [of |-> f, new |-> FALSE, at |-> to]]
  BY DEF O!Callback
<1> DEFINE r == [of |-> f, new |-> FALSE, at |-> to]
<1>2. r \in VisitRecord /\ visit' = [visit EXCEPT ![v] = r]
  BY <1>1 DEF VisitRecord
<1> HIDE DEF r
<1>3. visit' \in [Visit -> VisitRecord] /\ \A u \in Visit \ {v} : visit'[u] = visit[u]
  BY <1>2 DEF ConsentHolds, TokensTyped
<1>4. visit[v].at = "idle" /\ UNCHANGED <<oauthValid, access, refresh, oauthStale, caller>>
  BY DEF O!Callback
<1> QED
  BY <1>3, <1>4 DEF ConsentHolds, TokensTyped, TokensNamed, O!ReauthMeansRevoked

-----------------------------------------------------------------------------
LEMMA AccessTokenKeeps ==
  ASSUME O!OAuthParameters, ConsentHolds, NEW c \in Caller, O!AccessToken(c)
  PROVE  ConsentHolds'
<1> DEFINE r == [held |-> refresh,
                 at |-> IF access # None /\ ~ oauthStale THEN "token" ELSE IF refresh = None THEN "reauth" ELSE "post"]
<1>1. UNCHANGED <<visit, oauthValid, access, refresh, oauthStale>> /\ caller' = [caller EXCEPT ![c] = r]
  BY DEF O!AccessToken
<1>2. /\ r \in CallRecord /\ r.held = refresh /\ r.at \in {"token", "reauth", "post"}
      /\ (r.at = "reauth" => refresh = None) /\ (r.at = "post" => refresh # None)
  BY DEF ConsentHolds, TokensTyped, CallRecord
<1> HIDE DEF r
<1>3. caller' \in [Caller -> CallRecord] /\ caller'[c] = r /\ \A d \in Caller \ {c} : caller'[d] = caller[d]
  BY <1>1, <1>2 DEF ConsentHolds, TokensTyped
<1>4. TokensTyped' /\ TokensNamed'
  BY <1>1, <1>2, <1>3 DEF ConsentHolds, TokensTyped, TokensNamed
<1>5. None \notin oauthValid
  BY DEF O!OAuthParameters, ConsentHolds, TokensTyped
<1>6. O!ReauthMeansRevoked'
  BY <1>1, <1>2, <1>3, <1>5 DEF ConsentHolds, O!ReauthMeansRevoked
<1> QED
  BY <1>4, <1>6 DEF ConsentHolds

(* A call that goes on with the token that it holds, and stores that one   *)
(* at most.                                                                *)
LEMMA CallingKeeps ==
  ASSUME ConsentHolds, NEW c \in Caller, O!Post(c) \/ O!StoreAccess(c) \/ O!StoreRefresh(c)
  PROVE  ConsentHolds' /\ (refresh # None => refresh' # None)
<1>1. PICK to \in {"access", "refresh", "token", "reauth", "error"} :
        caller' = [caller EXCEPT ![c].at = to] /\ (to = "reauth" => caller[c].held \notin oauthValid)
  BY DEF O!Post, O!StoreAccess, O!StoreRefresh, O!IsReauth
<1>2. /\ caller' \in [Caller -> CallRecord] /\ caller'[c].at = to /\ caller'[c].held = caller[c].held
      /\ \A d \in Caller \ {c} : caller'[d] = caller[d]
  BY <1>1, CallMoves DEF ConsentHolds
<1>3. UNCHANGED <<visit, oauthValid>> /\ caller[c].at \in {"post", "access", "refresh"}
  BY DEF O!Post, O!StoreAccess, O!StoreRefresh
<1>4. caller[c].held # None /\ caller[c].held \in O!Token \union {None}
  BY <1>3 DEF ConsentHolds, TokensTyped, TokensNamed, CallRecord
<1>5. refresh' \in {refresh, caller[c].held}
  BY DEF O!Post, O!StoreAccess, O!StoreRefresh
<1>6. access' \in O!Token \union {None} /\ oauthStale' \in BOOLEAN
  BY DEF O!Post, O!StoreAccess, O!StoreRefresh, ConsentHolds, TokensTyped, O!Token
<1>7. TokensTyped'
  BY <1>2, <1>3, <1>4, <1>5, <1>6 DEF ConsentHolds, TokensTyped
<1>8. \A d \in Caller : caller'[d].held = caller[d].held
  BY <1>2
<1>9. TokensNamed'
  BY <1>2, <1>3, <1>4, <1>5, <1>8 DEF ConsentHolds, TokensNamed
<1>10. O!ReauthMeansRevoked'
  BY <1>1, <1>2, <1>3 DEF ConsentHolds, O!ReauthMeansRevoked
<1> QED
  BY <1>4, <1>5, <1>7, <1>9, <1>10 DEF ConsentHolds

LEMMA ConsentKeeps ==
  ASSUME O!OAuthParameters, ConsentHolds, [O!Next]_(O!vars)
  PROVE  ConsentHolds' /\ (refresh # None => refresh' # None)
<1>1. CASE UNCHANGED O!vars
  BY <1>1 DEF O!vars, ConsentHolds, TokensTyped, TokensNamed, O!ReauthMeansRevoked
<1>2. ASSUME NEW f \in Flow, O!Begin(f) \/ O!Consent(f) \/ O!Shutdown(f) \/ O!Expire(f)
      PROVE  ConsentHolds' /\ refresh' = refresh
  <2>1. UNCHANGED <<visit, caller, oauthValid, access, refresh, oauthStale>>
    BY <1>2 DEF O!Begin, O!Consent, O!Shutdown, O!Expire
  <2> QED
    BY <2>1 DEF ConsentHolds, TokensTyped, TokensNamed, O!ReauthMeansRevoked
<1>3. ASSUME NEW v \in Visit, O!Visiting(v) PROVE ConsentHolds' /\ (refresh # None => refresh' # None)
  <2>1. ConsentHolds'
    BY <1>3, ExchangeKeeps, VisitingKeeps DEF O!Visiting
  <2>2. refresh' \in {refresh, v} /\ v # None
    BY <1>3 DEF O!Visiting, O!Exchange, O!PersistAccess, O!PersistRefresh, O!Complete, O!Signal, O!Kept, O!OAuthParameters
  <2> QED
    BY <2>1, <2>2
<1>4. ASSUME NEW v \in Visit, NEW f \in Flow, O!Callback(v, f) PROVE ConsentHolds' /\ refresh' = refresh
  BY <1>4, CallbackKeeps DEF O!Callback
<1>5. ASSUME NEW c \in Caller, O!AccessToken(c) PROVE ConsentHolds' /\ refresh' = refresh
  BY <1>5, AccessTokenKeeps DEF O!AccessToken
<1>6. ASSUME NEW c \in Caller, O!Post(c) \/ O!StoreAccess(c) \/ O!StoreRefresh(c)
      PROVE  ConsentHolds' /\ (refresh # None => refresh' # None)
  BY <1>6, CallingKeeps
<1>7. CASE O!GrowStale
  BY <1>7 DEF O!GrowStale, ConsentHolds, TokensTyped, TokensNamed, O!ReauthMeansRevoked
<1>8. ASSUME NEW t \in O!Token, O!Withdraw(t) PROVE ConsentHolds' /\ refresh' = refresh
  BY <1>8 DEF O!Withdraw, ConsentHolds, TokensTyped, TokensNamed, O!ReauthMeansRevoked
<1> QED
  BY <1>1, <1>2, <1>3, <1>4, <1>5, <1>6, <1>7, <1>8 DEF O!Next

(* A capsule that is connected stays so, and is asked to connect again     *)
(* only when its consent is withdrawn or was never given.                  *)
THEOREM CapsulesStayConnected ==
  ASSUME O!OAuthParameters
  PROVE  O!Spec => []O!OAuthTypeOK /\ []O!ReauthMeansRevoked /\ O!StaysConnected
<1>1. O!Init => FlowsTyped /\ ConsentHolds
  <2> SUFFICES ASSUME O!Init PROVE FlowsTyped /\ ConsentHolds
    OBVIOUS
  <2>1. [of |-> None, new |-> FALSE, at |-> "idle"] \in VisitRecord /\ [held |-> None, at |-> "idle"] \in CallRecord
    BY DEF VisitRecord, CallRecord
  <2>2. FlowsTyped
    BY DEF O!Init, FlowsTyped
  <2>3. TokensTyped
    BY <2>1 DEF O!Init, TokensTyped
  <2>4. TokensNamed /\ O!ReauthMeansRevoked
    BY DEF O!Init, TokensNamed, O!ReauthMeansRevoked, O!OAuthParameters
  <2> QED
    BY <2>2, <2>3, <2>4 DEF ConsentHolds
<1>2. FlowsTyped /\ ConsentHolds /\ [O!Next]_(O!vars) => (FlowsTyped /\ ConsentHolds)'
  BY FlowsKeep, ConsentKeeps
<1>3. ConsentHolds /\ [O!Next]_(O!vars) => [refresh # None => refresh' # None]_(O!vars)
  BY ConsentKeeps
<1>4. FlowsTyped /\ ConsentHolds => O!OAuthTypeOK /\ O!ReauthMeansRevoked
  <2> SUFFICES ASSUME FlowsTyped, ConsentHolds PROVE O!OAuthTypeOK /\ O!ReauthMeansRevoked
    OBVIOUS
  <2>1. oauthValid \subseteq O!Token
    BY DEF ConsentHolds, TokensTyped, O!Token
  <2> QED
    BY <2>1 DEF FlowsTyped, ConsentHolds, TokensTyped, VisitRecord, CallRecord, O!OAuthTypeOK
<1> QED
  BY <1>1, <1>2, <1>3, <1>4, PTL DEF O!Spec, O!StaysConnected

-----------------------------------------------------------------------------
(***************************************************************************)
(* Gmail's consent and calls.  The inductive invariant: what is stored and *)
(* what a call holds was issued; a call that has refreshed because of a    *)
(* 401 is at its first attempt, and one that goes on is at its third at    *)
(* most.                                                                   *)
(***************************************************************************)
WaiterRecord == [of : Flow \union {None}, at : {"idle", "wait", "exchange", "save", "close", "ok", "failed"},
                 ok : BOOLEAN]
ApiRecord == [held : G!Issued \union {None}, new : BOOLEAN, attempt : 0 .. 3,
              at : {"idle", "load", "refresh", "save", "request", "ok", "failed"}, again : BOOLEAN]

ConsentTyped ==
  /\ pendingAuth \in Flow \union {None}
  /\ gmailServer \in [Flow -> {"none", "serving", "closed"}]
  /\ codeCh \in [Flow -> {"empty", "code", "error"}]
  /\ gmailCode \subseteq Flow /\ waiter \in [Waiter -> WaiterRecord]

TokenIssued ==
  /\ token \in G!Issued \union {None} /\ gmailStale \in BOOLEAN /\ gmailValid \subseteq G!Issued
  /\ api \in [Caller -> ApiRecord]
  /\ \A c \in Caller :
       /\ api[c].at \in {"idle", "load", "refresh", "save", "request"} => api[c].attempt <= 2
       /\ api[c].at \in {"refresh", "save"} /\ api[c].again => api[c].attempt = 0

LEMMA WaiterMoves ==
  ASSUME ConsentTyped, NEW w \in Waiter, NEW to \in {"wait", "exchange", "save", "close", "ok", "failed"},
         waiter' = [waiter EXCEPT ![w].at = to]
  PROVE  waiter' \in [Waiter -> WaiterRecord]
<1> DEFINE r == [waiter[w] EXCEPT !.at = to]
<1>1. r \in WaiterRecord /\ waiter' = [waiter EXCEPT ![w] = r]
  BY DEF ConsentTyped, WaiterRecord
<1> HIDE DEF r
<1> QED
  BY <1>1 DEF ConsentTyped

LEMMA BeginKeeps ==
  ASSUME ConsentTyped, TokenIssued, NEW f \in Flow, G!BeginAuth(f)
  PROVE  ConsentTyped' /\ TokenIssued'
<1>1. UNCHANGED <<waiter, token, gmailStale, gmailValid, api, codeCh>> /\ pendingAuth' = f
  BY DEF G!BeginAuth, G!Consenting
<1>2. gmailServer' \in [Flow -> {"none", "serving", "closed"}] /\ gmailCode' \subseteq Flow
  BY DEF G!BeginAuth, ConsentTyped
<1> QED
  BY <1>1, <1>2 DEF ConsentTyped, TokenIssued

LEMMA GmailCallbackKeeps ==
  ASSUME ConsentTyped, TokenIssued, NEW f \in Flow, NEW result \in {"code", "error"}, G!HandleCallback(f, result)
  PROVE  ConsentTyped' /\ TokenIssued'
<1>1. UNCHANGED <<waiter, token, gmailStale, gmailValid, api, pendingAuth, gmailServer, gmailCode>>
  BY DEF G!HandleCallback, G!Consenting
<1>2. codeCh' \in [Flow -> {"empty", "code", "error"}]
  BY DEF G!HandleCallback, ConsentTyped
<1> QED
  BY <1>1, <1>2 DEF ConsentTyped, TokenIssued

LEMMA CloseKeeps ==
  ASSUME ConsentTyped, TokenIssued, G!Close
  PROVE  ConsentTyped' /\ TokenIssued'
<1>1. UNCHANGED <<waiter, token, gmailStale, gmailValid, api, codeCh, gmailCode>> /\ pendingAuth' = None
  BY DEF G!Close, G!ShutPending, G!Consenting
<1>2. gmailServer' \in [Flow -> {"none", "serving", "closed"}]
  BY DEF G!Close, G!ShutPending, ConsentTyped
<1> QED
  BY <1>1, <1>2 DEF ConsentTyped, TokenIssued

LEMMA ConsentingKeeps ==
  ASSUME ConsentTyped, TokenIssued,
         \/ \E f \in Flow : G!BeginAuth(f) \/ \E result \in {"code", "error"} : G!HandleCallback(f, result)
         \/ G!Close
  PROVE  ConsentTyped' /\ TokenIssued'
BY BeginKeeps, GmailCallbackKeeps, CloseKeeps

LEMMA WaitingKeeps ==
  ASSUME ConsentTyped, TokenIssued, NEW w \in Waiter, G!CompleteAuth(w) \/ G!Waiting(w)
  PROVE  ConsentTyped' /\ TokenIssued'
<1>1. CASE G!CompleteAuth(w)
  <2> DEFINE r == [waiter[w] EXCEPT !.of = pendingAuth, !.at = IF pendingAuth = None THEN "close" ELSE "wait"]
  <2>1. r \in WaiterRecord
    BY DEF ConsentTyped, WaiterRecord
  <2>2. waiter' = [waiter EXCEPT ![w] = r]
    BY <1>1 DEF G!CompleteAuth, ConsentTyped
  <2> HIDE DEF r
  <2>3. waiter' \in [Waiter -> WaiterRecord]
    BY <2>1, <2>2 DEF ConsentTyped
  <2> QED
    BY <1>1, <2>3 DEF G!CompleteAuth, G!Consenting, ConsentTyped, TokenIssued
<1>2. CASE G!Receive(w)
  <2>1. waiter' \in [Waiter -> WaiterRecord]
    BY <1>2, WaiterMoves DEF G!Receive
  <2>2. codeCh' \in [Flow -> {"empty", "code", "error"}]
    BY <1>2 DEF G!Receive, ConsentTyped
  <2> QED
    BY <1>2, <2>1, <2>2 DEF G!Receive, G!Consenting, ConsentTyped, TokenIssued
<1>3. CASE G!TimeOut(w)
  <2>1. waiter' \in [Waiter -> WaiterRecord]
    BY <1>3, WaiterMoves DEF G!TimeOut
  <2> QED
    BY <1>3, <2>1 DEF G!TimeOut, G!Consenting, ConsentTyped, TokenIssued
<1>4. CASE G!ExchangeCode(w)
  <2>1. waiter' \in [Waiter -> WaiterRecord]
    BY <1>4, WaiterMoves DEF G!ExchangeCode
  <2>2. w \in G!Issued
    BY DEF G!Issued
  <2>3. ConsentTyped'
    BY <1>4, <2>1 DEF G!ExchangeCode, ConsentTyped
  <2>4. TokenIssued'
    BY <1>4, <2>2 DEF G!ExchangeCode, TokenIssued
  <2> QED
    BY <2>3, <2>4
<1>5. CASE G!SaveToken(w)
  <2>1. waiter' \in [Waiter -> WaiterRecord]
    <3>1. CASE waiter' = [waiter EXCEPT ![w].at = "close"]
      BY <3>1, WaiterMoves
    <3>2. CASE waiter' = [waiter EXCEPT ![w].at = "close", ![w].ok = TRUE]
      <4> DEFINE r == [waiter[w] EXCEPT !.at = "close", !.ok = TRUE]
      <4>1. r \in WaiterRecord /\ waiter' = [waiter EXCEPT ![w] = r]
        BY <3>2 DEF ConsentTyped, WaiterRecord
      <4> HIDE DEF r
      <4> QED
        BY <4>1 DEF ConsentTyped
    <3> QED
      BY <1>5, <3>1, <3>2 DEF G!SaveToken
  <2>2. w \in G!Issued
    BY DEF G!Issued
  <2>3. ConsentTyped'
    BY <1>5, <2>1 DEF G!SaveToken, ConsentTyped
  <2>4. TokenIssued'
    BY <1>5, <2>2 DEF G!SaveToken, TokenIssued
  <2> QED
    BY <2>3, <2>4
<1>6. CASE G!EndAuth(w)
  <2>1. waiter' \in [Waiter -> WaiterRecord]
    BY <1>6, WaiterMoves DEF G!EndAuth
  <2>2. gmailServer' \in [Flow -> {"none", "serving", "closed"}] /\ pendingAuth' \in Flow \union {None}
    BY <1>6 DEF G!EndAuth, G!ShutPending, ConsentTyped
  <2> QED
    BY <1>6, <2>1, <2>2 DEF G!EndAuth, G!Consenting, ConsentTyped, TokenIssued
<1> QED
  BY <1>1, <1>2, <1>3, <1>4, <1>5, <1>6 DEF G!Waiting

-----------------------------------------------------------------------------
(* What a step of a call may leave behind.                                 *)
Goes(r) ==
  /\ r \in ApiRecord
  /\ r.at \in {"idle", "load", "refresh", "save", "request"} => r.attempt <= 2
  /\ r.at \in {"refresh", "save"} /\ r.again => r.attempt = 0

LEMMA ApiKeeps ==
  ASSUME TokenIssued, NEW c \in Caller, NEW r, Goes(r), api' = [api EXCEPT ![c] = r],
         token' \in G!Issued \union {None}, gmailStale' \in BOOLEAN, gmailValid' \subseteq G!Issued
  PROVE  TokenIssued'
BY DEF TokenIssued, Goes

(* A call that goes nowhere but to its end.                                *)
LEMMA EndsThere ==
  ASSUME TokenIssued, NEW c \in Caller, NEW to \in {"ok", "failed"}, G!At(c, to), UNCHANGED <<token, gmailStale, gmailValid>>
  PROVE  TokenIssued'
<1> DEFINE r == [api[c] EXCEPT !.at = to]
<1>1. api' = [api EXCEPT ![c] = r] /\ r \in ApiRecord /\ r.at = to
  BY DEF G!At, TokenIssued, ApiRecord
<1>2. Goes(r)
  BY <1>1 DEF Goes
<1> HIDE DEF r
<1> QED
  BY <1>1, <1>2, ApiKeeps DEF TokenIssued

LEMMA LoadKeeps == ASSUME TokenIssued, NEW c \in Caller, G!Load(c) PROVE TokenIssued'
<1> DEFINE r == [api[c] EXCEPT !.held = token, !.again = FALSE,
                               !.at = IF token = None THEN "failed" ELSE IF gmailStale THEN "refresh" ELSE "request"]
<1>1. api[c] \in ApiRecord /\ api[c].attempt <= 2 /\ UNCHANGED <<token, gmailStale, gmailValid>>
  BY DEF G!Load, TokenIssued
<1>2. api' = [api EXCEPT ![c] = r]
  BY DEF G!Load, TokenIssued
<1>3. r \in ApiRecord /\ r.attempt = api[c].attempt /\ r.again = FALSE
  BY <1>1 DEF ApiRecord, TokenIssued
<1> HIDE DEF r
<1>4. Goes(r)
  BY <1>1, <1>3 DEF Goes
<1> QED
  BY <1>1, <1>2, <1>4, ApiKeeps DEF TokenIssued

LEMMA RefreshKeeps == ASSUME TokenIssued, NEW c \in Caller, G!RefreshToken(c) PROVE TokenIssued'
<1>1. UNCHANGED <<token, gmailStale>> /\ api[c].at = "refresh" /\ c \in G!Issued
  BY DEF G!RefreshToken, G!Issued
<1>2. CASE G!At(c, "failed") /\ UNCHANGED gmailValid
  BY <1>1, <1>2, EndsThere
<1>3. ASSUME NEW new \in BOOLEAN, api' = [api EXCEPT ![c].at = "save", ![c].new = new],
             gmailValid' = gmailValid \union (IF new THEN {c} ELSE {})
      PROVE  TokenIssued'
  <2> DEFINE r == [api[c] EXCEPT !.at = "save", !.new = new]
  <2>1. api' = [api EXCEPT ![c] = r]
    BY <1>3 DEF TokenIssued
  <2>2. r \in ApiRecord /\ r.at = "save" /\ r.attempt = api[c].attempt /\ r.again = api[c].again
    BY DEF TokenIssued, ApiRecord
  <2> HIDE DEF r
  <2>3. Goes(r)
    BY <1>1, <2>2 DEF Goes, TokenIssued
  <2>4. gmailValid' \subseteq G!Issued
    BY <1>1, <1>3 DEF TokenIssued
  <2> QED
    BY <1>1, <2>1, <2>3, <2>4, ApiKeeps DEF TokenIssued
<1> QED
  BY <1>2, <1>3 DEF G!RefreshToken

LEMMA SaveKeeps == ASSUME TokenIssued, NEW c \in Caller, G!SaveRefreshed(c) PROVE TokenIssued'
<1>1. gmailValid' = gmailValid /\ api[c].at = "save" /\ api[c] \in ApiRecord
  BY DEF G!SaveRefreshed, TokenIssued
<1>2. G!Kept(c) \in G!Issued \union {None}
  BY <1>1 DEF G!Kept, G!Issued, ApiRecord
<1>3. CASE G!At(c, "failed") /\ UNCHANGED <<token, gmailStale>>
  BY <1>1, <1>3, EndsThere
<1>4. CASE /\ token' = G!Kept(c) /\ gmailStale' = FALSE
           /\ api' = [api EXCEPT ![c].at = IF api[c].again THEN "load" ELSE "request", ![c].held = G!Kept(c),
                                 ![c].attempt = IF api[c].again THEN @ + 1 ELSE @]
  <2> DEFINE n == IF api[c].again THEN api[c].attempt + 1 ELSE api[c].attempt
             r == [api[c] EXCEPT !.at = IF api[c].again THEN "load" ELSE "request", !.held = G!Kept(c), !.attempt = n]
  <2>1. n \in 0 .. 3 /\ n <= 2
    BY <1>1 DEF TokenIssued, ApiRecord
  <2>2. api' = [api EXCEPT ![c] = r]
    BY <1>4 DEF TokenIssued
  <2> HIDE DEF n
  <2>3. r \in ApiRecord /\ r.at \in {"load", "request"} /\ r.attempt = n
    BY <1>1, <1>2, <2>1 DEF ApiRecord
  <2> HIDE DEF r
  <2>4. Goes(r)
    BY <2>1, <2>3 DEF Goes
  <2> QED
    BY <1>1, <1>2, <1>4, <2>2, <2>4, ApiKeeps DEF TokenIssued
<1> QED
  BY <1>3, <1>4 DEF G!SaveRefreshed

LEMMA RequestKeepsToken == ASSUME TokenIssued, NEW c \in Caller, G!Request(c) PROVE TokenIssued'
<1>1. UNCHANGED <<token, gmailStale, gmailValid>> /\ api[c].at = "request" /\ api[c] \in ApiRecord
      /\ api[c].attempt \in 0 .. 3 /\ api[c].attempt <= 2
  BY DEF G!Request, TokenIssued, ApiRecord
<1>2. CASE G!At(c, "ok") \/ G!At(c, "failed")
  BY <1>1, <1>2, EndsThere
<1>3. CASE api[c].attempt = 0 /\ api' = [api EXCEPT ![c].at = "refresh", ![c].again = TRUE]
  <2> DEFINE r == [api[c] EXCEPT !.at = "refresh", !.again = TRUE]
  <2>1. api' = [api EXCEPT ![c] = r]
    BY <1>3 DEF TokenIssued
  <2>2. r \in ApiRecord /\ r.attempt = 0
    BY <1>1, <1>3 DEF ApiRecord
  <2> HIDE DEF r
  <2> QED
    BY <1>1, <2>1, <2>2, ApiKeeps DEF Goes, TokenIssued
<1>4. CASE api' = [api EXCEPT ![c].attempt = @ + 1, ![c].at = IF api[c].attempt = 2 THEN "failed" ELSE "load"]
  <2> DEFINE n == api[c].attempt + 1
             r == [api[c] EXCEPT !.attempt = n, !.at = IF api[c].attempt = 2 THEN "failed" ELSE "load"]
  <2>1. n \in 0 .. 3 /\ (api[c].attempt # 2 => n <= 2)
    BY <1>1
  <2>2. api' = [api EXCEPT ![c] = r]
    BY <1>4 DEF TokenIssued
  <2> HIDE DEF n
  <2>3. r \in ApiRecord /\ r.attempt = n /\ r.at = IF api[c].attempt = 2 THEN "failed" ELSE "load"
    BY <1>1, <2>1 DEF ApiRecord
  <2> HIDE DEF r
  <2>4. Goes(r)
    BY <2>1, <2>3 DEF Goes
  <2> QED
    BY <1>1, <2>2, <2>4, ApiKeeps DEF TokenIssued
<1> QED
  BY <1>2, <1>3, <1>4 DEF G!Request

LEMMA CallsOfApiKeep ==
  ASSUME ConsentTyped, TokenIssued, NEW c \in Caller, G!Load(c) \/ G!Asking(c)
  PROVE  ConsentTyped' /\ TokenIssued'
<1>1. G!Calling
  BY DEF G!Load, G!Asking, G!RefreshToken, G!SaveRefreshed, G!Request
<1>2. TokenIssued'
  BY LoadKeeps, RefreshKeeps, SaveKeeps, RequestKeepsToken DEF G!Asking
<1> QED
  BY <1>1, <1>2 DEF G!Calling, ConsentTyped

LEMMA GmailNextKeeps ==
  ASSUME ConsentTyped, TokenIssued, [G!GmailAuthNext]_(G!gmailAuthVars)
  PROVE  ConsentTyped' /\ TokenIssued'
<1>1. CASE UNCHANGED G!gmailAuthVars
  BY <1>1 DEF G!gmailAuthVars, ConsentTyped, TokenIssued
<1>2. CASE G!GrowStale \/ \E t \in G!Issued : G!Withdraw(t)
  BY <1>2 DEF G!GrowStale, G!Withdraw, G!Calling, ConsentTyped, TokenIssued
<1> QED
  BY <1>1, <1>2, ConsentingKeeps, WaitingKeeps, CallsOfApiKeep DEF G!GmailAuthNext

(* No refresh and no consent, in whatever order they are saved, loses the  *)
(* refresh token of the Gmail source.                                      *)
THEOREM GmailTokenKept ==
  ASSUME G!GmailAuthParameters
  PROVE  G!GmailAuthInit /\ [][G!GmailAuthNext]_(G!gmailAuthVars) => []G!GmailAuthTypeOK /\ []G!RefreshKept
<1>1. G!GmailAuthInit => ConsentTyped /\ TokenIssued
  <2> SUFFICES ASSUME G!GmailAuthInit PROVE ConsentTyped /\ TokenIssued
    OBVIOUS
  <2> DEFINE w0 == [of |-> None, at |-> "idle", ok |-> FALSE]
             a0 == [held |-> None, new |-> FALSE, attempt |-> 0, at |-> "idle", again |-> FALSE]
  <2>1. w0 \in WaiterRecord /\ a0 \in ApiRecord /\ a0.attempt = 0 /\ a0.again = FALSE
    BY DEF WaiterRecord, ApiRecord
  <2>2. waiter = [w \in Waiter |-> w0] /\ api = [c \in Caller |-> a0]
    BY DEF G!GmailAuthInit
  <2> HIDE DEF w0, a0
  <2>3. waiter \in [Waiter -> WaiterRecord] /\ api \in [Caller -> ApiRecord] /\ \A c \in Caller : api[c] = a0
    BY <2>1, <2>2
  <2>4. /\ gmailServer \in [Flow -> {"none", "serving", "closed"}]
        /\ codeCh \in [Flow -> {"empty", "code", "error"}]
    BY DEF G!GmailAuthInit
  <2>5. ConsentTyped
    BY <2>3, <2>4 DEF G!GmailAuthInit, ConsentTyped
  <2>6. token = None /\ gmailStale = FALSE /\ gmailValid = {}
    BY DEF G!GmailAuthInit
  <2>7. \A c \in Caller : api[c].attempt <= 2 /\ api[c].attempt = 0
    BY <2>1, <2>3
  <2>8. TokenIssued
    BY <2>3, <2>6, <2>7, Zenon DEF TokenIssued
  <2> QED
    BY <2>5, <2>8
<1>2. ConsentTyped /\ TokenIssued /\ [G!GmailAuthNext]_(G!gmailAuthVars) => (ConsentTyped /\ TokenIssued)'
  BY GmailNextKeeps
<1>3. ConsentTyped /\ TokenIssued => G!GmailAuthTypeOK /\ G!RefreshKept
  <2> SUFFICES ASSUME ConsentTyped, TokenIssued PROVE G!GmailAuthTypeOK /\ G!RefreshKept
    OBVIOUS
  <2>1. ApiRecord \subseteq [held : G!Issued \union {None, "lost"}, new : BOOLEAN, attempt : 0 .. 3,
              at : {"idle", "load", "refresh", "save", "request", "ok", "failed"}, again : BOOLEAN]
    BY DEF ApiRecord
  <2>2. api \in [Caller -> [held : G!Issued \union {None, "lost"}, new : BOOLEAN, attempt : 0 .. 3,
              at : {"idle", "load", "refresh", "save", "request", "ok", "failed"}, again : BOOLEAN]]
    BY <2>1 DEF TokenIssued
  <2> QED
    BY <2>2 DEF ConsentTyped, TokenIssued, WaiterRecord, G!GmailAuthTypeOK, G!RefreshKept, G!GmailAuthParameters
<1> QED
  BY <1>1, <1>2, <1>3, PTL

-----------------------------------------------------------------------------
(***************************************************************************)
(* A model's streams.  The inductive invariant: while the answer is read,  *)
(* what was delivered is text, and of the chunks of a line only the last   *)
(* one is not; whoever sends a mark of the end or an error stops reading.  *)
(***************************************************************************)
Chunk == {"text", "done", "error"}
Delivered(s) == s.got \o s.chan
Texts(q) == \A i \in DOMAIN q : q[i] = "text"
FinalIsLast(q) == \A i \in DOMAIN q : q[i] # "text" => i = Len(q)
LineOf == {<<>>, <<"text">>, <<"done">>, <<"error">>, <<"text", "done">>}

Stream == [at : {"none", "reading", "ended", "closed"}, left : Seq(M!Line), whole : BOOLEAN, next : LineOf,
           chan : Seq(Chunk), got : Seq(Chunk), reader : {"reading", "cancelled", "gone"}, body : BOOLEAN]
Asked == [at : {"idle", "send", "ok", "error", "panic"}, op : {"none", "generate", "stream", "embed"}]

StreamInv(s) ==
  /\ Len(s.chan) <= Room
  /\ FinalIsLast(Delivered(s))
  /\ s.at = "reading" => Texts(Delivered(s))

ModelInv ==
  /\ inited \in BOOLEAN /\ client \in BOOLEAN
  /\ request \in [Caller -> Asked] /\ stream \in [Caller -> Stream]
  /\ \A c \in Caller : StreamInv(stream[c])

(* What is appended to texts is last, and texts before a chunk of text are *)
(* texts with it.                                                          *)
LEMMA TextsThenOne ==
  ASSUME NEW q \in Seq(Chunk), NEW x \in Chunk, Texts(q)
  PROVE  FinalIsLast(Append(q, x)) /\ (x = "text" => Texts(Append(q, x)))
<1>1. Len(q) \in Nat /\ DOMAIN q = 1 .. Len(q)
  BY LenProperties
<1>2. /\ Append(q, x) \in Seq(Chunk) /\ Len(Append(q, x)) = Len(q) + 1
      /\ \A i \in 1 .. Len(q) : Append(q, x)[i] = q[i]
      /\ Append(q, x)[Len(q) + 1] = x
  BY AppendProperties
<1>3. DOMAIN Append(q, x) = 1 .. Len(q) + 1
  BY <1>2, LenProperties
<1>4. ASSUME NEW i \in 1 .. Len(q) + 1, i # Len(q) + 1 PROVE i \in 1 .. Len(q) /\ Append(q, x)[i] = "text"
  <2>1. i \in 1 .. Len(q)
    BY <1>1, <1>4
  <2> QED
    BY <1>1, <1>2, <2>1 DEF Texts
<1> QED
  BY <1>2, <1>3, <1>4 DEF Texts, FinalIsLast

(* To send a chunk appends it to what is delivered; to receive one leaves  *)
(* that as it is.                                                          *)
LEMMA SendAppends ==
  ASSUME NEW g \in Seq(Chunk), NEW q \in Seq(Chunk), NEW x \in Chunk
  PROVE  g \o Append(q, x) = Append(g \o q, x)
<1>1. <<x>> \in Seq(Chunk) /\ g \o q \in Seq(Chunk)
  BY ConcatProperties
<1>2. Append(q, x) = q \o <<x>> /\ Append(g \o q, x) = (g \o q) \o <<x>>
  BY <1>1, AppendIsConcat
<1> QED
  BY <1>1, <1>2, ConcatAssociative

LEMMA ReceiveMoves ==
  ASSUME NEW g \in Seq(Chunk), NEW q \in Seq(Chunk), q # <<>>
  PROVE  Append(g, Head(q)) \o Tail(q) = g \o q
<1> DEFINE x == Head(q)
           t == Tail(q)
<1>1. x \in Chunk /\ t \in Seq(Chunk) /\ Len(t) = Len(q) - 1 /\ \A i \in 1 .. Len(t) : t[i] = q[i + 1]
  BY HeadTailProperties
<1>2. Len(q) \in Nat \ {0} /\ x = q[1]
  BY EmptySeq, LenProperties
<1> HIDE DEF x, t
<1>3. /\ <<x>> \in Seq(Chunk) /\ <<x>> \o t \in Seq(Chunk) /\ Len(<<x>> \o t) = 1 + Len(t)
      /\ \A i \in 1 .. 1 + Len(t) : (<<x>> \o t)[i] = IF i <= 1 THEN <<x>>[i] ELSE t[i - 1]
  <2>1. <<x>> \in Seq(Chunk) /\ Len(<<x>>) = 1
    BY <1>1
  <2> QED
    BY <1>1, <2>1, ConcatProperties
<1>4. ASSUME NEW i \in 1 .. Len(q) PROVE (<<x>> \o t)[i] = q[i]
  <2>1. CASE i = 1
    BY <1>1, <1>2, <1>3, <2>1
  <2>2. CASE i # 1
    <3>1. i - 1 \in 1 .. Len(t) /\ (i - 1) + 1 = i /\ i \in 1 .. 1 + Len(t) /\ ~ (i <= 1)
      BY <1>1, <1>2, <2>2
    <3> QED
      BY <1>1, <1>3, <3>1
  <2> QED
    BY <2>1, <2>2
<1>5. Len(<<x>> \o t) = Len(q)
  BY <1>1, <1>2, <1>3
<1>6. <<x>> \o t = q
  BY <1>3, <1>4, <1>5, SeqEqual
<1>7. Append(g, x) = g \o <<x>>
  BY <1>1, AppendIsConcat
<1>8. (g \o <<x>>) \o t = g \o (<<x>> \o t)
  BY <1>1, <1>3, ConcatAssociative
<1> QED
  BY <1>6, <1>7, <1>8 DEF x, t

-----------------------------------------------------------------------------
(* A step that leaves what was delivered, and does not begin to read.      *)
LEMMA StreamGoesOn ==
  ASSUME ModelInv, NEW c \in Caller, NEW s, M!Step(c, s), s \in Stream, StreamInv(s)
  PROVE  ModelInv'
BY DEF ModelInv, M!Step

LEMMA ScanKeeps == ASSUME ModelInv, NEW c \in Caller, M!Scan(c) PROVE ModelInv'
<1> DEFINE s == stream[c]
<1>1. s \in Stream /\ StreamInv(s) /\ s.at = "reading" /\ s.left # <<>>
  BY DEF ModelInv, M!Scan
<1>2. M!Chunks(Head(s.left)) \in LineOf
  BY DEF M!Chunks, M!OpenAIChunks, M!AnthropicChunks, M!OllamaChunks, M!DummyChunks, LineOf
<1>3. Tail(s.left) \in Seq(M!Line)
  BY <1>1, HeadTailProperties DEF Stream
<1> DEFINE t == IF s.reader = "cancelled" THEN [s EXCEPT !.at = "ended"]
                ELSE [s EXCEPT !.next = M!Chunks(Head(s.left)), !.left = Tail(s.left)]
<1>4. M!Step(c, t)
  BY DEF M!Scan
<1>5. t \in Stream /\ t.chan = s.chan /\ t.got = s.got /\ (t.at = "reading" => s.at = "reading")
  BY <1>1, <1>2, <1>3 DEF Stream
<1> HIDE DEF s, t
<1>6. StreamInv(t)
  BY <1>1, <1>5 DEF StreamInv, Delivered
<1> QED
  BY <1>4, <1>5, <1>6, StreamGoesOn

LEMMA EndKeeps == ASSUME ModelInv, NEW c \in Caller, M!EndOfBody(c) \/ M!CloseStream(c) \/ M!LeaveStream(c) PROVE ModelInv'
<1>1. PICK t : M!Step(c, t) /\ t \in Stream /\ t.chan = stream[c].chan /\ t.got = stream[c].got
               /\ (t.at = "reading" => stream[c].at = "reading")
  <2>1. stream[c] \in Stream
    BY DEF ModelInv
  <2>2. CASE M!EndOfBody(c)
    <3> DEFINE t == IF kind = "dummy" THEN [stream[c] EXCEPT !.next = <<"done">>]
                    ELSE IF stream[c].whole THEN [stream[c] EXCEPT !.at = "ended"]
                    ELSE [stream[c] EXCEPT !.next = <<"error">>]
    <3>1. M!Step(c, t)
      BY <2>2 DEF M!EndOfBody
    <3>2. t \in Stream /\ t.chan = stream[c].chan /\ t.got = stream[c].got /\ (t.at = "reading" => stream[c].at = "reading")
      BY <2>1 DEF Stream, LineOf
    <3> HIDE DEF t
    <3> QED
      BY <3>1, <3>2
  <2>3. CASE M!CloseStream(c)
    <3> DEFINE t == [stream[c] EXCEPT !.at = "closed", !.body = FALSE]
    <3>1. M!Step(c, t)
      BY <2>3 DEF M!CloseStream
    <3>2. t \in Stream /\ t.chan = stream[c].chan /\ t.got = stream[c].got /\ t.at = "closed"
      BY <2>1 DEF Stream
    <3> HIDE DEF t
    <3> QED
      BY <3>1, <3>2
  <2>4. CASE M!LeaveStream(c)
    <3>1. PICK to \in {"cancelled", "gone"} : M!Step(c, [stream[c] EXCEPT !.reader = to])
      BY <2>4 DEF M!LeaveStream
    <3> DEFINE t == [stream[c] EXCEPT !.reader = to]
    <3>2. t \in Stream /\ t.chan = stream[c].chan /\ t.got = stream[c].got /\ t.at = stream[c].at
      BY <2>1 DEF Stream
    <3>3. M!Step(c, t)
      BY <3>1
    <3> HIDE DEF t
    <3> QED
      BY <3>2, <3>3
  <2> QED
    BY <2>2, <2>3, <2>4
<1>2. StreamInv(t)
  BY <1>1 DEF ModelInv, StreamInv, Delivered
<1> QED
  BY <1>1, <1>2, StreamGoesOn

(* The chunk that is sent is the last one that is not text, or text.       *)
LEMMA EmitKeeps == ASSUME M!ModelParameters, ModelInv, NEW c \in Caller, M!Emit(c) PROVE ModelInv'
<1> DEFINE s == stream[c]
<1>1. s \in Stream /\ StreamInv(s) /\ s.at = "reading" /\ s.next # <<>> /\ s.next \in LineOf
  BY DEF ModelInv, M!Emit, Stream
<1>2. Head(s.next) \in Chunk /\ Tail(s.next) \in LineOf
  <2>1. s.next \in {<<"text">>, <<"done">>, <<"error">>, <<"text", "done">>}
    BY <1>1 DEF LineOf
  <2>2. Tail(<<"text">>) = <<>> /\ Tail(<<"done">>) = <<>> /\ Tail(<<"error">>) = <<>>
        /\ Tail(<<"text", "done">>) = <<"done">>
    OBVIOUS
  <2>3. Head(<<"text">>) = "text" /\ Head(<<"done">>) = "done" /\ Head(<<"error">>) = "error"
        /\ Head(<<"text", "done">>) = "text"
    OBVIOUS
  <2> QED
    BY <2>1, <2>2, <2>3 DEF LineOf, Chunk
<1> DEFINE t1 == [s EXCEPT !.chan = Append(@, Head(s.next)), !.next = Tail(@),
                           !.at = IF Head(s.next) \in {"done", "error"} THEN "ended" ELSE @]
           t2 == [s EXCEPT !.at = "ended", !.next = <<>>]
<1>3. (Len(s.chan) < Room /\ M!Step(c, t1)) \/ M!Step(c, t2)
  BY DEF M!Emit
<1>4. s.chan \in Seq(Chunk) /\ s.got \in Seq(Chunk) /\ s.got \o s.chan \in Seq(Chunk)
  BY <1>1, ConcatProperties DEF Stream
<1>5. Append(s.chan, Head(s.next)) \in Seq(Chunk) /\ Len(Append(s.chan, Head(s.next))) = Len(s.chan) + 1 /\ Len(s.chan) \in Nat
  BY <1>2, <1>4, AppendProperties, LenProperties
<1>6. t2 \in Stream /\ t2.chan = s.chan /\ t2.got = s.got /\ t2.at = "ended"
  BY <1>1 DEF Stream, LineOf
<1>7. /\ t1 \in Stream /\ t1.chan = Append(s.chan, Head(s.next)) /\ t1.got = s.got
      /\ t1.at = IF Head(s.next) \in {"done", "error"} THEN "ended" ELSE "reading"
  BY <1>1, <1>2, <1>5 DEF Stream
<1> HIDE DEF s, t1, t2
<1>8. StreamInv(t2)
  BY <1>1, <1>6 DEF StreamInv, Delivered
<1>9. Len(s.chan) < Room => StreamInv(t1)
  <2>0. s.got \o Append(s.chan, Head(s.next)) = Append(s.got \o s.chan, Head(s.next))
    BY <1>2, <1>4, SendAppends
  <2>1. Delivered(t1) = Append(s.got \o s.chan, Head(s.next))
    BY <1>7, <2>0 DEF Delivered
  <2>2. Texts(s.got \o s.chan)
    BY <1>1 DEF StreamInv, Delivered
  <2>3. FinalIsLast(Delivered(t1)) /\ (Head(s.next) = "text" => Texts(Delivered(t1)))
    BY <1>2, <1>4, <2>1, <2>2, TextsThenOne
  <2>4. t1.at = "reading" => Head(s.next) = "text"
    BY <1>2, <1>7 DEF Chunk
  <2>5. Len(s.chan) < Room => Len(t1.chan) <= Room
    BY <1>5, <1>7 DEF M!ModelParameters
  <2> QED
    BY <2>3, <2>4, <2>5 DEF StreamInv
<1> QED
  BY <1>3, <1>6, <1>7, <1>8, <1>9, StreamGoesOn

LEMMA ReceiveKeeps == ASSUME M!ModelParameters, ModelInv, NEW c \in Caller, M!Receive(c) PROVE ModelInv'
<1> DEFINE s == stream[c]
           t == [s EXCEPT !.got = Append(@, Head(s.chan)), !.chan = Tail(@)]
<1>1. s \in Stream /\ StreamInv(s) /\ s.chan # <<>> /\ M!Step(c, t)
  BY DEF ModelInv, M!Receive
<1>2. s.chan \in Seq(Chunk) /\ s.got \in Seq(Chunk)
  BY <1>1 DEF Stream
<1>3. Head(s.chan) \in Chunk /\ Tail(s.chan) \in Seq(Chunk) /\ Len(Tail(s.chan)) = Len(s.chan) - 1 /\ Len(s.chan) \in Nat
  BY <1>1, <1>2, HeadTailProperties, LenProperties
<1>4. Append(s.got, Head(s.chan)) \in Seq(Chunk)
  BY <1>2, <1>3, AppendProperties
<1>5. t \in Stream /\ t.chan = Tail(s.chan) /\ t.got = Append(s.got, Head(s.chan)) /\ t.at = s.at
  BY <1>1, <1>3, <1>4 DEF Stream
<1> HIDE DEF s, t
<1>6. Delivered(t) = Delivered(s)
  BY <1>1, <1>2, <1>5, ReceiveMoves DEF Delivered
<1>7. Len(t.chan) <= Room
  BY <1>1, <1>3, <1>5 DEF StreamInv, M!ModelParameters
<1>8. StreamInv(t)
  BY <1>1, <1>5, <1>6, <1>7 DEF StreamInv
<1> QED
  BY <1>1, <1>5, <1>8, StreamGoesOn

-----------------------------------------------------------------------------
LEMMA NewStream ==
  ASSUME M!ModelParameters, NEW s \in Stream, s.chan = <<>>, s.got = <<>>
  PROVE  StreamInv(s)
<1>1. s.got \o s.chan = <<>>
  BY ConcatEmptySeq, EmptySeq
<1>2. DOMAIN (<<>>) = {} /\ Len(<<>>) = 0
  OBVIOUS
<1> QED
  BY <1>1, <1>2 DEF StreamInv, Delivered, Texts, FinalIsLast, M!ModelParameters

LEMMA NoStreamIs == M!NoStream \in Stream /\ M!NoStream.chan = <<>> /\ M!NoStream.got = <<>>
BY DEF M!NoStream, Stream, LineOf

LEMMA CallKeeps ==
  ASSUME M!ModelParameters, ModelInv, NEW c \in Caller, NEW op \in {"generate", "stream", "embed"}, NEW m, NEW ms,
         M!Call(c, op, m, ms)
  PROVE  ModelInv'
<1> DEFINE r == [op |-> op, at |-> IF inited /\ M!Serves(m, op) /\ M!Encodes(op, ms) THEN "send" ELSE "error"]
<1>1. request' = [request EXCEPT ![c] = r] /\ stream' = [stream EXCEPT ![c] = M!NoStream] /\ UNCHANGED <<inited, client>>
  BY DEF M!Call
<1>2. r \in Asked
  BY DEF Asked
<1> HIDE DEF r
<1>3. StreamInv(M!NoStream) /\ M!NoStream \in Stream
  BY NoStreamIs, NewStream
<1> QED
  BY <1>1, <1>2, <1>3 DEF ModelInv

LEMMA SendKeeps ==
  ASSUME ModelInv, NEW c \in Caller, M!Send(c) \/ M!SendFails(c)
  PROVE  ModelInv'
<1>1. PICK to \in {"panic", "ok", "error"} : request' = [request EXCEPT ![c].at = to]
  BY DEF M!Send, M!SendFails
<1> DEFINE r == [request[c] EXCEPT !.at = to]
<1>2. r \in Asked /\ request' = [request EXCEPT ![c] = r]
  BY <1>1 DEF ModelInv, Asked
<1> HIDE DEF r
<1>3. UNCHANGED <<inited, client, stream>>
  BY DEF M!Send, M!SendFails
<1> QED
  BY <1>2, <1>3 DEF ModelInv

LEMMA StartKeepsStream ==
  ASSUME M!ModelParameters, ModelInv, NEW c \in Caller, M!StartStream(c)
  PROVE  ModelInv'
<1>1. PICK to \in {"panic", "ok"} : request' = [request EXCEPT ![c].at = to]
  BY DEF M!StartStream
<1> DEFINE r == [request[c] EXCEPT !.at = to]
<1>2. r \in Asked /\ request' = [request EXCEPT ![c] = r]
  BY <1>1 DEF ModelInv, Asked
<1> HIDE DEF r
<1>3. UNCHANGED <<inited, client>>
  BY DEF M!StartStream
<1>4. CASE UNCHANGED stream
  BY <1>2, <1>3, <1>4 DEF ModelInv
<1>5. ASSUME NEW lines \in M!Answers, NEW whole \in BOOLEAN,
             stream' = [stream EXCEPT ![c] = [M!NoStream EXCEPT !.at = "reading", !.left = lines, !.whole = whole, !.body = TRUE]]
      PROVE  ModelInv'
  <2> DEFINE s == [M!NoStream EXCEPT !.at = "reading", !.left = lines, !.whole = whole, !.body = TRUE]
  <2>1. lines \in Seq(M!Line)
    <3>1. PICK n \in 0 .. MaxLines : lines \in [1 .. n -> M!Line]
      BY DEF M!Answers
    <3> QED
      BY <3>1, SeqDef
  <2>2. s \in Stream /\ s.chan = <<>> /\ s.got = <<>>
    BY <2>1, NoStreamIs DEF Stream
  <2>3. stream' = [stream EXCEPT ![c] = s]
    BY <1>5
  <2> HIDE DEF s
  <2>4. StreamInv(s)
    BY <2>2, NewStream
  <2> QED
    BY <1>2, <1>3, <2>2, <2>3, <2>4 DEF ModelInv
<1> QED
  BY <1>4, <1>5 DEF M!StartStream

LEMMA ModelNextKeeps ==
  ASSUME M!ModelParameters, ModelInv, [M!ModelNext]_(M!modelVars)
  PROVE  ModelInv'
<1>1. CASE UNCHANGED M!modelVars
  BY <1>1 DEF M!modelVars, ModelInv
<1>2. CASE M!Open \/ M!CloseAdapter
  <2>1. UNCHANGED <<request, stream>>
    BY <1>2 DEF M!Open, M!CloseAdapter
  <2>2. inited' \in BOOLEAN /\ client' \in BOOLEAN
    <3>1. CASE M!Open
      <4>1. inited' = TRUE /\ client' = (kind \notin {"dummy", "none"})
        BY <3>1 DEF M!Open
      <4>2. (kind \notin {"dummy", "none"}) \in BOOLEAN
        BY Zenon
      <4> QED
        BY <4>1, <4>2, Zenon
    <3>2. CASE M!CloseAdapter
      <4>1. inited' = (kind \in {"dummy", "none"}) /\ client' = (client /\ kind # "openai")
        BY <3>2 DEF M!CloseAdapter
      <4>2. ((kind \in {"dummy", "none"}) = TRUE) \/ ((kind \in {"dummy", "none"}) = FALSE)
        OBVIOUS
      <4>3. (client /\ kind # "openai") \in BOOLEAN
        BY Zenon
      <4> QED
        BY <4>1, <4>2, <4>3, Zenon
    <3> QED
      BY <1>2, <3>1, <3>2
  <2> QED
    BY <2>1, <2>2 DEF ModelInv
<1>3. ASSUME NEW c \in Caller, NEW op \in {"generate", "stream", "embed"}, NEW m, NEW ms, M!Call(c, op, m, ms)
      PROVE  ModelInv'
  BY <1>3, CallKeeps
<1>4. ASSUME NEW c \in Caller, M!Send(c) \/ M!SendFails(c) \/ M!StartStream(c) \/ M!Goroutine(c) \/ M!Receive(c)
                               \/ M!LeaveStream(c)
      PROVE  ModelInv'
  BY <1>4, SendKeeps, StartKeepsStream, ScanKeeps, EndKeeps, EmitKeeps, ReceiveKeeps DEF M!Goroutine
<1> QED
  BY <1>1, <1>2, <1>3, <1>4 DEF M!ModelNext

(* Nothing comes on a stream after its end, whichever the provider, however*)
(* long its answer, and wherever the reader or the connection breaks off.  *)
THEOREM StreamsEndOnce ==
  ASSUME M!ModelParameters
  PROVE  M!ModelSpec => []M!ModelTypeOK /\ []M!EndIsLast
<1>1. M!ModelInit => ModelInv
  <2> SUFFICES ASSUME M!ModelInit PROVE ModelInv
    OBVIOUS
  <2>1. StreamInv(M!NoStream) /\ M!NoStream \in Stream
    BY NoStreamIs, NewStream
  <2>2. [at |-> "idle", op |-> "none"] \in Asked
    BY DEF Asked
  <2> QED
    BY <2>1, <2>2 DEF M!ModelInit, ModelInv
<1>2. ModelInv /\ [M!ModelNext]_(M!modelVars) => ModelInv'
  BY ModelNextKeeps
<1>3. ModelInv => M!ModelTypeOK /\ M!EndIsLast
  <2> SUFFICES ASSUME ModelInv PROVE M!ModelTypeOK /\ M!EndIsLast
    OBVIOUS
  <2>1. M!ModelTypeOK
    BY DEF ModelInv, M!ModelTypeOK, Asked, Stream, StreamInv
  <2>2. M!EndIsLast
    BY DEF ModelInv, StreamInv, Delivered, FinalIsLast, M!EndIsLast
  <2> QED
    BY <2>1, <2>2
<1> QED
  BY <1>1, <1>2, <1>3, PTL DEF M!ModelSpec

-----------------------------------------------------------------------------
(***************************************************************************)
(* The inductive invariant.  One request spends the token at most: it is   *)
(* the one that swapped the flag, and the flag stays up while the daemon   *)
(* does.  An entry of this start was written by the request that spent it, *)
(* which is then through.  The flag is up whenever the row is there.       *)
(***************************************************************************)
RequestStep == {"idle", "stat", "backup", "temp", "rename", "consume", "persist", "record",
         "mint", "base", "ok", "conflict", "error"}

RequestsTyped ==
  /\ up \in BOOLEAN /\ consumed \in BOOLEAN /\ row \in BOOLEAN
  /\ starts \in Nat
  /\ init \in [InitRequest -> [credential : {None, "token", "client"}, overwrite : BOOLEAN, at : RequestStep]]
  /\ \A e \in entries : e.start \in Nat

Spends(r) == init[r].at \in {"persist", "record"}

Spending ==
  /\ ~ up => \A r \in InitRequest : init[r].at \in {"idle", "error"}
  /\ up /\ row => consumed
  /\ \A r \in InitRequest : Spends(r) => consumed
  /\ \A r, s \in InitRequest : Spends(r) /\ Spends(s) => r = s

EntriesRecorded ==
  \A e \in entries :
    /\ e.start <= starts
    /\ e.start = starts /\ up => consumed /\ \A r \in InitRequest : ~ Spends(r)

RunInv == RequestsTyped /\ Spending /\ EntriesRecorded /\ F!ConsumedOnce

-----------------------------------------------------------------------------
(* Where a step leaves the request that takes it.                          *)
LEMMA RequestMoves ==
  ASSUME RequestsTyped, NEW r \in InitRequest, NEW to \in RequestStep, F!Goes(r, to)
  PROVE  /\ init' \in [InitRequest -> [credential : {None, "token", "client"}, overwrite : BOOLEAN, at : RequestStep]]
         /\ init'[r].at = to /\ init'[r].credential = init[r].credential
         /\ \A s \in InitRequest \ {r} : init'[s] = init[s]
<1> DEFINE moved == [init[r] EXCEPT !.at = to]
<1>1. moved \in [credential : {None, "token", "client"}, overwrite : BOOLEAN, at : RequestStep]
      /\ moved.at = to /\ moved.credential = init[r].credential
  BY DEF RequestsTyped
<1>2. init' = [init EXCEPT ![r] = moved]
  BY DEF F!Goes
<1> HIDE DEF moved
<1> QED
  BY <1>1, <1>2 DEF RequestsTyped

(* A step of a request that neither spends the token nor records it.       *)
LEMMA PassesBy ==
  ASSUME RunInv, up, NEW r \in InitRequest,
         init' \in [InitRequest -> [credential : {None, "token", "client"}, overwrite : BOOLEAN, at : RequestStep]],
         ~ Spends(r)', \A s \in InitRequest \ {r} : init'[s] = init[s],
         UNCHANGED <<up, starts, consumed, row, entries>>
  PROVE  RunInv'
<1>1. RequestsTyped'
  BY DEF RunInv, RequestsTyped
<1>2. \A s \in InitRequest : Spends(s)' => Spends(s)
  BY DEF Spends
<1>3. Spending' /\ EntriesRecorded'
  BY <1>2 DEF RunInv, Spending, EntriesRecorded
<1> QED
  BY <1>1, <1>3 DEF RunInv, F!ConsumedOnce

LEMMA ServesRequest ==
  ASSUME RunInv, NEW r \in InitRequest, init[r].at \notin {"idle", "error"}
  PROVE  up
BY DEF RunInv, RequestsTyped, Spending

LEMMA EnterKeeps == ASSUME RunInv, NEW r \in InitRequest, F!Enter(r) PROVE RunInv'
<1>1. PICK credential \in {"token", "client"}, overwrite \in BOOLEAN :
        init' = [init EXCEPT ![r] = [credential |-> credential, overwrite |-> overwrite,
                   at |-> IF overwrite THEN "backup" ELSE "stat"]]
  BY DEF F!Enter
<1> DEFINE entered == [credential |-> credential, overwrite |-> overwrite,
                       at |-> IF overwrite THEN "backup" ELSE "stat"]
<1>2. entered \in [credential : {None, "token", "client"}, overwrite : BOOLEAN, at : RequestStep]
      /\ entered.at \in {"backup", "stat"}
  BY DEF RequestStep
<1> HIDE DEF entered
<1>3. init' = [init EXCEPT ![r] = entered]
  BY <1>1 DEF entered
<1>4. /\ init' \in [InitRequest -> [credential : {None, "token", "client"}, overwrite : BOOLEAN, at : RequestStep]]
      /\ ~ Spends(r)' /\ \A s \in InitRequest \ {r} : init'[s] = init[s]
  BY <1>2, <1>3 DEF RunInv, RequestsTyped, Spends
<1> QED
  BY <1>4, PassesBy DEF F!Enter

LEMMA RequestKeeps ==
  ASSUME RunInv, NEW r \in InitRequest,
         \/ F!Stat(r) \/ F!Backup(r) \/ F!WriteTemp(r) \/ F!RenameConfig(r)
         \/ F!MintConsoleClient(r) \/ F!TakeOver(r)
  PROVE  RunInv'
<1>1. PICK to \in {"temp", "conflict", "rename", "error", "consume", "base", "ok"} : F!Goes(r, to)
  BY DEF F!Stat, F!Backup, F!WriteTemp, F!RenameConfig, F!MintConsoleClient, F!TakeOver
<1>2. UNCHANGED <<up, starts, consumed, row, entries>> /\ init[r].at \notin {"idle", "error"}
  BY DEF F!Stat, F!Backup, F!WriteTemp, F!RenameConfig, F!MintConsoleClient, F!TakeOver
<1>3. /\ init' \in [InitRequest -> [credential : {None, "token", "client"}, overwrite : BOOLEAN, at : RequestStep]]
      /\ ~ Spends(r)' /\ \A s \in InitRequest \ {r} : init'[s] = init[s]
  BY <1>1, RequestMoves DEF RunInv, RequestStep, Spends
<1> QED
  BY <1>2, <1>3, PassesBy, ServesRequest

-----------------------------------------------------------------------------
(* The first to swap the flag finds no other that spends, and no entry.    *)
LEMMA ConsumeKeeps == ASSUME RunInv, NEW r \in InitRequest, F!Consume(r) PROVE RunInv'
<1>1. up /\ UNCHANGED <<up, starts, row, entries>> /\ consumed' = TRUE
  BY ServesRequest DEF F!Consume
<1>2. F!Goes(r, IF consumed THEN "mint" ELSE "persist")
  BY DEF F!Consume
<1>3. /\ init' \in [InitRequest -> [credential : {None, "token", "client"}, overwrite : BOOLEAN, at : RequestStep]]
      /\ init'[r].at = IF consumed THEN "mint" ELSE "persist"
      /\ \A s \in InitRequest \ {r} : init'[s] = init[s]
  BY <1>2, RequestMoves DEF RunInv, RequestStep
<1>4. RequestsTyped'
  BY <1>1, <1>3 DEF RunInv, RequestsTyped
<1>5. ~ consumed => \A s \in InitRequest : ~ Spends(s)
  BY DEF RunInv, Spending
<1>6. \A s \in InitRequest : Spends(s)' => IF consumed THEN Spends(s) ELSE s = r
  BY <1>3, <1>5 DEF Spends
<1>7. Spending'
  BY <1>1, <1>6 DEF RunInv, Spending
<1>8. ~ consumed => \A e \in entries : e.start # starts
  BY <1>1 DEF RunInv, EntriesRecorded
<1>9. EntriesRecorded'
  BY <1>1, <1>6, <1>8 DEF RunInv, EntriesRecorded
<1> QED
  BY <1>1, <1>4, <1>7, <1>9 DEF RunInv, F!ConsumedOnce

LEMMA PersistKeeps == ASSUME RunInv, NEW r \in InitRequest, F!Persist(r) PROVE RunInv'
<1>1. up /\ UNCHANGED <<up, starts, consumed, entries>> /\ row' \in BOOLEAN /\ Spends(r) /\ consumed
  BY ServesRequest DEF F!Persist, RunInv, RequestsTyped, Spends, Spending
<1>2. /\ init' \in [InitRequest -> [credential : {None, "token", "client"}, overwrite : BOOLEAN, at : RequestStep]]
      /\ init'[r].at = "record" /\ \A s \in InitRequest \ {r} : init'[s] = init[s]
  BY RequestMoves DEF RunInv, RequestStep, F!Persist
<1>3. \A s \in InitRequest : Spends(s)' <=> Spends(s)
  BY <1>1, <1>2 DEF Spends
<1>4. RequestsTyped'
  BY <1>1, <1>2 DEF RunInv, RequestsTyped
<1>5. Spending' /\ EntriesRecorded'
  BY <1>1, <1>3 DEF RunInv, Spending, EntriesRecorded
<1> QED
  BY <1>1, <1>4, <1>5 DEF RunInv, F!ConsumedOnce

(* The entry of the one that spends is the first of its start.             *)
LEMMA RecordKeeps == ASSUME RunInv, NEW r \in InitRequest, F!Record(r) PROVE RunInv'
<1> DEFINE entry == [start |-> starts, by |-> r]
<1>1. up /\ UNCHANGED <<up, starts, consumed, row>> /\ entries' \in {entries, entries \union {entry}}
      /\ Spends(r) /\ consumed
  BY ServesRequest DEF F!Record, RunInv, Spends, Spending
<1>2. /\ init' \in [InitRequest -> [credential : {None, "token", "client"}, overwrite : BOOLEAN, at : RequestStep]]
      /\ init'[r].at = "mint" /\ \A s \in InitRequest \ {r} : init'[s] = init[s]
  BY RequestMoves DEF RunInv, RequestStep, F!Record
<1>3. \A s \in InitRequest : ~ Spends(s)'
  BY <1>1, <1>2 DEF RunInv, Spending, Spends
<1>4. \A e \in entries : e.start # starts
  BY <1>1 DEF RunInv, EntriesRecorded
<1>5. entry.start = starts /\ starts \in Nat
  BY DEF RunInv, RequestsTyped
<1> HIDE DEF entry
<1>6. RequestsTyped'
  BY <1>1, <1>2, <1>5 DEF RunInv, RequestsTyped
<1>7. Spending'
  BY <1>1, <1>3 DEF RunInv, Spending
<1>8. EntriesRecorded'
  BY <1>1, <1>3, <1>5 DEF RunInv, EntriesRecorded
<1>9. F!ConsumedOnce'
  BY <1>1, <1>4, <1>5 DEF RunInv, F!ConsumedOnce
<1> QED
  BY <1>6, <1>7, <1>8, <1>9 DEF RunInv

-----------------------------------------------------------------------------
(* The daemon starts without requests, and dies with all of them.          *)
LEMMA StartKeeps == ASSUME RunInv, F!NewSetupTokenGate PROVE RunInv'
<1>1. UNCHANGED <<row, entries, init>> /\ up' = TRUE /\ starts' = starts + 1 /\ consumed' = row
  BY DEF F!NewSetupTokenGate
<1>2. \A r \in InitRequest : ~ Spends(r)'
  BY <1>1 DEF F!NewSetupTokenGate, RunInv, Spending, Spends
<1>3. RequestsTyped'
  BY <1>1 DEF RunInv, RequestsTyped
<1>4. EntriesRecorded'
  BY <1>1 DEF RunInv, EntriesRecorded, RequestsTyped
<1>5. Spending'
  BY <1>1, <1>2 DEF Spending
<1> QED
  BY <1>1, <1>3, <1>4, <1>5 DEF RunInv, F!ConsumedOnce

LEMMA CrashKeeps == ASSUME RunInv, F!Crash PROVE RunInv'
<1>1. UNCHANGED <<starts, row, entries>> /\ up' = FALSE /\ consumed' = FALSE
      /\ init' = [r \in InitRequest |-> IF init[r].at = "idle" THEN init[r] ELSE [init[r] EXCEPT !.at = "error"]]
  BY DEF F!Crash
<1>2. ASSUME NEW r \in InitRequest
      PROVE  /\ init'[r] \in [credential : {None, "token", "client"}, overwrite : BOOLEAN, at : RequestStep]
             /\ init'[r].at \in {"idle", "error"}
  <2>1. init[r] \in [credential : {None, "token", "client"}, overwrite : BOOLEAN, at : RequestStep]
    BY DEF RunInv, RequestsTyped
  <2>2. CASE init[r].at = "idle"
    BY <1>1, <2>1, <2>2
  <2>3. CASE init[r].at # "idle"
    BY <1>1, <2>1, <2>3 DEF RequestStep
  <2> QED
    BY <2>2, <2>3
<1>3. RequestsTyped'
  <2>1. init' \in [InitRequest -> [credential : {None, "token", "client"}, overwrite : BOOLEAN, at : RequestStep]]
    BY <1>1, <1>2
  <2> QED
    BY <1>1, <2>1 DEF RunInv, RequestsTyped
<1>4. Spending' /\ EntriesRecorded'
  BY <1>1, <1>2 DEF RunInv, Spending, EntriesRecorded, Spends
<1> QED
  BY <1>1, <1>3, <1>4 DEF RunInv, F!ConsumedOnce

(* A start's token is spent by one request, at every step of a behaviour.  *)
THEOREM RunInvariance == F!RunSpec => []RunInv
<1>1. F!RunInit => RunInv
  <2> SUFFICES ASSUME F!RunInit PROVE RunInv
    OBVIOUS
  <2>1. \A r \in InitRequest : init[r] = F!NoRequest /\ ~ Spends(r)
    BY DEF F!RunInit, F!NoRequest, Spends
  <2>2. F!NoRequest \in [credential : {None, "token", "client"}, overwrite : BOOLEAN, at : RequestStep]
        /\ F!NoRequest.at = "idle"
    BY DEF F!NoRequest, RequestStep
  <2>3. RequestsTyped
    BY <2>2 DEF F!RunInit, RequestsTyped
  <2>4. Spending /\ EntriesRecorded /\ F!ConsumedOnce
    BY <2>1, <2>2 DEF F!RunInit, Spending, EntriesRecorded, F!ConsumedOnce
  <2> QED
    BY <2>3, <2>4 DEF RunInv
<1>2. RunInv /\ [F!RunNext]_(F!runVars) => RunInv'
  <2> SUFFICES ASSUME RunInv, [F!RunNext]_(F!runVars) PROVE RunInv'
    OBVIOUS
  <2>1. CASE UNCHANGED F!runVars
    BY <2>1 DEF F!runVars, RunInv, RequestsTyped, Spending, Spends, EntriesRecorded, F!ConsumedOnce
  <2>2. CASE F!RunNext
    BY <2>2, StartKeeps, CrashKeeps, EnterKeeps, RequestKeeps, ConsumeKeeps, PersistKeeps, RecordKeeps
       DEF F!RunNext
  <2> QED
    BY <2>1, <2>2
<1> QED
  BY <1>1, <1>2, PTL DEF F!RunSpec

(* However many init requests pass the gate with the setup token, one of a *)
(* start spends it: Consume swaps the flag, and only the first goes on to  *)
(* record it.                                                              *)
THEOREM AlwaysConsumedOnce == F!RunSpec => []F!ConsumedOnce
<1>1. RunInv => F!ConsumedOnce
  BY DEF RunInv
<1> QED
  BY <1>1, RunInvariance, PTL

(* A request comes in with the setup token only while its row is not       *)
(* written, in this start and every later one: NewSetupTokenGate takes     *)
(* over what the row says, and the row is written after the flag.          *)
THEOREM GateShut ==
  ASSUME F!RunParameters
  PROVE  F!RunSpec => F!GateStaysShut
<1>1. RunInv /\ [F!RunNext]_(F!runVars) =>
        [\A r \in InitRequest : init'[r].credential = "token" /\ init[r].credential = None => ~ row]_(F!runVars)
  <2> SUFFICES ASSUME RunInv, F!RunNext, NEW r \in InitRequest,
                      init'[r].credential = "token", init[r].credential = None
               PROVE  ~ row
    OBVIOUS
  <2>1. CASE F!Enter(r)
    <3>1. PICK credential \in {"token", "client"}, overwrite \in BOOLEAN :
            /\ IF credential = "token" THEN ~ consumed ELSE clients # {}
            /\ init' = [init EXCEPT ![r] = [credential |-> credential, overwrite |-> overwrite,
                   at |-> IF overwrite THEN "backup" ELSE "stat"]]
      BY <2>1 DEF F!Enter
    <3>2. init'[r].credential = credential
      BY <3>1 DEF RunInv, RequestsTyped
    <3> QED
      BY <2>1, <3>1, <3>2 DEF F!Enter, RunInv, Spending
  <2>2. ASSUME NEW s \in InitRequest \ {r}, F!Enter(s) PROVE init'[r] = init[r]
    BY <2>2 DEF F!Enter, RunInv, RequestsTyped
  <2>3. ASSUME NEW s \in InitRequest, NEW to \in RequestStep, F!Goes(s, to) PROVE init'[r].credential = init[r].credential
    BY <2>3, RequestMoves DEF RunInv
  <2>4. ASSUME NEW s \in InitRequest,
               \/ F!Stat(s) \/ F!Backup(s) \/ F!WriteTemp(s) \/ F!RenameConfig(s) \/ F!Consume(s)
               \/ F!Persist(s) \/ F!Record(s) \/ F!MintConsoleClient(s) \/ F!TakeOver(s)
        PROVE  init'[r].credential = init[r].credential
    BY <2>3, <2>4 DEF F!Stat, F!Backup, F!WriteTemp, F!RenameConfig, F!Consume, F!Persist, F!Record, F!MintConsoleClient,
                      F!TakeOver, RequestStep
  <2>5. CASE F!Crash \/ F!NewSetupTokenGate
    BY <2>5 DEF F!Crash, F!NewSetupTokenGate, RunInv, RequestsTyped, F!RunParameters
  <2> QED
    BY <2>1, <2>2, <2>4, <2>5 DEF F!RunNext, F!RunParameters
<1> QED
  BY <1>1, RunInvariance, PTL DEF F!RunSpec, F!GateStaysShut

(* What the inits leave behind: a configuration is whole, whoever wrote it.*)
FilesTyped ==
  /\ starts <= MaxStarts
  /\ config = None \/ config \in [by : InitRequest, whole : {TRUE}]
  /\ backups \subseteq InitRequest /\ base \in InitRequest \union {None} /\ clients \subseteq InitRequest

(* The types, and the configuration: there is none, or a whole one, since  *)
(* it is written beside and renamed (config/write.go).                     *)
THEOREM RunTypes ==
  ASSUME F!RunParameters
  PROVE  F!RunSpec => []F!RunTypeOK /\ []F!ConfigWhole
<1>1. F!RunInit => FilesTyped
  BY DEF F!RunInit, FilesTyped, F!RunParameters
<1>2. RunInv /\ FilesTyped /\ [F!RunNext]_(F!runVars) => FilesTyped'
  <2> SUFFICES ASSUME RunInv, FilesTyped, [F!RunNext]_(F!runVars) PROVE FilesTyped'
    OBVIOUS
  <2>1. CASE UNCHANGED F!runVars
    BY <2>1 DEF F!runVars, FilesTyped
  <2>2. CASE F!NewSetupTokenGate
    <3>1. starts' <= MaxStarts
      BY <2>2 DEF F!NewSetupTokenGate, F!RunParameters, RunInv, RequestsTyped
    <3> QED
      BY <2>2, <3>1 DEF F!NewSetupTokenGate, FilesTyped
  <2>6. CASE F!Crash
    BY <2>6 DEF F!Crash, FilesTyped
  <2>3. ASSUME NEW r \in InitRequest, F!RenameConfig(r) PROVE FilesTyped'
    BY <2>3 DEF F!RenameConfig, FilesTyped
  <2>4. ASSUME NEW r \in InitRequest, F!Backup(r) PROVE FilesTyped'
    BY <2>4 DEF F!Backup, FilesTyped
  <2>5. ASSUME NEW r \in InitRequest,
               \/ F!Enter(r) \/ F!Stat(r) \/ F!WriteTemp(r) \/ F!Consume(r) \/ F!Persist(r) \/ F!Record(r)
               \/ F!MintConsoleClient(r) \/ F!TakeOver(r)
        PROVE  FilesTyped'
    BY <2>5 DEF F!Enter, F!Stat, F!WriteTemp, F!Consume, F!Persist, F!Record, F!MintConsoleClient, F!TakeOver,
                FilesTyped
  <2> QED
    BY <2>1, <2>2, <2>3, <2>4, <2>5, <2>6 DEF F!RunNext
<1>3. RunInv /\ FilesTyped => F!RunTypeOK /\ F!ConfigWhole
  <2> SUFFICES ASSUME RunInv, FilesTyped PROVE F!RunTypeOK /\ F!ConfigWhole
    OBVIOUS
  <2>1. F!ConfigWhole /\ (config = None \/ config \in [by : InitRequest, whole : BOOLEAN])
    BY DEF FilesTyped, F!ConfigWhole
  <2>2. starts \in 0 .. MaxStarts
    BY DEF RunInv, RequestsTyped, FilesTyped, F!RunParameters
  <2> QED
    BY <2>1, <2>2 DEF RunInv, RequestsTyped, FilesTyped, F!RunTypeOK, RequestStep
<1> QED
  BY <1>1, <1>2, <1>3, RunInvariance, PTL DEF F!RunSpec

-----------------------------------------------------------------------------
(***************************************************************************)
(* The daemon's life.  The inductive invariant: what is open is closed by  *)
(* a deferred call, but for the model adapters while they are opened; and  *)
(* the capsules, which are closed with their host, are opened after it.    *)
(***************************************************************************)
Covers(d) == CASE d = "models" -> Adapter [] d = "host" -> {"host", "capsules"} [] OTHER -> {d}

OpeningModels == phase = "opening" /\ next = 4

LifeTyped ==
  /\ phase \in {"opening", "serving", "stopping", "closing", "exited"}
  /\ next \in 1 .. 9
  /\ held \subseteq ({L!Parts[i] : i \in 1 .. 8} \union Adapter)
  /\ handler \in [Handler -> {"idle", "running", "done"}]
  /\ background \subseteq Handler /\ ticking \in BOOLEAN /\ toInit \subseteq Adapter
  /\ defers \in Seq({L!Parts[i] : i \in 1 .. 8})

LifeInv ==
  /\ LifeTyped
  /\ \A x \in held : (\E i \in DOMAIN defers : x \in Covers(defers[i])) \/ (x \in Adapter /\ OpeningModels)
  /\ phase = "opening" /\ next > 5 => \E i \in DOMAIN defers : defers[i] = "host"
  /\ phase = "exited" => held = {}

LEMMA PartsAre ==
  /\ L!Parts = <<"runtimeDB", "audit", "memory", "models", "host", "storage", "scheduler", "capsules">>
  /\ Len(L!Parts) = 8 /\ DOMAIN L!Parts = 1 .. 8
  /\ L!ToSet(L!Parts) = {L!Parts[i] : i \in 1 .. 8}
<1>1. L!Parts = <<"runtimeDB", "audit", "memory", "models", "host", "storage", "scheduler", "capsules">>
  BY DEF L!Parts
<1>2. Len(L!Parts) = 8 /\ DOMAIN L!Parts = 1 .. 8
  BY DEF L!Parts
<1> QED
  BY <1>1, <1>2 DEF L!ToSet

(* A closer that is deferred is one more, and what it was to the others    *)
(* stays what it was.                                                      *)
LEMMA Deferred ==
  ASSUME LifeTyped, NEW d \in {L!Parts[i] : i \in 1 .. 8}, defers' = <<d>> \o defers
  PROVE  /\ defers' \in Seq({L!Parts[i] : i \in 1 .. 8})
         /\ 1 \in DOMAIN defers' /\ defers'[1] = d
         /\ \A i \in DOMAIN defers : i + 1 \in DOMAIN defers' /\ defers'[i + 1] = defers[i]
<1> DEFINE T == {L!Parts[i] : i \in 1 .. 8}
<1>1. defers \in Seq(T) /\ <<d>> \in Seq(T) /\ Len(<<d>>) = 1 /\ <<d>>[1] = d
  BY DEF LifeTyped
<1> HIDE DEF T
<1>2. defers' \in Seq(T) /\ Len(defers') = 1 + Len(defers)
      /\ \A i \in 1 .. 1 + Len(defers) : defers'[i] = IF i <= 1 THEN <<d>>[i] ELSE defers[i - 1]
  BY <1>1, ConcatProperties
<1>3. Len(defers) \in Nat /\ DOMAIN defers = 1 .. Len(defers) /\ DOMAIN defers' = 1 .. 1 + Len(defers)
  BY <1>1, <1>2
<1>4. ASSUME NEW i \in DOMAIN defers PROVE i + 1 \in DOMAIN defers' /\ defers'[i + 1] = defers[i]
  BY <1>2, <1>3, <1>4
<1>5. 1 \in DOMAIN defers' /\ defers'[1] = d
  BY <1>1, <1>2, <1>3
<1> QED
  BY <1>2, <1>4, <1>5 DEF T

LEMMA PartKeeps == ASSUME LifeInv, L!OpenPart PROVE LifeInv'
<1> DEFINE p == L!Parts[next]
<1>1. phase = "opening" /\ next \in 1 .. 8 /\ p # "models" /\ UNCHANGED <<toInit, handler, background, ticking>>
  BY PartsAre DEF L!OpenPart
<1>2. next # 4 /\ (next = 5 <=> p = "host") /\ (next = 8 <=> p = "capsules") /\ p \in {L!Parts[i] : i \in 1 .. 8}
  BY <1>1, PartsAre
<1> HIDE DEF p
<1>3. CASE phase' = "closing" /\ UNCHANGED <<next, defers, held>>
  BY <1>1, <1>2, <1>3 DEF LifeInv, LifeTyped, OpeningModels
<1>4. CASE /\ held' = held \union {p}
           /\ defers' = IF p = "capsules" THEN defers ELSE <<p>> \o defers
           /\ next' = next + 1 /\ UNCHANGED phase
  <2>1. ~ OpeningModels /\ \A x \in held : \E i \in DOMAIN defers : x \in Covers(defers[i])
    BY <1>2 DEF LifeInv, OpeningModels
  <2>2. next' \in 1 .. 9 /\ (next' > 5 => next > 5 \/ p = "host")
    BY <1>1, <1>2, <1>4
  <2>3. held' \subseteq ({L!Parts[i] : i \in 1 .. 8} \union Adapter)
    BY <1>2, <1>4 DEF LifeInv, LifeTyped
  <2>4. CASE p = "capsules"
    <3>1. \E i \in DOMAIN defers : p \in Covers(defers[i])
      BY <1>1, <1>2, <2>4 DEF LifeInv, Covers
    <3>2. LifeTyped'
      BY <1>1, <1>4, <2>2, <2>3, <2>4 DEF LifeInv, LifeTyped
    <3>3. \A x \in held' : \E i \in DOMAIN defers' : x \in Covers(defers'[i])
      BY <1>4, <2>1, <2>4, <3>1
    <3>4. next > 5 /\ phase' = "opening" /\ defers' = defers
      BY <1>1, <1>2, <1>4, <2>4
    <3> QED
      BY <1>1, <3>2, <3>3, <3>4 DEF LifeInv
  <2>5. CASE p # "capsules"
    <3>1. defers' = <<p>> \o defers
      BY <1>4, <2>5
    <3>2. /\ defers' \in Seq({L!Parts[i] : i \in 1 .. 8})
          /\ 1 \in DOMAIN defers' /\ defers'[1] = p
          /\ \A i \in DOMAIN defers : i + 1 \in DOMAIN defers' /\ defers'[i + 1] = defers[i]
      BY <1>2, <3>1, Deferred DEF LifeInv
    <3>3. LifeTyped'
      BY <1>1, <1>4, <2>2, <2>3, <3>2 DEF LifeInv, LifeTyped
    <3>4. p \in Covers(p)
      BY <1>1, <2>5 DEF Covers, p
    <3>5. \A x \in held' : \E i \in DOMAIN defers' : x \in Covers(defers'[i])
      BY <1>4, <2>1, <3>2, <3>4
    <3>6. next' > 5 => \E i \in DOMAIN defers' : defers'[i] = "host"
      BY <1>1, <2>2, <3>2 DEF LifeInv
    <3> QED
      BY <1>1, <1>4, <3>3, <3>5, <3>6 DEF LifeInv
  <2> QED
    BY <2>4, <2>5
<1> QED
  BY <1>3, <1>4 DEF L!OpenPart, p

LEMMA ModelsKeep == ASSUME LifeInv, L!OpenModels PROVE LifeInv'
<1>1. phase = "opening" /\ next \in 1 .. 8 /\ L!Parts[next] = "models" /\ UNCHANGED <<handler, background, ticking>>
  BY PartsAre DEF L!OpenModels
<1>2. next = 4 /\ "models" \in {L!Parts[i] : i \in 1 .. 8}
  BY <1>1, PartsAre
<1>3. CASE defers' = <<"models">> \o defers /\ next' = next + 1 /\ UNCHANGED <<phase, held, toInit>>
  <2>1. /\ defers' \in Seq({L!Parts[i] : i \in 1 .. 8})
        /\ 1 \in DOMAIN defers' /\ defers'[1] = "models"
        /\ \A i \in DOMAIN defers : i + 1 \in DOMAIN defers' /\ defers'[i + 1] = defers[i]
    BY <1>2, <1>3, Deferred DEF LifeInv
  <2>2. LifeTyped' /\ next' = 5
    BY <1>1, <1>2, <1>3, <2>1 DEF LifeInv, LifeTyped
  <2>3. Covers("models") = Adapter
    BY DEF Covers
  <2>4. \A x \in held' : \E i \in DOMAIN defers' : x \in Covers(defers'[i])
    BY <1>3, <2>1, <2>3 DEF LifeInv
  <2> QED
    BY <1>1, <1>3, <2>2, <2>4 DEF LifeInv
<1>4. ASSUME NEW a \in toInit, held' = held \union {a}, toInit' = toInit \ {a}, UNCHANGED <<phase, next, defers>>
      PROVE  LifeInv'
  BY <1>1, <1>2, <1>4 DEF LifeInv, LifeTyped, OpeningModels
<1>5. CASE phase' = "closing" /\ held' = held \ Adapter /\ UNCHANGED <<next, defers, toInit>>
  BY <1>1, <1>5 DEF LifeInv, LifeTyped, OpeningModels
<1> QED
  BY <1>3, <1>4, <1>5 DEF L!OpenModels

LEMMA DeferredKeeps == ASSUME LifeInv, L!RunDeferred PROVE LifeInv'
<1> DEFINE T == {L!Parts[i] : i \in 1 .. 8}
<1>1. /\ phase = "closing" /\ defers # <<>> /\ defers' = Tail(defers)
      /\ held' = held \ Covers(Head(defers))
      /\ UNCHANGED <<phase, next, toInit, handler, background, ticking>>
  BY DEF L!RunDeferred, Covers
<1>2. defers \in Seq(T)
  BY DEF LifeInv, LifeTyped
<1> HIDE DEF T
<1>3. /\ Tail(defers) \in Seq(T) /\ Head(defers) = defers[1]
      /\ \A i \in DOMAIN defers : i # 1 => i - 1 \in DOMAIN Tail(defers) /\ Tail(defers)[i - 1] = defers[i]
  <2>1. Head(defers) = defers[1] /\ Len(defers) \in Nat /\ DOMAIN defers = 1 .. Len(defers)
    BY <1>2
  <2>2. /\ Tail(defers) \in Seq(T) /\ Len(Tail(defers)) = Len(defers) - 1
        /\ \A i \in 1 .. Len(Tail(defers)) : Tail(defers)[i] = defers[i + 1]
    BY <1>1, <1>2, HeadTailProperties
  <2>3. DOMAIN Tail(defers) = 1 .. Len(defers) - 1
    BY <2>2
  <2>4. ASSUME NEW i \in DOMAIN defers, i # 1
        PROVE  i - 1 \in 1 .. Len(defers) - 1 /\ (i - 1) + 1 = i
    BY <2>1, <2>4
  <2> QED
    BY <2>1, <2>2, <2>3, <2>4
<1>4. ASSUME NEW x \in held' PROVE \E i \in DOMAIN defers' : x \in Covers(defers'[i])
  <2>1. PICK i \in DOMAIN defers : x \in Covers(defers[i])
    BY <1>1, <1>4 DEF LifeInv, OpeningModels
  <2>2. i # 1
    BY <1>1, <1>3, <1>4, <2>1
  <2> QED
    BY <1>1, <1>3, <2>1, <2>2
<1>5. LifeTyped'
  BY <1>1, <1>3 DEF LifeInv, LifeTyped, T
<1> QED
  BY <1>1, <1>4, <1>5 DEF LifeInv

LEMMA ExitKeeps == ASSUME LifeInv, L!Exit PROVE LifeInv'
<1>1. held = {}
  BY DEF LifeInv, OpeningModels, L!Exit
<1> QED
  BY <1>1 DEF LifeInv, LifeTyped, L!Exit

LEMMA ServingKeeps ==
  ASSUME LifeInv, L!Serve \/ L!Signal \/ L!Shutdown \/ L!TickStarts \/ L!TickEnds
  PROVE  LifeInv'
<1>1. UNCHANGED <<next, defers, held, toInit, handler, background>> /\ (~ OpeningModels \/ UNCHANGED phase)
  BY PartsAre DEF L!Serve, L!Signal, L!Shutdown, L!TickStarts, L!TickEnds, OpeningModels
<1>2. /\ phase' = phase \/ phase' \in {"serving", "stopping", "closing"}
      /\ ticking' \in {ticking, TRUE, FALSE}
      /\ UNCHANGED <<next, defers, held, toInit, handler, background>>
  BY DEF L!Serve, L!Signal, L!Shutdown, L!TickStarts, L!TickEnds
<1>3. ~ OpeningModels \/ OpeningModels'
  BY <1>1, <1>2 DEF OpeningModels
<1>4. LifeTyped'
  BY <1>2 DEF LifeInv, LifeTyped
<1> QED
  BY <1>2, <1>3, <1>4 DEF LifeInv

LEMMA HandlingKeeps ==
  ASSUME LifeInv, NEW h \in Handler, L!Handle(h) \/ L!SyncEnds(h)
  PROVE  LifeInv'
<1>1. /\ UNCHANGED <<phase, next, defers, held, toInit, ticking>>
      /\ handler' \in [Handler -> {"idle", "running", "done"}] /\ background' \subseteq Handler
  BY DEF L!Handle, L!SyncEnds, LifeInv, LifeTyped
<1> QED
  BY <1>1 DEF LifeInv, LifeTyped, OpeningModels

(* Wherever a start of the daemon fails, and whenever it is told to stop:  *)
(* what was opened is closed when it exits.                                *)
THEOREM LifeInvariance == L!LifeSpec => []L!LifeTypeOK /\ []L!NothingLeftOpen
<1>1. L!LifeInit => LifeInv
  <2> SUFFICES ASSUME L!LifeInit PROVE LifeInv
    OBVIOUS
  <2> DEFINE T == {L!Parts[i] : i \in 1 .. 8}
  <2>1. LifeTyped
    <3> HIDE DEF T
    <3>1. defers \in Seq(T) /\ held = {}
      BY DEF L!LifeInit
    <3>2. handler \in [Handler -> {"idle", "running", "done"}]
      BY DEF L!LifeInit
    <3>3. held \subseteq (T \union Adapter) /\ next \in 1 .. 9
      BY <3>1 DEF L!LifeInit
    <3>4. background \subseteq Handler /\ ticking \in BOOLEAN /\ toInit \subseteq Adapter /\ phase = "opening"
      BY DEF L!LifeInit
    <3> QED
      BY <3>1, <3>2, <3>3, <3>4 DEF LifeTyped, T
  <2> QED
    BY <2>1 DEF L!LifeInit, LifeInv
<1>2. LifeInv /\ [L!LifeNext]_(L!lifeVars) => LifeInv'
  <2> SUFFICES ASSUME LifeInv, [L!LifeNext]_(L!lifeVars) PROVE LifeInv'
    OBVIOUS
  <2>1. CASE UNCHANGED L!lifeVars
    BY <2>1 DEF L!lifeVars, LifeInv, LifeTyped, OpeningModels
  <2> QED
    BY <2>1, PartKeeps, ModelsKeep, DeferredKeeps, ExitKeeps, ServingKeeps, HandlingKeeps DEF L!LifeNext
<1>3. LifeInv => L!LifeTypeOK /\ L!NothingLeftOpen
  BY PartsAre DEF LifeInv, LifeTyped, L!LifeTypeOK, L!NothingLeftOpen
<1> QED
  BY <1>1, <1>2, <1>3, PTL DEF L!LifeSpec

-----------------------------------------------------------------------------
(***************************************************************************)
(* The SDKs.  The inductive invariant of the types: a handler between a    *)
(* request and its answer has that call still to count.                    *)
(***************************************************************************)
ToolAt == {"none", "sent", "running", "write", "await", "settled", "replied", "failed"}
ToolRecord == [at : ToolAt, left : 0 .. MaxHandlerCalls]
FrameRecord == [kind : {"request", "response"}, of : Handler]
Counts(r) == r \in ToolRecord /\ (r.at \in {"write", "await", "settled"} => r.left > 0)

ToolsTyped ==
  /\ tool \in [Handler -> ToolRecord] /\ \A h \in Handler : Counts(tool[h])
  /\ input \in Seq(FrameRecord)
  /\ loop \in Handler \union {"reading", "ended"} /\ eof \in BOOLEAN /\ closed \in BOOLEAN
  /\ pending \subseteq Handler /\ output \subseteq Handler

LEMMA ToolKeeps ==
  ASSUME ToolsTyped, NEW h \in Handler, NEW r, Counts(r), tool' = [tool EXCEPT ![h] = r],
         input' \in Seq(FrameRecord), loop' \in Handler \union {"reading", "ended"},
         eof' \in BOOLEAN, closed' \in BOOLEAN, pending' \subseteq Handler, output' \subseteq Handler
  PROVE  ToolsTyped'
<1>1. r \in ToolRecord
  BY DEF Counts
<1>2. tool' \in [Handler -> ToolRecord] /\ \A g \in Handler : tool'[g] = IF g = h THEN r ELSE tool[g]
  BY <1>1 DEF ToolsTyped
<1> QED
  BY <1>2 DEF ToolsTyped

(* A handler that goes on to where nothing is to be counted.               *)
LEMMA ToolMoves ==
  ASSUME ToolsTyped, NEW h \in Handler, NEW to \in ToolAt,
         tool[h].left > 0 \/ to \notin {"write", "await", "settled"}
  PROVE  Counts([tool[h] EXCEPT !.at = to]) /\ [tool EXCEPT ![h].at = to] = [tool EXCEPT ![h] = [tool[h] EXCEPT !.at = to]]
<1> DEFINE r == [tool[h] EXCEPT !.at = to]
<1>1. r \in ToolRecord /\ r.at = to /\ r.left = tool[h].left
  BY DEF ToolsTyped, ToolRecord
<1>2. [tool EXCEPT ![h].at = to] = [tool EXCEPT ![h] = r]
  BY DEF ToolsTyped
<1> HIDE DEF r
<1>3. Counts(r)
  BY <1>1 DEF Counts
<1> QED
  BY <1>2, <1>3 DEF r

LEMMA RuntimeKeepsTools ==
  ASSUME S!SdkParameters, ToolsTyped, NEW h \in Handler, S!AskTool(h) \/ S!AnswerCall(h)
  PROVE  ToolsTyped'
<1>1. S!Frame("request", h) \in FrameRecord /\ S!Frame("response", h) \in FrameRecord
  BY DEF S!Frame, FrameRecord
<1>2. CASE S!AskTool(h)
  <2>1. PICK n \in 0 .. MaxHandlerCalls : tool' = [tool EXCEPT ![h] = [at |-> "sent", left |-> n]]
    BY <1>2 DEF S!AskTool
  <2> DEFINE r == [at |-> "sent", left |-> n]
  <2>2. r \in ToolRecord /\ r.at = "sent"
    BY DEF ToolRecord, ToolAt
  <2>3. input' \in Seq(FrameRecord)
    BY <1>1, <1>2, AppendProperties DEF S!AskTool, ToolsTyped
  <2> HIDE DEF r
  <2>4. Counts(r)
    BY <2>2 DEF Counts
  <2> QED
    BY <1>2, <2>1, <2>3, <2>4, ToolKeeps DEF r, S!AskTool, ToolsTyped
<1>3. CASE S!AnswerCall(h)
  <2>1. input' \in Seq(FrameRecord)
    BY <1>1, <1>3, AppendProperties DEF S!AnswerCall, ToolsTyped
  <2> QED
    BY <1>3, <2>1 DEF S!AnswerCall, ToolsTyped
<1> QED
  BY <1>2, <1>3

LEMMA DispatchKeepsTools == ASSUME ToolsTyped, S!Dispatch PROVE ToolsTyped'
<1> DEFINE h == Head(input).of
<1>1. Head(input) \in FrameRecord /\ input' \in Seq(FrameRecord)
  BY HeadTailProperties DEF S!Dispatch, ToolsTyped
<1>2. h \in Handler
  BY <1>1 DEF FrameRecord
<1>3. UNCHANGED <<eof, closed, output>>
  BY DEF S!Dispatch
<1>4. CASE S!Deliver(h) /\ UNCHANGED loop
  <2> DEFINE to == IF h \in pending /\ tool[h].at = "await" THEN "settled" ELSE tool[h].at
  <2>1. tool' = [tool EXCEPT ![h].at = to] /\ pending' \subseteq Handler
    BY <1>2, <1>4 DEF S!Deliver, ToolsTyped
  <2>2. to \in ToolAt /\ (tool[h].left > 0 \/ to \notin {"write", "await", "settled"})
    BY <1>2 DEF ToolsTyped, Counts, ToolRecord, ToolAt
  <2> HIDE DEF to, h
  <2>3. Counts([tool[h] EXCEPT !.at = to]) /\ tool' = [tool EXCEPT ![h] = [tool[h] EXCEPT !.at = to]]
    BY <1>2, <2>1, <2>2, ToolMoves
  <2> QED
    BY <1>1, <1>2, <1>3, <1>4, <2>1, <2>3, ToolKeeps DEF ToolsTyped
<1>5. CASE /\ S!Begin(h) /\ UNCHANGED pending /\ loop' = IF S!Inline THEN h ELSE loop
  <2>1. Counts([tool[h] EXCEPT !.at = "running"]) /\ tool' = [tool EXCEPT ![h] = [tool[h] EXCEPT !.at = "running"]]
    BY <1>2, <1>5, ToolMoves DEF S!Begin, ToolAt
  <2>2. loop' \in Handler \union {"reading", "ended"}
    BY <1>2, <1>5 DEF ToolsTyped
  <2> HIDE DEF h
  <2> QED
    BY <1>1, <1>2, <1>3, <1>5, <2>1, <2>2, ToolKeeps DEF ToolsTyped
<1> QED
  BY <1>4, <1>5 DEF S!Dispatch

LEMMA RejectedKeepsTools == ASSUME ToolsTyped PROVE S!Rejected \in [Handler -> ToolRecord] /\ \A h \in Handler : Counts(S!Rejected[h])
<1>1. \A h \in Handler : Counts(IF h \in pending /\ tool[h].at = "await" THEN [tool[h] EXCEPT !.at = "failed"] ELSE tool[h])
  BY ToolMoves DEF ToolsTyped, ToolAt
<1>2. \A h \in Handler : Counts(S!Rejected[h])
  BY <1>1 DEF S!Rejected
<1> QED
  BY <1>1, <1>2 DEF S!Rejected, Counts

LEMMA EndKeepsTools == ASSUME ToolsTyped, S!EndOfStream \/ S!CloseStream \/ S!Close PROVE ToolsTyped'
<1>1. CASE S!EndOfStream
  <2>1. (closed \/ S!Inline) \in BOOLEAN
    OBVIOUS
  <2>2. closed' \in BOOLEAN
    BY <1>1, <2>1 DEF S!EndOfStream
  <2> QED
    BY <1>1, <2>2, RejectedKeepsTools DEF S!EndOfStream, ToolsTyped
<1>2. CASE S!CloseStream
  BY <1>2 DEF S!CloseStream, ToolsTyped
<1>3. CASE S!Close
  <2>1. pending' \subseteq Handler
    BY <1>3 DEF S!Close, ToolsTyped
  <2>2. CASE tool' = S!Rejected
    BY <1>3, <2>1, <2>2, RejectedKeepsTools DEF S!Close, ToolsTyped
  <2>3. CASE tool' = [h \in Handler |-> IF h = loop THEN [tool[h] EXCEPT !.at = "failed"] ELSE tool[h]]
    <3>1. \A h \in Handler : Counts(IF h = loop THEN [tool[h] EXCEPT !.at = "failed"] ELSE tool[h])
      BY ToolMoves DEF ToolsTyped, ToolAt
    <3>2. tool' \in [Handler -> ToolRecord] /\ \A h \in Handler : Counts(tool'[h])
      BY <2>3, <3>1 DEF Counts
    <3> QED
      BY <1>3, <2>1, <3>2 DEF S!Close, ToolsTyped
  <2> QED
    BY <1>3, <2>2, <2>3 DEF S!Close
<1> QED
  BY <1>1, <1>2, <1>3

LEMMA RunsKeepsTools == ASSUME S!SdkParameters, ToolsTyped, NEW h \in Handler, S!Runs(h) PROVE ToolsTyped'
<1>1. CASE S!Request(h)
  <2>1. tool[h].left > 0 /\ pending' \subseteq Handler /\ UNCHANGED <<input, eof, loop, closed, output>>
    BY <1>1 DEF S!Request, ToolsTyped
  <2>2. PICK to \in {"write", "failed"} : tool' = [tool EXCEPT ![h].at = to]
    BY <1>1 DEF S!Request
  <2>3. Counts([tool[h] EXCEPT !.at = to]) /\ tool' = [tool EXCEPT ![h] = [tool[h] EXCEPT !.at = to]]
    BY <2>1, <2>2, ToolMoves DEF ToolAt
  <2> QED
    BY <2>1, <2>3, ToolKeeps DEF ToolsTyped
<1>2. CASE S!WriteFrame(h)
  <2>1. /\ pending' \subseteq Handler /\ output' \subseteq Handler /\ UNCHANGED <<input, eof, loop, closed>>
        /\ tool[h].at = "write"
    BY <1>2 DEF S!WriteFrame, ToolsTyped
  <2>2. PICK to \in {"await", "failed"} : tool' = [tool EXCEPT ![h].at = to]
    BY <1>2 DEF S!WriteFrame
  <2>3. tool[h].left > 0
    BY <2>1 DEF ToolsTyped, Counts
  <2>4. Counts([tool[h] EXCEPT !.at = to]) /\ tool' = [tool EXCEPT ![h] = [tool[h] EXCEPT !.at = to]]
    BY <2>2, <2>3, ToolMoves DEF ToolAt
  <2> QED
    BY <2>1, <2>4, ToolKeeps DEF ToolsTyped
<1>3. CASE S!Resume(h)
  <2> DEFINE n == tool[h].left - 1
             r == [at |-> "running", left |-> n]
  <2>1. tool[h] \in ToolRecord /\ tool[h].left > 0
    BY <1>3 DEF S!Resume, ToolsTyped, Counts
  <2>2. n \in 0 .. MaxHandlerCalls
    BY <2>1 DEF S!SdkParameters, ToolRecord
  <2>3. tool' = [tool EXCEPT ![h] = r] /\ UNCHANGED <<input, eof, loop, closed, pending, output>>
    BY <1>3 DEF S!Resume, ToolsTyped
  <2> HIDE DEF n
  <2>4. r \in ToolRecord /\ r.at = "running"
    BY <2>2 DEF ToolRecord, ToolAt
  <2> HIDE DEF r
  <2>5. Counts(r)
    BY <2>4 DEF Counts
  <2> QED
    BY <2>3, <2>5, ToolKeeps DEF ToolsTyped
<1>4. CASE S!Reply(h)
  <2>1. loop' \in Handler \union {"reading", "ended"} /\ UNCHANGED <<input, eof, closed, pending, output>>
    BY <1>4 DEF S!Reply, ToolsTyped
  <2>2. PICK to \in {"replied", "failed"} : tool' = [tool EXCEPT ![h].at = to]
    BY <1>4 DEF S!Reply, ToolsTyped
  <2>3. Counts([tool[h] EXCEPT !.at = to]) /\ tool' = [tool EXCEPT ![h] = [tool[h] EXCEPT !.at = to]]
    BY <2>2, ToolMoves DEF ToolAt
  <2> QED
    BY <2>1, <2>3, ToolKeeps DEF ToolsTyped
<1> QED
  BY <1>1, <1>2, <1>3, <1>4 DEF S!Runs

LEMMA SdkTypes ==
  ASSUME S!SdkParameters
  PROVE  S!SdkInit /\ [][S!SdkNext]_(S!sdkVars) => []S!SdkTypeOK
<1>1. S!SdkInit => ToolsTyped
  <2> SUFFICES ASSUME S!SdkInit PROVE ToolsTyped
    OBVIOUS
  <2> DEFINE r0 == [at |-> "none", left |-> 0]
  <2>1. r0 \in ToolRecord /\ r0.at = "none"
    BY DEF ToolRecord, ToolAt, S!SdkParameters
  <2>2. tool = [h \in Handler |-> r0]
    BY DEF S!SdkInit
  <2> HIDE DEF r0
  <2>3. Counts(r0)
    BY <2>1 DEF Counts
  <2>4. tool \in [Handler -> ToolRecord] /\ \A h \in Handler : Counts(tool[h])
    BY <2>1, <2>2, <2>3
  <2>5. input \in Seq(FrameRecord)
    BY EmptySeq DEF S!SdkInit
  <2> QED
    BY <2>4, <2>5 DEF S!SdkInit, ToolsTyped
<1>2. ToolsTyped /\ [S!SdkNext]_(S!sdkVars) => ToolsTyped'
  <2> SUFFICES ASSUME ToolsTyped, [S!SdkNext]_(S!sdkVars) PROVE ToolsTyped'
    OBVIOUS
  <2>1. CASE UNCHANGED S!sdkVars
    BY <2>1 DEF S!sdkVars, ToolsTyped
  <2>2. CASE S!SdkNext
    BY <2>2, RuntimeKeepsTools, RunsKeepsTools, DispatchKeepsTools, EndKeepsTools DEF S!SdkNext
  <2> QED
    BY <2>1, <2>2
<1>3. ToolsTyped => S!SdkTypeOK
  BY DEF ToolsTyped, ToolRecord, ToolAt, S!SdkTypeOK
<1> QED
  BY <1>1, <1>2, <1>3, PTL

-----------------------------------------------------------------------------
(***************************************************************************)
(* A command's dependencies.  The inductive invariant says what is open    *)
(* before each step of each of the four commands.                          *)
(***************************************************************************)
Opened ==
  [source |-> <<{}, {"db"}, {"db"}, {"db", "audit"}, {"db", "audit", "storage"},
                {"db", "audit", "storage", "memory"}, {"db", "audit", "storage", "memory"},
                {"db", "audit", "storage", "memory"} \union Adapter>>,
   memory |-> <<{}, {"memory"}, {"memory", "db"}, {"memory", "db"}>>,
   capsule |-> <<{}, {"db"}, {"db"}, {"db"}, {"db", "audit"}>>,
   permission |-> <<{}, {"db"}, {"db"}, {"db", "audit"}>>]

Steps(c) == CASE c = "source" -> 7 [] c = "memory" -> 3 [] c = "capsule" -> 4 [] OTHER -> 3

DepsInv ==
  /\ command \in {"source", "memory", "capsule", "permission"}
  /\ step \in 1 .. Steps(command) + 1 /\ at \in {"opening", "running", "ended"}
  /\ open \subseteq (D!Owned \union Adapter)
  /\ at = "opening" => open = Opened[command][step]
  /\ at = "running" => open = Opened[command][Steps(command) + 1]
  /\ D!CommandLeavesNothing

LEMMA StepsAre ==
  /\ DOMAIN D!Steps = {"source", "memory", "capsule", "permission"}
  /\ \A c \in DOMAIN D!Steps : DOMAIN D!Steps[c] = 1 .. Steps(c) /\ Len(D!Steps[c]) = Steps(c)
<1>1. DOMAIN D!Steps = {"source", "memory", "capsule", "permission"}
  BY DEF D!Steps
<1>2. ASSUME NEW c \in {"source", "memory", "capsule", "permission"}
      PROVE  DOMAIN D!Steps[c] = 1 .. Steps(c) /\ Len(D!Steps[c]) = Steps(c)
  <2>1. CASE c = "source"
    BY <2>1 DEF D!Steps, Steps
  <2>2. CASE c = "memory"
    BY <2>2 DEF D!Steps, Steps
  <2>3. CASE c = "capsule"
    BY <2>3 DEF D!Steps, Steps
  <2>4. CASE c = "permission"
    BY <2>4 DEF D!Steps, Steps
  <2> QED
    BY <2>1, <2>2, <2>3, <2>4
<1> QED
  BY <1>1, <1>2

(* A step adds what it opens, or takes away what is to be undone.          *)
Adds(p) == IF p = "models" THEN Adapter ELSE {p} \intersect D!Owned

LEMMA AddsAre ==
  /\ Adds("models") = Adapter
  /\ \A p \in {"db", "audit", "storage", "memory"} : Adds(p) = {p}
  /\ \A p \in {"store", "layerStore", "permStore", "capsuleStore"} : Adds(p) = {}
BY DEF Adds, D!Owned

LEMMA OpensNext ==
  ASSUME NEW c \in {"source", "memory", "capsule", "permission"}, NEW i \in 1 .. Steps(c)
  PROVE  Opened[c][i + 1] = Opened[c][i] \union Adds(D!Steps[c][i])
<1>1. CASE c = "source"
  <2>1. i \in {1, 2, 3, 4, 5, 6, 7}
    BY <1>1 DEF Steps
  <2>2. /\ D!Steps[c][1] = "db"
        /\ D!Steps[c][2] = "store"
        /\ D!Steps[c][3] = "audit"
        /\ D!Steps[c][4] = "storage"
        /\ D!Steps[c][5] = "memory"
        /\ D!Steps[c][6] = "layerStore"
        /\ D!Steps[c][7] = "models"
    BY <1>1 DEF D!Steps
  <2>3. /\ Opened[c][1] = {}
        /\ Opened[c][2] = {"db"}
        /\ Opened[c][3] = {"db"}
        /\ Opened[c][4] = {"db", "audit"}
        /\ Opened[c][5] = {"db", "audit", "storage"}
        /\ Opened[c][6] = {"db", "audit", "storage", "memory"}
        /\ Opened[c][7] = {"db", "audit", "storage", "memory"}
        /\ Opened[c][8] = {"db", "audit", "storage", "memory"} \union Adapter
    BY <1>1 DEF Opened
  <2> QED
    BY <2>1, <2>2, <2>3, AddsAre
<1>2. CASE c = "memory"
  <2>1. i \in {1, 2, 3}
    BY <1>2 DEF Steps
  <2>2. /\ D!Steps[c][1] = "memory"
        /\ D!Steps[c][2] = "db"
        /\ D!Steps[c][3] = "layerStore"
    BY <1>2 DEF D!Steps
  <2>3. /\ Opened[c][1] = {}
        /\ Opened[c][2] = {"memory"}
        /\ Opened[c][3] = {"memory", "db"}
        /\ Opened[c][4] = {"memory", "db"}
    BY <1>2 DEF Opened
  <2> QED
    BY <2>1, <2>2, <2>3, AddsAre
<1>3. CASE c = "capsule"
  <2>1. i \in {1, 2, 3, 4}
    BY <1>3 DEF Steps
  <2>2. /\ D!Steps[c][1] = "db"
        /\ D!Steps[c][2] = "permStore"
        /\ D!Steps[c][3] = "capsuleStore"
        /\ D!Steps[c][4] = "audit"
    BY <1>3 DEF D!Steps
  <2>3. /\ Opened[c][1] = {}
        /\ Opened[c][2] = {"db"}
        /\ Opened[c][3] = {"db"}
        /\ Opened[c][4] = {"db"}
        /\ Opened[c][5] = {"db", "audit"}
    BY <1>3 DEF Opened
  <2> QED
    BY <2>1, <2>2, <2>3, AddsAre
<1>4. CASE c = "permission"
  <2>1. i \in {1, 2, 3}
    BY <1>4 DEF Steps
  <2>2. /\ D!Steps[c][1] = "db"
        /\ D!Steps[c][2] = "permStore"
        /\ D!Steps[c][3] = "audit"
    BY <1>4 DEF D!Steps
  <2>3. /\ Opened[c][1] = {}
        /\ Opened[c][2] = {"db"}
        /\ Opened[c][3] = {"db"}
        /\ Opened[c][4] = {"db", "audit"}
    BY <1>4 DEF Opened
  <2> QED
    BY <2>1, <2>2, <2>3, AddsAre
<1> QED
  BY <1>1, <1>2, <1>3, <1>4

LEMMA UndoesWhatIsOpen ==
  ASSUME NEW c \in {"source", "memory", "capsule", "permission"}, NEW i \in 1 .. Steps(c)
  PROVE  \/ Opened[c][i] \ D!Undo[c][D!Steps[c][i]] = {}
         \/ c = "source" /\ D!Steps[c][i] = "models" /\ Opened[c][i] \ D!Undo[c][D!Steps[c][i]] = {"db"}
<1>1. CASE c = "source"
  <2>1. i \in {1, 2, 3, 4, 5, 6, 7}
    BY <1>1 DEF Steps
  <2> QED
    BY <1>1, <2>1 DEF Opened, D!Steps, D!Undo, D!UndoSource
<1>2. CASE c = "memory"
  <2>1. i \in {1, 2, 3}
    BY <1>2 DEF Steps
  <2> QED
    BY <1>2, <2>1 DEF Opened, D!Steps, D!Undo, D!UndoMemory
<1>3. CASE c = "capsule"
  <2>1. i \in {1, 2, 3, 4}
    BY <1>3 DEF Steps
  <2> QED
    BY <1>3, <2>1 DEF Opened, D!Steps, D!Undo, D!UndoCapsule
<1>4. CASE c = "permission"
  <2>1. i \in {1, 2, 3}
    BY <1>4 DEF Steps
  <2> QED
    BY <1>4, <2>1 DEF Opened, D!Steps, D!Undo, D!UndoPermission
<1> QED
  BY <1>1, <1>2, <1>3, <1>4

LEMMA ClosesAll ==
  ASSUME NEW c \in {"source", "memory", "capsule", "permission"}
  PROVE  Opened[c][Steps(c) + 1] \ D!Closed[c] = {}
<1>1. Opened[c][Steps(c) + 1] \subseteq D!Closed[c]
  <2>1. CASE c = "source"
    BY <2>1 DEF Opened, Steps, D!Closed, D!CloseSource
  <2>2. CASE c = "memory"
    BY <2>2 DEF Opened, Steps, D!Closed, D!CloseMemory
  <2>3. CASE c = "capsule"
    BY <2>3 DEF Opened, Steps, D!Closed, D!CloseCapsule
  <2>4. CASE c = "permission"
    BY <2>4 DEF Opened, Steps, D!Closed, D!ClosePermission
  <2> QED
    BY <2>1, <2>2, <2>3, <2>4
<1> QED
  BY <1>1

LEMMA DepsKeep == ASSUME DepsInv, D!DepsNext PROVE DepsInv'
<1>1. command \in {"source", "memory", "capsule", "permission"} /\ Steps(command) \in Nat /\ command' = command
  BY DEF DepsInv, Steps, D!DepsNext, D!OpenStep, D!Run, D!CloseDeps
<1>2. CASE D!OpenStep
  <2>1. at = "opening" /\ step \in 1 .. Steps(command) /\ open = Opened[command][step]
    BY <1>1, <1>2, StepsAre DEF D!OpenStep, DepsInv
  <2>2. CASE /\ open' = open \union Adds(D!Steps[command][step])
             /\ step' = step + 1 /\ UNCHANGED at
    <3>1. open' = Opened[command][step + 1]
      BY <1>1, <2>1, <2>2, OpensNext
    <3>2. open' \subseteq (D!Owned \union Adapter)
      BY <2>2 DEF DepsInv, Adds
    <3>3. step' \in 1 .. Steps(command) + 1
      BY <1>1, <2>1, <2>2
    <3> QED
      BY <1>1, <2>1, <2>2, <3>1, <3>2, <3>3 DEF DepsInv, D!CommandLeavesNothing
  <2>3. CASE /\ open' = open \ D!Undo[command][D!Steps[command][step]]
             /\ at' = "ended" /\ UNCHANGED step
    <3>1. open' = {} \/ (command = "source" /\ D!Steps[command][step] = "models" /\ open' = {"db"})
      BY <1>1, <2>1, <2>3, UndoesWhatIsOpen
    <3>2. D!CommandLeavesNothing'
      BY <1>1, <2>3, <3>1 DEF D!CommandLeavesNothing
    <3>3. open' \subseteq (D!Owned \union Adapter)
      BY <2>3 DEF DepsInv
    <3> QED
      BY <1>1, <2>3, <3>2, <3>3 DEF DepsInv
  <2> QED
    BY <1>2, <2>2, <2>3 DEF D!OpenStep, Adds
<1>3. CASE D!Run
  BY <1>1, <1>3, StepsAre DEF D!Run, DepsInv, D!CommandLeavesNothing
<1>4. CASE D!CloseDeps
  <2>1. open' = {}
    BY <1>1, <1>4, ClosesAll DEF D!CloseDeps, DepsInv
  <2> QED
    BY <1>1, <1>4, <2>1 DEF D!CloseDeps, DepsInv, D!CommandLeavesNothing
<1> QED
  BY <1>2, <1>3, <1>4 DEF D!DepsNext

(* A command leaves nothing open, but for the one database.                *)
THEOREM DepsInvariance ==
  D!DepsInit /\ [][D!DepsNext]_(D!depsVars) => []D!DepsTypeOK /\ []D!CommandLeavesNothing
<1>1. D!DepsInit => DepsInv
  <2> SUFFICES ASSUME D!DepsInit PROVE DepsInv
    OBVIOUS
  <2>1. command \in {"source", "memory", "capsule", "permission"} /\ step = 1 /\ open = {} /\ at = "opening"
    BY StepsAre DEF D!DepsInit
  <2>2. Opened[command][1] = {}
    BY <2>1 DEF Opened
  <2>3. Steps(command) \in Nat
    BY DEF Steps
  <2> QED
    BY <2>1, <2>2, <2>3 DEF DepsInv, D!CommandLeavesNothing
<1>2. DepsInv /\ [D!DepsNext]_(D!depsVars) => DepsInv'
  BY DepsKeep DEF D!depsVars, DepsInv, D!CommandLeavesNothing
<1>3. DepsInv => D!DepsTypeOK /\ D!CommandLeavesNothing
  BY DEF DepsInv, D!DepsTypeOK, Steps
<1> QED
  BY <1>1, <1>2, <1>3, PTL

-----------------------------------------------------------------------------
(***************************************************************************)
(* The run: every behaviour of it is one of each part, since a step of one *)
(* leaves the variables of the others alone.                               *)
(***************************************************************************)
LEMMA PartsOfDaemonRun ==
  Spec => /\ O!Init /\ [][O!Next]_(O!vars)
          /\ G!GmailAuthInit /\ [][G!GmailAuthNext]_(G!gmailAuthVars)
          /\ M!ModelInit /\ [][M!ModelNext]_(M!modelVars)
          /\ F!RunInit /\ [][F!RunNext]_(F!runVars)
          /\ L!LifeInit /\ [][L!LifeNext]_(L!lifeVars)
          /\ S!SdkInit /\ [][S!SdkNext]_(S!sdkVars)
          /\ D!DepsInit /\ [][D!DepsNext]_(D!depsVars)
<1>1. Init => /\ O!Init /\ G!GmailAuthInit /\ M!ModelInit /\ F!RunInit /\ L!LifeInit /\ S!SdkInit /\ D!DepsInit
  BY DEF Init
<1>2. [Next]_allVars => [O!Next]_(O!vars)
  BY DEF Next, allVars, oauthVars, O!vars
<1>3. [Next]_allVars => [G!GmailAuthNext]_(G!gmailAuthVars)
  BY DEF Next, allVars, gmailVars, G!gmailAuthVars
<1>4. [Next]_allVars => [M!ModelNext]_(M!modelVars)
  BY DEF Next, allVars, modelVars, M!modelVars
<1>5. [Next]_allVars => [F!RunNext]_(F!runVars)
  BY DEF Next, allVars, runVars, F!runVars
<1>6. [Next]_allVars => [L!LifeNext]_(L!lifeVars)
  BY DEF Next, allVars, lifeVars, L!lifeVars
<1>7. [Next]_allVars => [S!SdkNext]_(S!sdkVars)
  BY DEF Next, allVars, sdkVars, S!sdkVars
<1>8. [Next]_allVars => [D!DepsNext]_(D!depsVars)
  BY DEF Next, allVars, depsVars, D!depsVars
<1> QED
  BY <1>1, <1>2, <1>3, <1>4, <1>5, <1>6, <1>7, <1>8, PTL DEF Spec

(* A consent is kept as long as the provider honours it (internal/oauth,   *)
(* internal/source/gmail): no refresh, failed write or later answer clears *)
(* a refresh token that is still good, and a capsule is asked to connect   *)
(* again only if it has none or a withdrawn one.                           *)
THEOREM ConsentIsKept == Spec => ConsentKept
<1>1. O!OAuthParameters /\ G!GmailAuthParameters
  BY Parameters
<1>2. O!Spec => []O!ReauthMeansRevoked /\ O!StaysConnected
  BY <1>1, CapsulesStayConnected, PTL
<1>3. G!GmailAuthInit /\ [][G!GmailAuthNext]_(G!gmailAuthVars) => []G!RefreshKept
  BY <1>1, GmailTokenKept, PTL
<1> QED
  BY <1>2, <1>3, PartsOfDaemonRun, PTL DEF ConsentKept, O!Spec

(* A setup token opens one console, and no later start lets it in again    *)
(* once the row that says so is there; what the inits write is whole at    *)
(* every moment (server/init.go, runtime/init.go).                         *)
THEOREM TokenIsSpentOnce == Spec => TokenSpentOnce
<1>1. F!RunParameters
  BY Parameters
<1>2. F!RunSpec => []F!ConsumedOnce /\ []F!ConfigWhole /\ F!GateStaysShut
  BY <1>1, AlwaysConsumedOnce, RunTypes, GateShut, PTL
<1> QED
  BY <1>2, PartsOfDaemonRun, PTL DEF TokenSpentOnce, F!RunSpec

(* The end of a stream is the last thing that is delivered on it, for both *)
(* adapters, however its reader, its cancellation and the provider         *)
(* interleave (internal/adapter/model).                                    *)
THEOREM EndComesLast == Spec => []EndIsLast
<1>1. M!ModelParameters
  BY Parameters
<1>2. M!ModelSpec => []M!EndIsLast
  BY <1>1, StreamsEndOnce, PTL
<1>3. M!EndIsLast <=> EndIsLast
  BY DEF EndIsLast
<1> QED
  BY <1>2, <1>3, PartsOfDaemonRun, PTL DEF M!ModelSpec

(* Whichever step of a start fails, of the daemon or of a command, what    *)
(* was opened before it is closed (cli/serve.go, cli/deps.go); and all the *)
(* parts keep to their types.                                              *)
THEOREM NothingIsLeftOpen == Spec => []NothingLeftOpen
<1>1. O!OAuthParameters /\ G!GmailAuthParameters /\ M!ModelParameters /\ F!RunParameters /\ S!SdkParameters
  BY Parameters
<1>2. O!Spec => []O!OAuthTypeOK
  BY <1>1, CapsulesStayConnected, PTL
<1>3. G!GmailAuthInit /\ [][G!GmailAuthNext]_(G!gmailAuthVars) => []G!GmailAuthTypeOK
  BY <1>1, GmailTokenKept, PTL
<1>4. M!ModelSpec => []M!ModelTypeOK
  BY <1>1, StreamsEndOnce, PTL
<1>5. F!RunSpec => []F!RunTypeOK
  BY <1>1, RunTypes, PTL
<1>6. S!SdkInit /\ [][S!SdkNext]_(S!sdkVars) => []S!SdkTypeOK
  BY <1>1, SdkTypes, PTL
<1>7. L!LifeSpec => []L!LifeTypeOK /\ []L!NothingLeftOpen
  BY LifeInvariance
<1>8. D!DepsInit /\ [][D!DepsNext]_(D!depsVars) => []D!DepsTypeOK /\ []D!CommandLeavesNothing
  BY DepsInvariance
<1>9. (/\ O!OAuthTypeOK /\ G!GmailAuthTypeOK /\ M!ModelTypeOK /\ F!RunTypeOK /\ L!LifeTypeOK /\ S!SdkTypeOK
       /\ D!DepsTypeOK /\ L!NothingLeftOpen /\ D!CommandLeavesNothing) => NothingLeftOpen
  BY DEF NothingLeftOpen, TypeOK
<1> QED
  BY <1>2, <1>3, <1>4, <1>5, <1>6, <1>7, <1>8, <1>9, PartsOfDaemonRun, PTL
     DEF O!Spec, M!ModelSpec, F!RunSpec, L!LifeSpec
=============================================================================
