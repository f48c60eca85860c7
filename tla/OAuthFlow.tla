----------------------------- MODULE OAuthFlow -----------------------------
(***************************************************************************)
(* internal/oauth/orchestrator.go, with the console's endpoints, the       *)
(* bridge that resolves a capsule's provider and the tool that serves its  *)
(* tokens.  A flow opens a loopback server and sends the user to the       *)
(* provider, whose redirect brings the code that is exchanged for tokens;  *)
(* a call of the capsule's refreshes the access token once it is stale.    *)
(* Tokens are kept one key at a time in the capsule's credentials, by      *)
(* callbacks and calls that no lock orders.                                *)
(***************************************************************************)
EXTENDS Naturals, FiniteSets

CONSTANTS
  Flow,      \* the flows begun for one capsule
  Visit,     \* requests that reach a flow's loopback server
  Caller,    \* the capsule's calls of oauth.access_token
  None

VARIABLES
  flow,      \* whether a flow is in the map, and whether it was
  watchdog,  \* the goroutine that waits ten minutes for a flow's end
  server,    \* the loopback server of a flow
  visit,     \* the callback requests: for which flow, with which token, and where each stands
  code,      \* the provider: the flows whose code is still good
  valid,     \* the provider: the refresh tokens it honours
  access,    \* credentials: who obtained the stored access token
  refresh,   \* credentials: who obtained the stored refresh token
  stale,     \* whether the stored access token is about to expire
  caller     \* the calls: with which refresh token, and where each stands

(* What names a token is not the empty place of one.                       *)
OAuthParameters == None \notin Visit

vars == <<flow, watchdog, server, visit, code, valid, access, refresh, stale, caller>>

(* A token is named for the visit or the call that obtained it.            *)
Token == Visit \union Caller

OAuthTypeOK ==
  /\ flow \in [Flow -> {"none", "pending", "gone"}]
  /\ watchdog \in [Flow -> {"none", "waiting", "done"}]
  /\ server \in [Flow -> {"none", "serving", "closing", "closed"}]
  /\ visit \in [Visit -> [of : Flow \union {None}, new : BOOLEAN,
       at : {"idle", "exchange", "access", "refresh", "complete", "signal", "ok", "failed"}]]
  /\ code \subseteq Flow /\ valid \subseteq Token
  /\ access \in Token \union {None} /\ refresh \in Token \union {None}
  /\ stale \in BOOLEAN
  /\ caller \in [Caller -> [held : Token \union {None},
       at : {"idle", "post", "access", "refresh", "token", "reauth", "error"}]]

Init ==
  /\ flow = [f \in Flow |-> "none"]
  /\ watchdog = [f \in Flow |-> "none"]
  /\ server = [f \in Flow |-> "none"]
  /\ visit = [v \in Visit |-> [of |-> None, new |-> FALSE, at |-> "idle"]]
  /\ code = {} /\ valid = {}
  /\ access = None /\ refresh = None /\ stale = FALSE
  /\ caller = [c \in Caller |-> [held |-> None, at |-> "idle"]]

-----------------------------------------------------------------------------
(* Orchestrator.Begin: the server listens, the flow is in the map, and its *)
(* watchdog runs.  The user consents at the provider, or never does.       *)
Begin(f) ==
  /\ flow[f] = "none"
  /\ flow' = [flow EXCEPT ![f] = "pending"]
  /\ watchdog' = [watchdog EXCEPT ![f] = "waiting"]
  /\ server' = [server EXCEPT ![f] = "serving"]
  /\ UNCHANGED <<visit, code, valid, access, refresh, stale, caller>>

Consent(f) ==
  /\ flow[f] # "none" /\ f \notin code
  /\ code' = code \union {f}
  /\ UNCHANGED <<flow, watchdog, server, visit, valid, access, refresh, stale, caller>>

Goes(v, to) == visit' = [visit EXCEPT ![v].at = to]

(* handleCallback: a provider's error, a foreign state or a missing code   *)
(* ends the flow; a code is exchanged.                                     *)
Callback(v, f) ==
  /\ visit[v].at = "idle" /\ server[f] = "serving"
  /\ \E to \in {"exchange", "complete"} :
       visit' = [visit EXCEPT ![v] = [of |-> f, new |-> FALSE, at |-> to]]
  /\ UNCHANGED <<flow, watchdog, server, code, valid, access, refresh, stale, caller>>

(* exchangeCode: the provider honours a code once, and may leave a refresh *)
(* token out of its answer.                                                *)
Exchange(v) ==
  /\ visit[v].at = "exchange"
  /\ \/ /\ visit[v].of \in code
        /\ code' = code \ {visit[v].of}
        /\ \E new \in BOOLEAN :
             /\ visit' = [visit EXCEPT ![v].at = "access", ![v].new = new]
             /\ valid' = valid \union (IF new THEN {v} ELSE {})
     \/ Goes(v, "complete") /\ UNCHANGED <<code, valid>>
  /\ UNCHANGED <<flow, watchdog, server, access, refresh, stale, caller>>

(* persistTokens: the access token, and then the refresh token; either     *)
(* write may fail, and what was written stays.                             *)
PersistAccess(v) ==
  /\ visit[v].at = "access"
  /\ \/ access' = v /\ stale' = FALSE /\ Goes(v, "refresh")
     \/ Goes(v, "complete") /\ UNCHANGED <<access, stale>>
  /\ UNCHANGED <<flow, watchdog, server, code, valid, refresh, caller>>

(* Slip: an answer without a refresh token clears the stored one.          *)
KeptOrCleared(v) == IF visit[v].new THEN v ELSE None

Kept(v) == IF visit[v].new THEN v ELSE refresh

PersistRefresh(v) ==
  /\ visit[v].at = "refresh"
  /\ refresh' \in {refresh, Kept(v)}
  /\ Goes(v, "complete")
  /\ UNCHANGED <<flow, watchdog, server, code, valid, access, stale, caller>>

(* completeSuccess, after a failure too: out of the map, then the signal   *)
(* to the watchdog, which a second visit finds already sent.               *)
Complete(v) ==
  /\ visit[v].at = "complete"
  /\ flow' = [flow EXCEPT ![visit[v].of] = "gone"]
  /\ Goes(v, "signal")
  /\ UNCHANGED <<watchdog, server, code, valid, access, refresh, stale, caller>>

Signal(v) ==
  /\ visit[v].at = "signal"
  /\ watchdog' = [watchdog EXCEPT ![visit[v].of] = "done"]
  /\ server' = [server EXCEPT ![visit[v].of] = IF @ = "serving" THEN "closing" ELSE @]
  /\ Goes(v, "ok")
  /\ UNCHANGED <<flow, code, valid, access, refresh, stale, caller>>

(* Shutdown, half a second later: no new visits.                           *)
Shutdown(f) ==
  /\ server[f] = "closing"
  /\ server' = [server EXCEPT ![f] = "closed"]
  /\ UNCHANGED <<flow, watchdog, visit, code, valid, access, refresh, stale, caller>>

(* tearDown: the watchdog's ten minutes are over; a visit may be running.  *)
Expire(f) ==
  /\ watchdog[f] = "waiting"
  /\ watchdog' = [watchdog EXCEPT ![f] = "done"]
  /\ flow' = [flow EXCEPT ![f] = "gone"]
  /\ server' = [server EXCEPT ![f] = IF flow[f] = "pending" THEN "closed" ELSE @]
  /\ UNCHANGED <<visit, code, valid, access, refresh, stale, caller>>

-----------------------------------------------------------------------------
(* Orchestrator.AccessToken: a fresh token is returned; a stale one is     *)
(* refreshed with the refresh token that is stored now.                    *)
AccessToken(c) ==
  /\ caller[c].at = "idle"
  /\ caller' = [caller EXCEPT ![c] =
       [held |-> refresh,
        at |-> IF access # None /\ ~ stale THEN "token"
               ELSE IF refresh = None THEN "reauth" ELSE "post"]]
  /\ UNCHANGED <<flow, watchdog, server, visit, code, valid, access, refresh, stale>>

(* isReauthError: the endpoint says invalid_grant.                         *)
IsReauth(c) == caller[c].held \notin valid

(* The provider of this model keeps its refresh tokens: an answer to a     *)
(* refresh holds none, and the call stores again the one it used.          *)
Post(c) ==
  /\ caller[c].at = "post"
  /\ \/ caller[c].held \in valid /\ caller' = [caller EXCEPT ![c].at = "access"]
     \/ caller' = [caller EXCEPT ![c].at = IF IsReauth(c) THEN "reauth" ELSE "error"]
  /\ UNCHANGED <<flow, watchdog, server, visit, code, valid, access, refresh, stale>>

StoreAccess(c) ==
  /\ caller[c].at = "access"
  /\ \/ access' = c /\ stale' = FALSE /\ caller' = [caller EXCEPT ![c].at = "refresh"]
     \/ caller' = [caller EXCEPT ![c].at = "error"] /\ UNCHANGED <<access, stale>>
  /\ UNCHANGED <<flow, watchdog, server, visit, code, valid, refresh>>

StoreRefresh(c) ==
  /\ caller[c].at = "refresh"
  /\ \/ refresh' = caller[c].held /\ caller' = [caller EXCEPT ![c].at = "token"]
     \/ caller' = [caller EXCEPT ![c].at = "error"] /\ UNCHANGED refresh
  /\ UNCHANGED <<flow, watchdog, server, visit, code, valid, access, stale>>

(* Time brings the access token near its expiry; the user withdraws the    *)
(* consent at the provider.                                                *)
GrowStale ==
  /\ access # None
  /\ stale' = TRUE
  /\ UNCHANGED <<flow, watchdog, server, visit, code, valid, access, refresh, caller>>

Withdraw(t) ==
  /\ t \in valid
  /\ valid' = valid \ {t}
  /\ UNCHANGED <<flow, watchdog, server, visit, code, access, refresh, stale, caller>>

-----------------------------------------------------------------------------
Visiting(v) == Exchange(v) \/ PersistAccess(v) \/ PersistRefresh(v) \/ Complete(v) \/ Signal(v)

Next ==
  \/ \E f \in Flow : Begin(f) \/ Consent(f) \/ Shutdown(f) \/ Expire(f)
  \/ \E v \in Visit : Visiting(v) \/ \E f \in Flow : Callback(v, f)
  \/ \E c \in Caller : AccessToken(c) \/ Post(c) \/ StoreAccess(c) \/ StoreRefresh(c)
  \/ GrowStale
  \/ \E t \in Token : Withdraw(t)

Spec == Init /\ [][Next]_vars

(* A handler runs to its end, and timers fire: the ten minutes, and the    *)
(* half second before Shutdown.                                            *)
Fairness ==
  /\ \A v \in Visit : WF_vars(Visiting(v))
  /\ \A f \in Flow : WF_vars(Shutdown(f)) /\ WF_vars(Expire(f))

-----------------------------------------------------------------------------
(* Properties.                                                             *)

(* Once a capsule is connected its refresh token may be replaced and is    *)
(* never cleared, whatever a provider leaves out of an answer and whichever*)
(* write fails: CapsuleHasOAuthToken, which reads it, stays true.          *)
StaysConnected == [][refresh # None => refresh' # None]_vars

(* A call asks the user to connect again only without a refresh token or   *)
(* with one that the provider no longer honours, not when the provider is  *)
(* down (tools_oauth.go turns ErrReauthRequired into a prompt).            *)
ReauthMeansRevoked ==
  \A c \in Caller : caller[c].at = "reauth" => caller[c].held \notin valid

(* Every flow leaves the map, its loopback server closes and its visitors  *)
(* are answered, whether the user returns once, twice or never.            *)
EveryFlowEnds ==
  \A f \in Flow : flow[f] = "pending" ~>
     flow[f] = "gone" /\ server[f] = "closed" /\ watchdog[f] = "done"
     /\ \A v \in Visit : visit[v].of = f => visit[v].at = "ok"
=============================================================================
