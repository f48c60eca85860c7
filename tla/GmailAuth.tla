----------------------------- MODULE GmailAuth -----------------------------
(***************************************************************************)
(* internal/source/gmail: the consent through a server on a local port,    *)
(* and the calls of Gmail's API, which refresh the access token as they    *)
(* go.  `loamss source auth` runs the consent in a process of its own      *)
(* while the daemon's syncs call the API; both keep the whole token under  *)
(* the source's one key of credentials.                                    *)
(***************************************************************************)
EXTENDS Naturals, FiniteSets

CONSTANTS
  Flow,      \* flows begun on one instance of the source
  Waiter,    \* calls of CompleteAuth
  Caller,    \* calls of the API
  None

VARIABLES
  pendingAuth, \* the flow in progress
  server,    \* the server of each flow
  codeCh,    \* what a flow's channel, with room for one, holds
  code,      \* the provider: flows whose code is still good
  waiter,    \* the calls of CompleteAuth: of which flow, and where each stands
  token,     \* the credentials: the refresh token, by who obtained it; None if nothing is stored
  stale,     \* whether the stored access token is about to expire
  valid,     \* the provider: the refresh tokens it honours
  api        \* the calls of the API: the token each holds, its attempt and where it stands

gmailAuthVars == <<pendingAuth, server, codeCh, code, waiter, token, stale, valid, api>>

Issued == Waiter \union Caller

(* A token that was issued is not a lost one, and neither is none.         *)
GmailAuthParameters == "lost" \notin Issued \union {None}

GmailAuthTypeOK ==
  /\ pendingAuth \in Flow \union {None}
  /\ server \in [Flow -> {"none", "serving", "closed"}]
  /\ codeCh \in [Flow -> {"empty", "code", "error"}]
  /\ code \subseteq Flow
  /\ waiter \in [Waiter -> [of : Flow \union {None}, at : {"idle", "wait", "exchange", "save", "close", "ok", "failed"},
                            ok : BOOLEAN]]
  /\ token \in Issued \union {None, "lost"} /\ stale \in BOOLEAN /\ valid \subseteq Issued
  /\ api \in [Caller -> [held : Issued \union {None, "lost"}, new : BOOLEAN, attempt : 0 .. 3,
                         at : {"idle", "load", "refresh", "save", "request", "ok", "failed"}, again : BOOLEAN]]

GmailAuthInit ==
  /\ pendingAuth = None
  /\ server = [f \in Flow |-> "none"] /\ codeCh = [f \in Flow |-> "empty"] /\ code = {}
  /\ waiter = [w \in Waiter |-> [of |-> None, at |-> "idle", ok |-> FALSE]]
  /\ token = None /\ stale = FALSE /\ valid = {}
  /\ api = [c \in Caller |-> [held |-> None, new |-> FALSE, attempt |-> 0, at |-> "idle", again |-> FALSE]]

-----------------------------------------------------------------------------
(* The consent.                                                            *)
Consenting == UNCHANGED <<token, stale, valid, api>>

BeginAuth(f) ==
  /\ pendingAuth = None /\ server[f] = "none"
  /\ pendingAuth' = f
  /\ server' = [server EXCEPT ![f] = "serving"]
  /\ code' = code \union {f}
  /\ UNCHANGED <<codeCh, waiter>> /\ Consenting

(* handleCallback: a code, or an error (the provider's, a foreign state, a *)
(* missing code), unless the channel holds something already.              *)
HandleCallback(f, result) ==
  /\ server[f] = "serving"
  /\ codeCh' = [codeCh EXCEPT ![f] = IF @ = "empty" THEN result ELSE @]
  /\ UNCHANGED <<pendingAuth, server, code, waiter>> /\ Consenting

CompleteAuth(w) ==
  /\ waiter[w].at = "idle"
  /\ waiter' = [waiter EXCEPT ![w].of = pendingAuth, ![w].at = IF pendingAuth = None THEN "close" ELSE "wait"]
  /\ UNCHANGED <<pendingAuth, server, codeCh, code>> /\ Consenting

(* waitForCode: what comes through the channel, ten minutes, or the end of *)
(* the caller.                                                             *)
Receive(w) ==
  /\ waiter[w].at = "wait" /\ codeCh[waiter[w].of] # "empty"
  /\ waiter' = [waiter EXCEPT ![w].at = IF codeCh[waiter[w].of] = "code" THEN "exchange" ELSE "close"]
  /\ codeCh' = [codeCh EXCEPT ![waiter[w].of] = "empty"]
  /\ UNCHANGED <<pendingAuth, server, code>> /\ Consenting

(* Slip: the wait has no end of its own.                                   *)
TimeOutNever(w) == w \notin Waiter /\ UNCHANGED gmailAuthVars

TimeOut(w) ==
  /\ waiter[w].at = "wait"
  /\ waiter' = [waiter EXCEPT ![w].at = "close"]
  /\ UNCHANGED <<pendingAuth, server, codeCh, code>> /\ Consenting

(* exchangeCode: a code is good for once, and the prompt for consent makes *)
(* the provider send a refresh token.                                      *)
ExchangeCode(w) ==
  /\ waiter[w].at = "exchange"
  /\ \/ /\ waiter[w].of \in code
        /\ code' = code \ {waiter[w].of} /\ valid' = valid \union {w}
        /\ waiter' = [waiter EXCEPT ![w].at = "save"]
     \/ waiter' = [waiter EXCEPT ![w].at = "close"] /\ UNCHANGED <<code, valid>>
  /\ UNCHANGED <<pendingAuth, server, codeCh, token, stale, api>>

SaveToken(w) ==
  /\ waiter[w].at = "save"
  /\ \/ token' = w /\ stale' = FALSE /\ waiter' = [waiter EXCEPT ![w].at = "close", ![w].ok = TRUE]
     \/ waiter' = [waiter EXCEPT ![w].at = "close"] /\ UNCHANGED <<token, stale>>
  /\ UNCHANGED <<pendingAuth, server, codeCh, code, valid, api>>

(* The deferred end of CompleteAuth, and Close: whatever flow is pending   *)
(* now is shut down, the call's own or a later one.                        *)
ShutPending ==
  /\ server' = [f \in Flow |-> IF f = pendingAuth THEN "closed" ELSE server[f]]
  /\ pendingAuth' = None

EndAuth(w) ==
  /\ waiter[w].at = "close"
  /\ ShutPending
  /\ waiter' = [waiter EXCEPT ![w].at = IF waiter[w].ok THEN "ok" ELSE "failed"]
  /\ UNCHANGED <<codeCh, code>> /\ Consenting

Close == pendingAuth # None /\ ShutPending /\ UNCHANGED <<codeCh, code, waiter>> /\ Consenting

-----------------------------------------------------------------------------
(* gmailAPI.do: at most three attempts; each loads the token, refreshes it *)
(* if it is about to expire, and sends the request.                        *)
Calling == UNCHANGED <<pendingAuth, server, codeCh, code, waiter>>
At(c, to) == api' = [api EXCEPT ![c].at = to]

Load(c) ==
  /\ api[c].at \in {"idle", "load"}
  /\ api' = [api EXCEPT ![c].held = token, ![c].again = FALSE,
                        ![c].at = IF token = None THEN "failed" ELSE IF stale THEN "refresh" ELSE "request"]
  /\ UNCHANGED <<token, stale, valid>> /\ Calling

(* refreshToken: refused without a token or with one that is withdrawn,    *)
(* and an answer may bring another one.                                    *)
RefreshToken(c) ==
  /\ api[c].at = "refresh"
  /\ \/ /\ api[c].held \in valid
        /\ \E new \in BOOLEAN :
             /\ api' = [api EXCEPT ![c].at = "save", ![c].new = new]
             /\ valid' = valid \union (IF new THEN {c} ELSE {})
     \/ At(c, "failed") /\ UNCHANGED valid
  /\ UNCHANGED <<token, stale>> /\ Calling

Kept(c) == IF api[c].new THEN c ELSE api[c].held

SaveRefreshed(c) ==
  /\ api[c].at = "save"
  /\ \/ /\ token' = Kept(c) /\ stale' = FALSE
        /\ api' = [api EXCEPT ![c].at = IF api[c].again THEN "load" ELSE "request", ![c].held = Kept(c),
                              ![c].attempt = IF api[c].again THEN @ + 1 ELSE @]
     \/ At(c, "failed") /\ UNCHANGED <<token, stale>>
  /\ UNCHANGED valid /\ Calling

(* 401: refreshed and tried again, at the first attempt only.  429: after  *)
(* a pause, tried again.                                                   *)
Request(c) ==
  /\ api[c].at = "request"
  /\ \/ At(c, "ok") \/ At(c, "failed")
     \/ api[c].attempt = 0 /\ api' = [api EXCEPT ![c].at = "refresh", ![c].again = TRUE]
     \/ api' = [api EXCEPT ![c].attempt = @ + 1, ![c].at = IF api[c].attempt = 2 THEN "failed" ELSE "load"]
  /\ UNCHANGED <<token, stale, valid>> /\ Calling

GrowStale == token # None /\ stale' = TRUE /\ UNCHANGED <<token, valid, api>> /\ Calling
Withdraw(t) == t \in valid /\ valid' = valid \ {t} /\ UNCHANGED <<token, stale, api>> /\ Calling

-----------------------------------------------------------------------------
Waiting(w) == Receive(w) \/ TimeOut(w) \/ ExchangeCode(w) \/ SaveToken(w) \/ EndAuth(w)
Asking(c) == RefreshToken(c) \/ SaveRefreshed(c) \/ Request(c) \/ (api[c].at = "load" /\ Load(c))

GmailAuthNext ==
  \/ \E f \in Flow : BeginAuth(f) \/ \E result \in {"code", "error"} : HandleCallback(f, result)
  \/ \E w \in Waiter : CompleteAuth(w) \/ Waiting(w)
  \/ Close \/ GrowStale
  \/ \E c \in Caller : Load(c) \/ Asking(c)
  \/ \E t \in Issued : Withdraw(t)

(* The timer runs, the endpoint answers or its thirty seconds end.         *)
GmailAuthFairness ==
  /\ \A w \in Waiter : WF_gmailAuthVars(Waiting(w))
  /\ \A c \in Caller : WF_gmailAuthVars(Asking(c))

GmailAuthSpec == GmailAuthInit /\ [][GmailAuthNext]_gmailAuthVars /\ GmailAuthFairness

-----------------------------------------------------------------------------
(* Properties.                                                             *)

(* Once the user has consented, what is stored always holds a refresh      *)
(* token: no refresh, however its answer and its save interleave with a    *)
(* new consent, leaves a source that must be connected again.              *)
RefreshKept == token # "lost"

(* A call of CompleteAuth ends, whether or not the browser ever comes, and *)
(* so does a call of the API, whatever the service answers.                *)
EveryAuthEnds ==
  /\ \A w \in Waiter : (waiter[w].at = "wait") ~> (waiter[w].at \in {"ok", "failed"})
  /\ \A c \in Caller : (api[c].at = "request") ~> (api[c].at \in {"ok", "failed"})
=============================================================================
