------------------------------ MODULE MCDaemon ------------------------------
(***************************************************************************)
(* The parts of the daemon that have no state in common, checked in one    *)
(* run: a behaviour is one of a single part, which the first state names,  *)
(* while the others stay where they begin.                                 *)
(***************************************************************************)
EXTENDS Naturals, Sequences

CONSTANTS
  Flow, Visit, Caller, Waiter, InitRequest, Adapter, Handler, None,
  Capabilities, Other, Room,          \* ModelAdapter, and its bounds
  MaxLines, MaxRequests,
  MaxStarts,                          \* FirstRun's bound
  MaxHandlerCalls                     \* SdkTransport's

VARIABLES
  part,
  flow, watchdog, visit, access, refresh, caller,
  oauthServer, oauthCode, oauthValid, oauthStale,
  pendingAuth, codeCh, waiter, token, api,
  gmailServer, gmailCode, gmailValid, gmailStale,
  kind, inited, client, request, stream, requests,
  up, starts, consumed, row, config, backups, base, clients, entries, init,
  phase, next, defers, held, toInit, handler, background, ticking,
  sdk, input, eof, loop, closed, pending, tool, output,
  command, step, open, at

O == INSTANCE OAuthFlow WITH
       server <- oauthServer, code <- oauthCode, valid <- oauthValid, stale <- oauthStale
G == INSTANCE GmailAuth WITH
       server <- gmailServer, code <- gmailCode, valid <- gmailValid, stale <- gmailStale

M == INSTANCE ModelAdapter WITH MaxCalls <- MaxRequests

F == INSTANCE FirstRun WITH Request <- InitRequest

L == INSTANCE DaemonLife
S == INSTANCE SdkTransport WITH handler <- tool, MaxCalls <- MaxHandlerCalls
D == INSTANCE CommandDeps

ASSUME Parameters ==
  /\ F!RunParameters /\ O!OAuthParameters /\ G!GmailAuthParameters /\ M!ModelParameters /\ S!SdkParameters

oauthVars == <<flow, watchdog, oauthServer, visit, oauthCode, oauthValid, access, refresh, oauthStale, caller>>
gmailVars == <<pendingAuth, gmailServer, codeCh, gmailCode, waiter, token, gmailStale, gmailValid, api>>
modelVars == <<kind, inited, client, request, stream, requests>>
runVars   == <<up, starts, consumed, row, config, backups, base, clients, entries, init>>
lifeVars  == <<phase, next, defers, held, toInit, handler, background, ticking>>
sdkVars   == <<sdk, input, eof, loop, closed, pending, tool, output>>
depsVars  == <<command, step, open, at>>

-----------------------------------------------------------------------------
(* Values for TLC: a model that answers and one that embeds.               *)
Catalog == [m \in {"chat", "embed"} |-> IF m = "chat" THEN {"text"} ELSE {"embeddings"}]

-----------------------------------------------------------------------------
Init ==
  /\ part \in {"oauth", "gmail", "model", "firstRun", "life", "sdk", "command"}
  /\ O!Init /\ G!GmailAuthInit /\ M!ModelInit /\ F!RunInit /\ L!LifeInit /\ S!SdkInit /\ D!DepsInit
  /\ part # "model" => kind = "none"
  /\ part # "sdk" => sdk = "python"
  /\ part # "command" => command = "memory"

Next ==
  \/ /\ part = "oauth" /\ O!Next
     /\ UNCHANGED <<part, gmailVars, modelVars, runVars, lifeVars, sdkVars, depsVars>>
  \/ /\ part = "gmail" /\ G!GmailAuthNext
     /\ UNCHANGED <<part, oauthVars, modelVars, runVars, lifeVars, sdkVars, depsVars>>
  \/ /\ part = "model" /\ M!ModelNext
     /\ UNCHANGED <<part, oauthVars, gmailVars, runVars, lifeVars, sdkVars, depsVars>>
  \/ /\ part = "firstRun" /\ F!RunNext
     /\ UNCHANGED <<part, oauthVars, gmailVars, modelVars, lifeVars, sdkVars, depsVars>>
  \/ /\ part = "life" /\ L!LifeNext
     /\ UNCHANGED <<part, oauthVars, gmailVars, modelVars, runVars, sdkVars, depsVars>>
  \/ /\ part = "sdk" /\ S!SdkNext
     /\ UNCHANGED <<part, oauthVars, gmailVars, modelVars, runVars, lifeVars, depsVars>>
  \/ /\ part = "command" /\ D!DepsNext
     /\ UNCHANGED <<part, oauthVars, gmailVars, modelVars, runVars, lifeVars, sdkVars>>

allVars == <<part, oauthVars, gmailVars, modelVars, runVars, lifeVars, sdkVars, depsVars>>

(* No fair step of a part is enabled where it begins, so that the fairness *)
(* of the parts that stand still asks for nothing.                         *)
Fairness ==
  /\ O!Fairness /\ G!GmailAuthFairness /\ M!ModelFairness /\ L!LifeFairness /\ S!SdkFairness

Spec == Init /\ [][Next]_allVars
FairSpec == Spec /\ Fairness

TypeOK ==
  /\ O!OAuthTypeOK /\ G!GmailAuthTypeOK /\ M!ModelTypeOK /\ F!RunTypeOK /\ L!LifeTypeOK /\ S!SdkTypeOK
  /\ D!DepsTypeOK

-----------------------------------------------------------------------------
(* Properties.                                                             *)

(* Whatever is begun ends: a consent that the user gives once, twice or    *)
(* never, a stream that its reader cancels, a call of Gmail's API, the     *)
(* daemon after a signal, and a capsule's call while its loop reads.       *)
EverythingEnds ==
  O!EveryFlowEnds /\ G!EveryAuthEnds /\ M!StreamEnds /\ L!SignalEndsDaemon /\ S!TypeScriptCallsSettle

(* A consent is kept as long as the provider honours it: no refresh, no    *)
(* failed write and no later answer clears a refresh token, of a capsule   *)
(* or of the Gmail source, and a capsule is asked to connect again only if *)
(* it has none or a withdrawn one.                                         *)
ConsentKept == O!StaysConnected /\ [](O!ReauthMeansRevoked /\ G!RefreshKept)

(* A setup token opens one console: a start records one request that spent *)
(* it, and no later start lets the token in again once the row is there;   *)
(* the configuration the inits write is whole at every moment.             *)
TokenSpentOnce == [](F!ConsumedOnce /\ F!ConfigWhole) /\ F!GateStaysShut

(* Nothing is delivered on a stream after what a reader takes as its end.  *)
EndIsLast == M!EndIsLast

(* Whichever step of a start fails, of the daemon or of a command, what    *)
(* was opened before is closed, but for the database of one command whose  *)
(* model adapters cannot be opened.  Carries the types of all the parts.   *)
NothingLeftOpen == TypeOK /\ L!NothingLeftOpen /\ D!CommandLeavesNothing
=============================================================================
