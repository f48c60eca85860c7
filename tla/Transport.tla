----------------------------- MODULE Transport -----------------------------
(***************************************************************************)
(* internal/mcp/transport.go: JSON-RPC over the two pipes of a capsule's   *)
(* process.  Callers send requests and wait; one read loop routes what the *)
(* peer sends to the caller it is for, or starts a goroutine that serves a *)
(* request of the peer's; Close, or the end of the stream, stops it all.   *)
(***************************************************************************)
EXTENDS Naturals, FiniteSets

CONSTANTS
  Request,    \* the calls of Transport.Request, each made once
  Callback,   \* the requests that the peer makes, each made once
  Closer,     \* the calls of Close
  None        \* an empty channel, a message for nobody

VARIABLES
  req,        \* where each call of Request stands
  pending,    \* the map of channels by request id
  channel,    \* what is in the channel of a request: its capacity is one
  outcome,    \* what each call has returned
  loop,       \* the read loop
  hand,       \* the response that the read loop is about to send: to whom, and what for
  stop,       \* whether stopCh is closed
  closer,     \* where each call of Close stands
  answered,   \* history: the requests that the peer has answered
  serving     \* the callbacks a goroutine has begun to serve, or has served

transportVars == <<req, pending, channel, outcome, loop, hand, stop, closer, answered>>

(* A message is the id of the request it answers; drainPending's says that *)
(* the transport is closed.                                                *)
Message == Request \union {None, "closed"}

TransportTypeOK ==
  /\ req \in [Request -> {"idle", "registered", "waiting", "returned"}]
  /\ pending \subseteq Request
  /\ channel \in [Request -> Message]
  /\ outcome \in [Request -> {"none", "answer", "failure"}]
  /\ loop \in {"reading", "sending", "draining", "done"}
  /\ hand \in [to : Request \union {None}, what : Message]
  /\ stop \in BOOLEAN
  /\ closer \in [Closer -> {"idle", "waiting", "returned"}]
  /\ answered \subseteq Request
  /\ serving \subseteq Callback

TransportInit ==
  /\ req = [r \in Request |-> "idle"]
  /\ pending = {}
  /\ channel = [r \in Request |-> None]
  /\ outcome = [r \in Request |-> "none"]
  /\ loop = "reading"
  /\ hand = [to |-> None, what |-> None]
  /\ stop = FALSE
  /\ closer = [c \in Closer |-> "idle"]
  /\ answered = {}
  /\ serving = {}

-----------------------------------------------------------------------------
(* Transport.Request registers its channel and then writes.                *)
Register(r) ==
  /\ req[r] = "idle"
  /\ req' = [req EXCEPT ![r] = "registered"]
  /\ pending' = pending \union {r}
  /\ UNCHANGED <<channel, outcome, loop, hand, stop, closer, answered>>

(* A return takes the channel out of the map, if it is still there.        *)
Return(r, result) ==
  /\ req' = [req EXCEPT ![r] = "returned"]
  /\ outcome' = [outcome EXCEPT ![r] = result]
  /\ pending' = pending \ {r}

(* The write fails when the pipe is broken. *)
Write(r) ==
  /\ req[r] = "registered"
  /\ \/ req' = [req EXCEPT ![r] = "waiting"] /\ UNCHANGED <<outcome, pending>>
     \/ Return(r, "failure")
  /\ UNCHANGED <<channel, loop, hand, stop, closer, answered>>

(* The select: a response, the caller's context, or the transport's stop;  *)
(* what is ready is taken in any order.                                    *)
Receive(r) ==
  /\ req[r] = "waiting"
  /\ \/ channel[r] # None /\ channel' = [channel EXCEPT ![r] = None]
        /\ Return(r, IF channel[r] = "closed" THEN "failure" ELSE "answer")
     \/ stop /\ Return(r, "failure") /\ UNCHANGED channel
  /\ UNCHANGED <<loop, hand, stop, closer, answered>>

GiveUp(r) ==
  /\ req[r] = "waiting"
  /\ Return(r, "failure")
  /\ UNCHANGED <<channel, loop, hand, stop, closer, answered>>

-----------------------------------------------------------------------------
(* Slip: a response goes to whoever waits.                                 *)
RouteToAny(r) ==
  /\ loop = "reading" /\ req[r] = "waiting" /\ pending # {}
  /\ answered' = answered \union {r}
  /\ \E q \in pending :
       /\ pending' = pending \ {q}
       /\ hand' = [to |-> q, what |-> r]
       /\ loop' = "sending"
  /\ UNCHANGED <<req, channel, outcome, stop, closer>>

(* routeResponse: the peer answers r, for the first time or again, and the *)
(* channel leaves the map under its lock; an id that is not there is       *)
(* dropped.                                                                *)
RouteResponse(r) ==
  /\ loop = "reading" /\ req[r] \in {"waiting", "returned"}
  /\ answered' = answered \union {r}
  /\ IF r \in pending
     THEN /\ pending' = pending \ {r}
          /\ hand' = [to |-> r, what |-> r]
          /\ loop' = "sending"
     ELSE UNCHANGED <<pending, hand, loop>>
  /\ UNCHANGED <<req, channel, outcome, stop, closer>>

(* Slip: a channel without a buffer is sent to while its caller waits.     *)
SendUnbuffered ==
  /\ loop = "sending" /\ req[hand.to] = "waiting"
  /\ channel' = [channel EXCEPT ![hand.to] = hand.what]
  /\ hand' = [to |-> None, what |-> None]
  /\ loop' = "reading"
  /\ UNCHANGED <<req, pending, outcome, stop, closer, answered>>

(* The send, without the lock: the caller may be gone.                     *)
Send ==
  /\ loop = "sending" /\ channel[hand.to] = None
  /\ channel' = [channel EXCEPT ![hand.to] = hand.what]
  /\ hand' = [to |-> None, what |-> None]
  /\ loop' = "reading"
  /\ UNCHANGED <<req, pending, outcome, stop, closer, answered>>

(* dispatch of a request of the peer's; a notification or a line that is   *)
(* no message changes nothing here.                                        *)
Dispatch(b) ==
  /\ loop = "reading" /\ ~ stop
  /\ b \notin serving
  /\ serving' = serving \union {b}
  /\ UNCHANGED transportVars

(* The stream ends, or a line arrives after the stop: the loop's deferred  *)
(* function stops the transport and drains the map.                        *)
EndOfStream ==
  /\ loop = "reading"
  /\ stop' = TRUE
  /\ loop' = "draining"
  /\ UNCHANGED <<req, pending, channel, outcome, hand, closer, answered>>

(* drainPending, under the lock of the map.                                *)
DrainPending ==
  /\ loop = "draining"
  /\ \A r \in pending : channel[r] = None
  /\ channel' = [r \in Request |-> IF r \in pending THEN "closed" ELSE channel[r]]
  /\ pending' = {}
  /\ loop' = "done"
  /\ UNCHANGED <<req, outcome, hand, stop, closer, answered>>

(* Close: the stop, the reader's Close, and the wait for the loop's end.   *)
Close(c) ==
  /\ closer[c] = "idle"
  /\ closer' = [closer EXCEPT ![c] = "waiting"]
  /\ stop' = TRUE
  /\ UNCHANGED <<req, pending, channel, outcome, loop, hand, answered>>

Closed(c) ==
  /\ closer[c] = "waiting" /\ loop = "done"
  /\ closer' = [closer EXCEPT ![c] = "returned"]
  /\ UNCHANGED <<req, pending, channel, outcome, loop, hand, stop, answered>>

Calling(r) == Write(r) \/ Receive(r)

Reading == Send \/ DrainPending \/ (stop /\ EndOfStream)

-----------------------------------------------------------------------------
(* Properties.                                                             *)

(* Every call ends once, with the answer to that very call or a failure,   *)
(* whatever the peer repeats, reorders or invents.                         *)
Calls == INSTANCE RpcCalls
ImplementsCalls == Calls!Spec

(* Once the transport stops, by Close or by the end of the stream, every   *)
(* caller is released, the read loop ends, and so does every Close.        *)
StopReleasesAll ==
  stop ~> /\ loop = "done"
          /\ \A r \in Request : req[r] \in {"idle", "returned"}
          /\ \A c \in Closer : closer[c] # "waiting"
=============================================================================
