---------------------------- MODULE SdkTransport ----------------------------
(***************************************************************************)
(* The capsule's side of the stdio transport, in the two SDKs              *)
(* (sdk/typescript/src/transport.ts, sdk/python/loamss/transport.py).  One *)
(* loop reads frames.  A response settles the request that waits for it; a *)
(* request of the runtime runs a handler, which may call the runtime in    *)
(* its turn.  TypeScript lets the handler run by itself; Python's loop     *)
(* waits for it.                                                           *)
(***************************************************************************)
EXTENDS Naturals, Sequences, FiniteSets

CONSTANTS
  Handler,       \* tools/call requests of the runtime, each with its handler
  MaxCalls       \* bound: calls a handler makes, one after the other

VARIABLES
  sdk,           \* which of the two
  input,         \* frames that the runtime has written, in order
  eof,           \* whether the runtime has closed the stream
  loop,          \* the read loop: "reading", "ended", or the handler it waits for
  closed,        \* TypeScript: Transport.closed; Python: _stopped
  pending,       \* requests that wait for a response, by handler
  handler,       \* [at, left]: where each handler stands, and the calls it will make
  output         \* what the runtime has still to read: calls

SdkParameters == MaxCalls \in Nat

sdkVars == <<sdk, input, eof, loop, closed, pending, handler, output>>

Inline == sdk = "python"
Frame(kind, h) == [kind |-> kind, of |-> h]

SdkInit ==
  /\ sdk \in {"typescript", "python"}
  /\ input = <<>> /\ eof = FALSE /\ loop = "reading" /\ closed = FALSE
  /\ pending = {} /\ output = {}
  /\ handler = [h \in Handler |-> [at |-> "none", left |-> 0]]

SdkTypeOK ==
  /\ loop \in Handler \union {"reading", "ended"} /\ eof \in BOOLEAN /\ closed \in BOOLEAN
  /\ pending \subseteq Handler /\ output \subseteq Handler
  /\ handler \in [Handler -> [at : {"none", "sent", "running", "write", "await", "settled", "replied", "failed"},
                              left : 0 .. MaxCalls]]

-----------------------------------------------------------------------------
(* The runtime: it asks for a tool, answers a call, and closes the stream. *)
AskTool(h) ==
  /\ ~ eof /\ handler[h].at = "none"
  /\ \E n \in 0 .. MaxCalls : handler' = [handler EXCEPT ![h] = [at |-> "sent", left |-> n]]
  /\ input' = Append(input, Frame("request", h))
  /\ UNCHANGED <<sdk, eof, loop, closed, pending, output>>

AnswerCall(h) ==
  /\ ~ eof /\ h \in output
  /\ output' = output \ {h} /\ input' = Append(input, Frame("response", h))
  /\ UNCHANGED <<sdk, eof, loop, closed, pending, handler>>

CloseStream ==
  /\ ~ eof /\ eof' = TRUE
  /\ UNCHANGED <<sdk, input, loop, closed, pending, handler, output>>

-----------------------------------------------------------------------------
(* deliverResponse, _route_response: the request it answers is settled; a  *)
(* response that nothing waits for is dropped.                             *)
Deliver(h) ==
  /\ pending' = pending \ {h}
  /\ handler' = [handler EXCEPT ![h].at = IF h \in pending /\ @ = "await" THEN "settled" ELSE @]

(* runHandler, _handle_request: the handler begins.                        *)
Begin(h) == handler' = [handler EXCEPT ![h].at = "running"]

(* dispatchLine, _dispatch, of the next frame.                             *)
Dispatch ==
  /\ loop = "reading" /\ ~ closed /\ input # <<>>
  /\ input' = Tail(input)
  /\ LET h == Head(input).of IN
     IF Head(input).kind = "response" THEN Deliver(h) /\ UNCHANGED loop
     ELSE Begin(h) /\ UNCHANGED pending /\ loop' = IF Inline THEN h ELSE loop
  /\ UNCHANGED <<sdk, eof, closed, output>>

(* failPending, _reject_pending: whoever waits gets an error.              *)
Rejected == [h \in Handler |->
  IF h \in pending /\ handler[h].at = "await" THEN [handler[h] EXCEPT !.at = "failed"] ELSE handler[h]]

(* The end of the stream.  TypeScript does not set `closed` there.         *)
EndOfStream ==
  /\ loop = "reading" /\ input = <<>> /\ eof
  /\ loop' = "ended" /\ closed' = (closed \/ Inline)
  /\ pending' = {} /\ handler' = Rejected
  /\ UNCHANGED <<sdk, input, eof, output>>

-----------------------------------------------------------------------------
(* request: refused once TypeScript's transport is closed; otherwise the   *)
(* request is on the list, and then its frame is written.                  *)
Request(h) ==
  /\ handler[h].at = "running" /\ handler[h].left > 0
  /\ IF closed /\ ~ Inline
     THEN handler' = [handler EXCEPT ![h].at = "failed"] /\ UNCHANGED pending
     ELSE handler' = [handler EXCEPT ![h].at = "write"] /\ pending' = pending \union {h}
  /\ UNCHANGED <<sdk, input, eof, loop, closed, output>>

(* writeFrame, _send: the pipe may be broken once the runtime has closed   *)
(* the stream.  A request that was rejected while its frame was being      *)
(* written is so afterwards.                                               *)
WriteFrame(h) ==
  /\ handler[h].at = "write"
  /\ \/ eof /\ handler' = [handler EXCEPT ![h].at = "failed"] /\ pending' = pending \ {h} /\ UNCHANGED output
     \/ output' = output \union {h} /\ UNCHANGED pending
        /\ handler' = [handler EXCEPT ![h].at = IF h \in pending THEN "await" ELSE "failed"]
  /\ UNCHANGED <<sdk, input, eof, loop, closed>>

(* The response has come: the handler goes on with what is left.           *)
Resume(h) ==
  /\ handler[h].at = "settled"
  /\ handler' = [handler EXCEPT ![h] = [at |-> "running", left |-> @.left - 1]]
  /\ UNCHANGED <<sdk, input, eof, loop, closed, pending, output>>

(* The handler is done, and its reply or its error is written; a loop that *)
(* waited for it reads on.                                                 *)
Reply(h) ==
  /\ \/ handler[h].at = "running" /\ handler[h].left = 0
     \/ handler[h].at = "failed" /\ loop = h
  /\ handler' = [handler EXCEPT ![h].at = IF @ = "running" THEN "replied" ELSE "failed"]
  /\ loop' = IF loop = h THEN "reading" ELSE loop
  /\ UNCHANGED <<sdk, input, eof, closed, pending, output>>

(* close and stop, of the capsule itself.  TypeScript's read is cancelled, *)
(* so that the loop ends and rejects; Python's loop is cancelled with      *)
(* whatever handler it waits for.                                          *)
Close ==
  /\ ~ closed /\ loop # "ended"
  /\ closed' = TRUE /\ loop' = "ended"
  /\ IF Inline
     THEN /\ pending' = pending \ {loop}
          /\ handler' = [h \in Handler |-> IF h = loop THEN [handler[h] EXCEPT !.at = "failed"] ELSE handler[h]]
     ELSE pending' = {} /\ handler' = Rejected
  /\ UNCHANGED <<sdk, input, eof, output>>

-----------------------------------------------------------------------------
Runs(h) == Request(h) \/ WriteFrame(h) \/ Resume(h) \/ Reply(h)

SdkNext ==
  \/ \E h \in Handler : AskTool(h) \/ AnswerCall(h) \/ Runs(h)
  \/ Dispatch \/ EndOfStream \/ CloseStream \/ Close

(* The loop reads, handlers run, and the runtime answers each call in the  *)
(* end, unless it closes the stream.                                       *)
SdkFairness ==
  /\ WF_sdkVars(Dispatch) /\ WF_sdkVars(EndOfStream)
  /\ \A h \in Handler : WF_sdkVars(Runs(h)) /\ WF_sdkVars(AnswerCall(h))

SdkSpec == SdkInit /\ [][SdkNext]_sdkVars /\ SdkFairness

-----------------------------------------------------------------------------
(* Properties.                                                             *)

(* A request of the TypeScript SDK that is on the list while the loop      *)
(* reads is settled: by its response, by the end of the stream or by       *)
(* close, wherever its frame is just then.                                 *)
TypeScriptCallsSettle ==
  \A h \in Handler : (sdk = "typescript" /\ h \in pending /\ loop = "reading") ~> h \notin pending

(* So is one of the Python SDK once its response has come (its README      *)
(* shows a handler with `res = await ctx.runtime.tools.call(               *)
(* "threads.list", {"limit": 5})`).                                        *)
PythonCallsSettle ==
  \A h \in Handler :
    (sdk = "python" /\ h \in pending /\ \E i \in DOMAIN input : input[i] = Frame("response", h))
      ~> h \notin pending
=============================================================================
