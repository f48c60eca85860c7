------------------------ MODULE CapsuleCalls_proofs ------------------------
(***************************************************************************)
(* Proofs about CapsuleCalls and the Transport below it, for any requests, *)
(* callbacks, calls of Close and credentials, and any number of calls.     *)
(***************************************************************************)
EXTENDS CapsuleCalls, TLAPS

-----------------------------------------------------------------------------
(***************************************************************************)
(* The inductive invariant.  What is in a channel, and what the read loop  *)
(* is about to send, answers the request of that channel; a call that has  *)
(* not returned has no outcome.  The object is what was last written, a    *)
(* callback inside the lock holds a copy of it, and it is alone there.     *)
(***************************************************************************)
Routed ==
  /\ \A r \in Request : channel[r] \in {None, "closed"} \/ (channel[r] = r /\ r \in answered)
  /\ loop = "sending" => hand.to \in Request /\ hand.what = hand.to /\ hand.to \in answered
  /\ \A r \in Request : req[r] # "returned" => outcome[r] = "none"
  /\ \A r \in Request : outcome[r] = "answer" => r \in answered

Credentials ==
  /\ object = latest
  /\ \A b \in Callback : call[b].at = "inside" => copy[b] = object
  /\ \A b, d \in Callback : call[b].at = "inside" /\ call[d].at = "inside" => b = d

IInv == InvokedWasAnswered /\ Routed /\ Credentials

-----------------------------------------------------------------------------
(* Steps of the transport.                                                 *)

(* Where a step of the transport leads: to a sound state of it, by a step  *)
(* of RpcCalls or a stutter.                                               *)
Sound ==
  /\ TransportTypeOK' /\ Routed'
  /\ [Calls!Next]_<<answered, outcome>>
  /\ answered \subseteq answered'

(* A step that neither answers nor returns.                                *)
LEMMA Stutters ==
  ASSUME TransportTypeOK', Routed', UNCHANGED <<answered, outcome>>
  PROVE  Sound
BY DEF Sound

LEMMA RegisterSound ==
  ASSUME TransportTypeOK, Routed, NEW r \in Request, Register(r), UNCHANGED serving
  PROVE  Sound
<1>1. TransportTypeOK'
  BY DEF TransportTypeOK, Register
<1>2. Routed'
  BY DEF TransportTypeOK, Register, Routed
<1> QED
  BY <1>1, <1>2, Stutters DEF Register

(* A call returns: it had not before, and an answer is the peer's.         *)
LEMMA ReturnSound ==
  ASSUME TransportTypeOK, Routed, NEW r \in Request, NEW result \in {"answer", "failure"},
         req[r] # "returned", Return(r, result), result = "answer" => r \in answered,
         UNCHANGED <<loop, hand, stop, closer, answered, serving>>,
         channel' \in {channel, [channel EXCEPT ![r] = None]}
  PROVE  Sound
<1>1. /\ req' = [req EXCEPT ![r] = "returned"] /\ outcome' = [outcome EXCEPT ![r] = result]
      /\ pending' = pending \ {r}
  BY DEF Return
<1>2. channel' \in [Request -> Message]
      /\ \A q \in Request : channel'[q] \in {channel[q], None}
  BY DEF TransportTypeOK, Message
<1>3. TransportTypeOK'
  BY <1>1, <1>2 DEF TransportTypeOK
<1>4. /\ outcome'[r] = result /\ req'[r] = "returned"
      /\ \A q \in Request \ {r} : outcome'[q] = outcome[q] /\ req'[q] = req[q]
  BY <1>1 DEF TransportTypeOK
<1>5. Routed'
  BY <1>2, <1>4 DEF Routed
<1>6. Calls!Return(r, result)
  BY <1>1 DEF Routed, Calls!Return
<1>7. Calls!Next
  BY <1>6 DEF Calls!Next
<1> QED
  BY <1>3, <1>5, <1>7 DEF Sound

LEMMA WriteSound ==
  ASSUME TransportTypeOK, Routed, NEW r \in Request, Write(r), UNCHANGED serving
  PROVE  Sound
<1>1. /\ req[r] = "registered" /\ UNCHANGED <<channel, loop, hand, stop, closer, answered>>
      /\ \/ req' = [req EXCEPT ![r] = "waiting"] /\ UNCHANGED <<outcome, pending>>
         \/ Return(r, "failure")
  BY DEF Write
<1>2. CASE req' = [req EXCEPT ![r] = "waiting"] /\ UNCHANGED <<outcome, pending>>
  <2>1. TransportTypeOK'
    BY <1>1, <1>2 DEF TransportTypeOK
  <2>2. Routed'
    BY <1>1, <1>2 DEF TransportTypeOK, Routed
  <2> QED
    BY <1>1, <1>2, <2>1, <2>2, Stutters
<1>3. CASE Return(r, "failure")
  BY <1>1, <1>3, ReturnSound
<1> QED
  BY <1>1, <1>2, <1>3

LEMMA ReceiveSound ==
  ASSUME TransportTypeOK, Routed, NEW r \in Request, Receive(r), UNCHANGED serving
  PROVE  Sound
<1>1. /\ req[r] = "waiting" /\ UNCHANGED <<loop, hand, stop, closer, answered>>
      /\ \/ channel[r] # None /\ channel' = [channel EXCEPT ![r] = None]
            /\ Return(r, IF channel[r] = "closed" THEN "failure" ELSE "answer")
         \/ Return(r, "failure") /\ UNCHANGED channel
  BY DEF Receive
<1>2. CASE Return(r, "failure") /\ channel' \in {channel, [channel EXCEPT ![r] = None]}
  BY <1>1, <1>2, ReturnSound
<1>3. CASE channel[r] \notin {None, "closed"} /\ channel' = [channel EXCEPT ![r] = None] /\ Return(r, "answer")
  <2>1. r \in answered
    BY <1>3 DEF Routed
  <2> QED
    BY <1>1, <1>3, <2>1, ReturnSound
<1> QED
  BY <1>1, <1>2, <1>3

LEMMA GiveUpSound ==
  ASSUME TransportTypeOK, Routed, NEW r \in Request, GiveUp(r), UNCHANGED serving
  PROVE  Sound
BY ReturnSound DEF GiveUp

LEMMA RouteSound ==
  ASSUME TransportTypeOK, Routed, NEW r \in Request, RouteResponse(r), UNCHANGED serving
  PROVE  Sound
<1>1. /\ loop = "reading" /\ answered' = answered \union {r}
      /\ UNCHANGED <<req, channel, outcome, stop, closer>>
      /\ \/ /\ pending' = pending \ {r} /\ hand' = [to |-> r, what |-> r] /\ loop' = "sending"
         \/ UNCHANGED <<pending, hand, loop>>
  BY DEF RouteResponse
<1>2. hand' \in [to : Request \union {None}, what : Message]
  BY <1>1 DEF TransportTypeOK, Message
<1>3. TransportTypeOK'
  BY <1>1, <1>2 DEF TransportTypeOK
<1>4. Routed'
  BY <1>1 DEF Routed
<1>5. Calls!Next
  BY <1>1 DEF Calls!Next, Calls!Answer
<1> QED
  BY <1>1, <1>3, <1>4, <1>5 DEF Sound

LEMMA SendSound ==
  ASSUME TransportTypeOK, Routed, Send, UNCHANGED serving
  PROVE  Sound
<1> PICK q \in Request : q = hand.to /\ hand.what = q /\ q \in answered
  BY DEF Send, Routed
<1>1. /\ channel' = [channel EXCEPT ![q] = q] /\ loop' = "reading"
      /\ hand' = [to |-> None, what |-> None]
      /\ UNCHANGED <<req, pending, outcome, stop, closer, answered>>
  BY DEF Send
<1>2. hand' \in [to : Request \union {None}, what : Message]
  BY <1>1 DEF Message
<1>3. channel' \in [Request -> Message] /\ channel'[q] = q /\ \A r \in Request \ {q} : channel'[r] = channel[r]
  BY <1>1 DEF TransportTypeOK, Message
<1>4. TransportTypeOK'
  BY <1>1, <1>2, <1>3 DEF TransportTypeOK
<1>5. Routed'
  BY <1>1, <1>3 DEF Routed
<1> QED
  BY <1>1, <1>4, <1>5, Stutters

LEMMA DispatchSound ==
  ASSUME TransportTypeOK, Routed, NEW b \in Callback, Dispatch(b)
  PROVE  Sound
<1>1. TransportTypeOK' /\ Routed' /\ UNCHANGED <<answered, outcome>>
  BY DEF Dispatch, transportVars, TransportTypeOK, Routed
<1> QED
  BY <1>1, Stutters

LEMMA EndOfStreamSound ==
  ASSUME TransportTypeOK, Routed, EndOfStream, UNCHANGED serving
  PROVE  Sound
<1>1. TransportTypeOK' /\ Routed' /\ UNCHANGED <<answered, outcome>>
  BY DEF EndOfStream, TransportTypeOK, Routed
<1> QED
  BY <1>1, Stutters

LEMMA DrainSound ==
  ASSUME TransportTypeOK, Routed, DrainPending, UNCHANGED serving
  PROVE  Sound
<1>1. /\ channel' = [r \in Request |-> IF r \in pending THEN "closed" ELSE channel[r]]
      /\ pending' = {} /\ loop' = "done" /\ UNCHANGED <<req, outcome, hand, stop, closer, answered>>
  BY DEF DrainPending
<1>2. channel' \in [Request -> Message] /\ \A r \in Request : channel'[r] \in {"closed", channel[r]}
  BY <1>1 DEF TransportTypeOK, Message
<1>3. TransportTypeOK'
  BY <1>1, <1>2 DEF TransportTypeOK
<1>4. Routed'
  BY <1>1, <1>2 DEF Routed
<1> QED
  BY <1>1, <1>3, <1>4, Stutters

LEMMA CloseSound ==
  ASSUME TransportTypeOK, Routed, NEW c \in Closer, Close(c) \/ Closed(c), UNCHANGED serving
  PROVE  Sound
<1>1. TransportTypeOK' /\ Routed' /\ UNCHANGED <<answered, outcome>>
  BY DEF Close, Closed, TransportTypeOK, Routed
<1> QED
  BY <1>1, Stutters

LEMMA UnmovedSound ==
  ASSUME TransportTypeOK, Routed, UNCHANGED <<transportVars, serving>>
  PROVE  Sound
<1>1. TransportTypeOK' /\ Routed' /\ UNCHANGED <<answered, outcome>>
  BY DEF transportVars, TransportTypeOK, Routed
<1> QED
  BY <1>1, Stutters

-----------------------------------------------------------------------------
(* Steps of the tools.                                                     *)

At == {"idle", "begun", "allowed", "inside", "effected", "failed", "done"}

ToolTypes ==
  /\ served \subseteq Request
  /\ book \subseteq [type : {"tool.invoked", "tool.failed"}, of : Request \union Callback]
  /\ call \in [Callback -> [tool : Tool, key : Key \union {None}, at : At]]
  /\ copy \in [Callback -> Entries] /\ object \in Entries /\ latest \in Entries
  /\ granted \in BOOLEAN
  /\ removal \in {"no", "stopping", "revoking", "deleting", "done"}

Booked == \A e \in book : e.of \in Request /\ e.type = "tool.invoked" => e.of \in answered

LEMMA Parts == IInv <=> TransportTypeOK /\ ToolTypes /\ Booked /\ Routed /\ Credentials
BY DEF IInv, InvokedWasAnswered, CallsTypeOK, ToolTypes, Booked, At

LEMMA Together ==
  ASSUME Sound, ToolTypes', Booked', Credentials'
  PROVE  IInv' /\ [Calls!Next]_<<answered, outcome>>
BY DEF IInv, InvokedWasAnswered, CallsTypeOK, ToolTypes, Booked, At, Sound

(* A step of the transport alone.                                          *)
LEMMA WireOnly ==
  ASSUME IInv, Sound, UNCHANGED <<book, call, copy, object, latest, served>>,
         granted' \in BOOLEAN, removal' \in {"no", "stopping", "revoking", "deleting", "done"}
  PROVE  IInv' /\ [Calls!Next]_<<answered, outcome>>
<1>1. ToolTypes'
  BY Parts DEF ToolTypes
<1>2. Booked'
  BY Parts DEF Booked, Sound
<1>3. Credentials'
  BY DEF IInv, Credentials
<1> QED
  BY <1>1, <1>2, <1>3, Together

LEMMA WireKeeps == ASSUME IInv, Wire PROVE IInv' /\ [Calls!Next]_<<answered, outcome>>
<1>1. UNCHANGED <<serving, toolVars>>
  BY DEF Wire
<1>2. TransportTypeOK /\ Routed
  BY Parts
<1>3. ASSUME NEW r \in Request, Calling(r) \/ GiveUp(r) \/ RouteResponse(r) PROVE Sound
  BY <1>1, <1>2, <1>3, WriteSound, ReceiveSound, GiveUpSound, RouteSound DEF Calling
<1>4. ASSUME Send \/ EndOfStream \/ DrainPending PROVE Sound
  BY <1>1, <1>2, <1>4, SendSound, EndOfStreamSound, DrainSound
<1>5. Sound
  BY <1>3, <1>4 DEF Wire
<1>6. granted' \in BOOLEAN /\ removal' \in {"no", "stopping", "revoking", "deleting", "done"}
  BY <1>1, Parts DEF toolVars, ToolTypes
<1> QED
  BY <1>1, <1>5, <1>6, WireOnly DEF toolVars

LEMMA ForwardKeeps ==
  ASSUME IInv, NEW r \in Request, Forward(r) PROVE IInv' /\ [Calls!Next]_<<answered, outcome>>
<1>1. Sound
  BY Parts, RegisterSound DEF Forward
<1>2. granted' \in BOOLEAN /\ removal' \in {"no", "stopping", "revoking", "deleting", "done"}
  BY Parts DEF Forward, toolVars, ToolTypes
<1> QED
  BY <1>1, <1>2, WireOnly DEF Forward, toolVars

LEMMA CloseKeeps ==
  ASSUME IInv, NEW c \in Closer, Uninstall(c) \/ Stopped(c) PROVE IInv' /\ [Calls!Next]_<<answered, outcome>>
<1>1. Sound
  BY Parts, CloseSound DEF Uninstall, Stopped
<1>2. granted' \in BOOLEAN /\ removal' \in {"no", "stopping", "revoking", "deleting", "done"}
  BY Parts DEF Uninstall, Stopped, ToolTypes
<1> QED
  BY <1>1, <1>2, WireOnly DEF Uninstall, Stopped

LEMMA RevokeKeeps == ASSUME IInv, RevokeGrants PROVE IInv' /\ [Calls!Next]_<<answered, outcome>>
<1>1. Sound
  BY Parts, UnmovedSound DEF RevokeGrants
<1> QED
  BY <1>1, WireOnly DEF RevokeGrants

(* The handler has its answer from Request, and what that is depends on    *)
(* whether the peer has answered.                                          *)
LEMMA ReturnsKeeps ==
  ASSUME IInv, NEW r \in Request, ToolsCallReturns(r)
  PROVE  IInv' /\ [Calls!Next]_<<answered, outcome>>
<1>1. Sound
  BY Parts, UnmovedSound DEF ToolsCallReturns
<1>2. /\ served' = served \union {r} /\ book' \subseteq book \union {Entry(r)}
      /\ UNCHANGED <<answered, outcome, call, copy, object, latest, granted, removal>>
  BY DEF ToolsCallReturns, transportVars
<1>3. /\ Entry(r) \in [type : {"tool.invoked", "tool.failed"}, of : Request \union Callback]
      /\ Entry(r).of = r /\ (Entry(r).type = "tool.invoked" => r \in answered)
  BY DEF Entry, IInv, Routed
<1>4. ToolTypes'
  BY <1>2, <1>3, Parts DEF ToolTypes
<1>5. Booked'
  BY <1>2, <1>3, Parts DEF Booked
<1>6. Credentials'
  BY <1>2 DEF IInv, Credentials
<1> QED
  BY <1>1, <1>4, <1>5, <1>6, Together

(* Where a step leaves the callback that takes it.                         *)
LEMMA Own ==
  ASSUME ToolTypes, NEW b \in Callback, NEW to \in At, Goes(b, to)
  PROVE  /\ call' \in [Callback -> [tool : Tool, key : Key \union {None}, at : At]]
         /\ call'[b].at = to /\ \A d \in Callback \ {b} : call'[d] = call[d]
<1> DEFINE moved == [call[b] EXCEPT !.at = to]
<1>1. moved \in [tool : Tool, key : Key \union {None}, at : At] /\ moved.at = to
  BY DEF ToolTypes
<1>2. call' = [call EXCEPT ![b] = moved]
  BY DEF Goes
<1> HIDE DEF moved
<1> QED
  BY <1>1, <1>2 DEF ToolTypes

(* A callback that leaves the object alone, and enters the lock with a     *)
(* copy of it or not at all.                                               *)
LEMMA CallbackMoves ==
  ASSUME IInv, NEW b \in Callback, Sound, answered' = answered,
         UNCHANGED <<object, latest, served, granted, removal>>,
         call' \in [Callback -> [tool : Tool, key : Key \union {None}, at : At]],
         \A d \in Callback \ {b} : call'[d] = call[d],
         copy' \in [Callback -> Entries], \A d \in Callback \ {b} : copy'[d] = copy[d],
         call'[b].at = "inside" => copy'[b] = object /\ \A d \in Callback \ {b} : call[d].at # "inside",
         NEW entry \in [type : {"tool.invoked", "tool.failed"}, of : Callback],
         book' \subseteq book \union {entry}
  PROVE  IInv' /\ [Calls!Next]_<<answered, outcome>>
<1>1. ToolTypes'
  BY Parts DEF ToolTypes
<1>2. entry.of \notin Request
  BY CallsAssumption
<1>3. Booked'
  BY <1>2, Parts DEF Booked
<1>4. Credentials'
  BY DEF IInv, Credentials
<1> QED
  BY <1>1, <1>3, <1>4, Together

(* The same without an entry, and without a copy.                          *)
LEMMA CallbackOnly ==
  ASSUME IInv, NEW b \in Callback, Sound, answered' = answered,
         UNCHANGED <<object, latest, served, granted, removal, copy, book>>,
         call' \in [Callback -> [tool : Tool, key : Key \union {None}, at : At]],
         \A d \in Callback \ {b} : call'[d] = call[d], call'[b].at # "inside"
  PROVE  IInv' /\ [Calls!Next]_<<answered, outcome>>
<1>1. copy' \in [Callback -> Entries]
  BY Parts DEF ToolTypes
<1>2. [type |-> "tool.failed", of |-> b] \in [type : {"tool.invoked", "tool.failed"}, of : Callback]
  OBVIOUS
<1> QED
  BY <1>1, <1>2, CallbackMoves

LEMMA ReceivesKeeps ==
  ASSUME IInv, NEW b \in Callback, NEW tool \in Tool, NEW key \in Key \union {None}, Receives(b, tool, key)
  PROVE  IInv' /\ [Calls!Next]_<<answered, outcome>>
<1>1. Sound /\ answered' = answered
  BY Parts, DispatchSound DEF Receives, Dispatch, transportVars
<1> DEFINE begun == [tool |-> tool, key |-> key, at |-> IF tool = "other" THEN "done" ELSE "begun"]
<1>2. begun \in [tool : Tool, key : Key \union {None}, at : At] /\ begun.at # "inside"
  BY DEF At
<1> HIDE DEF begun
<1>3. call' = [call EXCEPT ![b] = begun]
  BY DEF Receives, begun
<1>4. /\ call' \in [Callback -> [tool : Tool, key : Key \union {None}, at : At]]
      /\ call'[b].at # "inside" /\ \A d \in Callback \ {b} : call'[d] = call[d]
  BY <1>2, <1>3, Parts DEF ToolTypes
<1> QED
  BY <1>1, <1>4, CallbackOnly DEF Receives

LEMMA CheckKeeps ==
  ASSUME IInv, NEW b \in Callback, Check(b) PROVE IInv' /\ [Calls!Next]_<<answered, outcome>>
<1>1. Sound /\ answered' = answered
  BY Parts, UnmovedSound DEF Check, transportVars
<1>2. PICK to \in {"allowed", "done"} : Goes(b, to)
  BY DEF Check
<1>3. /\ call' \in [Callback -> [tool : Tool, key : Key \union {None}, at : At]]
      /\ call'[b].at # "inside" /\ \A d \in Callback \ {b} : call'[d] = call[d]
  BY <1>2, Parts, Own DEF At
<1> QED
  BY <1>1, <1>3, CallbackOnly DEF Check

(* A callback enters the lock alone.                                       *)
LEMMA ReadKeeps ==
  ASSUME IInv, NEW b \in Callback, Read(b) PROVE IInv' /\ [Calls!Next]_<<answered, outcome>>
<1>1. Sound /\ answered' = answered
  BY Parts, UnmovedSound DEF Read, transportVars
<1>2. CASE Goes(b, "inside") /\ copy' = [copy EXCEPT ![b] = object]
  <2>1. /\ call' \in [Callback -> [tool : Tool, key : Key \union {None}, at : At]]
        /\ \A d \in Callback \ {b} : call'[d] = call[d]
    BY <1>2, Parts, Own DEF At
  <2>2. copy' \in [Callback -> Entries] /\ copy'[b] = object /\ \A d \in Callback \ {b} : copy'[d] = copy[d]
    BY <1>2, Parts DEF ToolTypes
  <2>3. \A d \in Callback \ {b} : call[d].at # "inside"
    BY DEF Read, Locked, SameLock
  <2>4. [type |-> "tool.failed", of |-> b] \in [type : {"tool.invoked", "tool.failed"}, of : Callback]
    OBVIOUS
  <2> QED
    BY <1>1, <2>1, <2>2, <2>3, <2>4, CallbackMoves DEF Read
<1>3. CASE Goes(b, "failed") /\ UNCHANGED copy
  <2>1. /\ call' \in [Callback -> [tool : Tool, key : Key \union {None}, at : At]]
        /\ call'[b].at # "inside" /\ \A d \in Callback \ {b} : call'[d] = call[d]
    BY <1>3, Parts, Own DEF At
  <2> QED
    BY <1>1, <1>3, <2>1, CallbackOnly DEF Read
<1> QED
  BY <1>2, <1>3 DEF Read

(* The callback inside the lock writes what it read but for its own key.   *)
LEMMA StoreKeeps ==
  ASSUME IInv, NEW b \in Callback, Store(b) PROVE IInv' /\ [Calls!Next]_<<answered, outcome>>
<1>1. Sound /\ answered' = answered
  BY Parts, UnmovedSound DEF Store, transportVars
<1>2. PICK to \in {"effected", "failed"} :
        /\ Goes(b, to)
        /\ \/ /\ object' = [copy[b] EXCEPT ![call[b].key] = Value(b)]
              /\ latest' = [latest EXCEPT ![call[b].key] = Value(b)]
           \/ UNCHANGED <<object, latest>>
  BY DEF Store
<1>3. /\ call[b].at = "inside" /\ copy' = [copy EXCEPT ![b] = Nothing]
      /\ UNCHANGED <<served, book, granted, removal>>
  BY DEF Store
<1>4. /\ call' \in [Callback -> [tool : Tool, key : Key \union {None}, at : At]]
      /\ call'[b].at # "inside" /\ \A d \in Callback \ {b} : call'[d] = call[d]
  BY <1>2, Parts, Own DEF At
<1>5. Nothing \in Entries /\ Value(b) \in Callback \union {None}
  BY DEF Nothing, Entries, Value
<1>6. object' \in Entries /\ latest' \in Entries /\ object' = latest'
  <2>1. copy[b] = object /\ object = latest /\ object \in Entries
    BY <1>3, Parts DEF Credentials, ToolTypes
  <2> QED
    BY <1>2, <1>5, <2>1 DEF Entries
<1>7. copy' \in [Callback -> Entries]
  BY <1>3, <1>5, Parts DEF ToolTypes
<1>8. ToolTypes'
  BY <1>3, <1>4, <1>6, <1>7, Parts DEF ToolTypes
<1>9. Booked'
  BY <1>1, <1>3, Parts DEF Booked
<1>10. Credentials'
  BY <1>3, <1>4, <1>6 DEF IInv, Credentials
<1> QED
  BY <1>1, <1>8, <1>9, <1>10, Together

LEMMA GetKeeps ==
  ASSUME IInv, NEW b \in Callback, Get(b) PROVE IInv' /\ [Calls!Next]_<<answered, outcome>>
<1>1. Sound /\ answered' = answered
  BY Parts, UnmovedSound DEF Get, transportVars
<1>2. /\ call' \in [Callback -> [tool : Tool, key : Key \union {None}, at : At]]
      /\ call'[b].at # "inside" /\ \A d \in Callback \ {b} : call'[d] = call[d]
  BY Parts, Own DEF At, Get
<1>3. copy' = [copy EXCEPT ![b] = Nothing] /\ Nothing \in Entries
  BY DEF Get, Nothing, Entries
<1>4. copy' \in [Callback -> Entries] /\ \A d \in Callback \ {b} : copy'[d] = copy[d]
  BY <1>3, Parts DEF ToolTypes
<1>5. [type |-> "tool.failed", of |-> b] \in [type : {"tool.invoked", "tool.failed"}, of : Callback]
  OBVIOUS
<1> QED
  BY <1>1, <1>2, <1>4, <1>5, CallbackMoves DEF Get

LEMMA RecordKeeps ==
  ASSUME IInv, NEW b \in Callback, Record(b) PROVE IInv' /\ [Calls!Next]_<<answered, outcome>>
<1>1. Sound /\ answered' = answered
  BY Parts, UnmovedSound DEF Record, transportVars
<1>2. /\ call' \in [Callback -> [tool : Tool, key : Key \union {None}, at : At]]
      /\ call'[b].at # "inside" /\ \A d \in Callback \ {b} : call'[d] = call[d]
  BY Parts, Own DEF At, Record
<1> DEFINE entry == [type |-> IF call[b].at = "effected" THEN "tool.invoked" ELSE "tool.failed", of |-> b]
<1>3. entry \in [type : {"tool.invoked", "tool.failed"}, of : Callback]
  OBVIOUS
<1>4. book' \subseteq book \union {entry}
  BY DEF Record
<1>5. copy' \in [Callback -> Entries] /\ copy' = copy
  BY Parts DEF Record, ToolTypes
<1> HIDE DEF entry
<1> QED
  BY <1>1, <1>2, <1>3, <1>4, <1>5, CallbackMoves DEF Record

(* The object goes while nobody holds a copy of it.                        *)
LEMMA DeleteKeeps == ASSUME IInv, DeleteAll PROVE IInv' /\ [Calls!Next]_<<answered, outcome>>
<1>1. Sound /\ answered' = answered
  BY Parts, UnmovedSound DEF DeleteAll, transportVars
<1>2. Nothing \in Entries
  BY DEF Nothing, Entries
<1>3. ToolTypes' /\ Booked'
  BY <1>1, <1>2, Parts DEF DeleteAll, ToolTypes, Booked
<1>4. Credentials'
  BY DEF DeleteAll, IInv, Credentials
<1> QED
  BY <1>1, <1>3, <1>4, Together

LEMMA StandsStill == ASSUME IInv, UNCHANGED vars PROVE IInv' /\ [Calls!Next]_<<answered, outcome>>
<1>1. Sound
  BY Parts, UnmovedSound DEF vars
<1>2. granted' \in BOOLEAN /\ removal' \in {"no", "stopping", "revoking", "deleting", "done"}
  BY Parts DEF vars, toolVars, ToolTypes
<1> QED
  BY <1>1, <1>2, WireOnly DEF vars, toolVars

LEMMA NextKeeps == ASSUME IInv, [Next]_vars PROVE IInv' /\ [Calls!Next]_<<answered, outcome>>
<1>1. ASSUME NEW b \in Callback, Serve(b) PROVE IInv' /\ [Calls!Next]_<<answered, outcome>>
  BY <1>1, CheckKeeps, ReadKeeps, StoreKeeps, GetKeeps, RecordKeeps DEF Serve
<1>2. ASSUME NEW b \in Callback,
             Receives(b, "other", None) \/ \E tool \in Tool \ {"other"}, key \in Key : Receives(b, tool, key)
      PROVE  IInv' /\ [Calls!Next]_<<answered, outcome>>
  BY <1>2, ReceivesKeeps DEF Tool
<1>3. ASSUME NEW r \in Request, Forward(r) \/ ToolsCallReturns(r)
      PROVE  IInv' /\ [Calls!Next]_<<answered, outcome>>
  BY <1>3, ForwardKeeps, ReturnsKeeps
<1>4. ASSUME NEW c \in Closer, Uninstall(c) \/ Stopped(c) PROVE IInv' /\ [Calls!Next]_<<answered, outcome>>
  BY <1>4, CloseKeeps
<1>5. ASSUME Wire \/ RevokeGrants \/ DeleteAll PROVE IInv' /\ [Calls!Next]_<<answered, outcome>>
  BY <1>5, WireKeeps, RevokeKeeps, DeleteKeeps
<1> QED
  BY <1>1, <1>2, <1>3, <1>4, <1>5, StandsStill DEF Next

LEMMA InitHolds == Init => IInv /\ Calls!Init
<1> SUFFICES ASSUME Init PROVE IInv /\ Calls!Init
  OBVIOUS
<1>1. TransportTypeOK
  BY DEF Init, TransportInit, TransportTypeOK, Message
<1>2. ToolTypes
  <2>1. Nothing \in Entries /\ NoCall \in [tool : Tool, key : Key \union {None}, at : At] /\ NoCall.at = "idle"
    BY DEF Nothing, Entries, NoCall, Tool, At
  <2> QED
    BY <2>1 DEF Init, ToolTypes
<1>3. Booked /\ Routed
  BY DEF Init, TransportInit, Booked, Routed
<1>4. Credentials
  BY DEF Init, Credentials, NoCall
<1>5. Calls!Init
  BY DEF Init, TransportInit, Calls!Init
<1> QED
  BY <1>1, <1>2, <1>3, <1>4, <1>5, Parts

-----------------------------------------------------------------------------
(* transport.go, mcp/tools.go, credentials_store.go: whatever is sent,     *)
(* answered, repeated, abandoned or closed, IInv holds.                    *)
THEOREM Invariance == Spec => []IInv
<1>1. Init => IInv
  BY InitHolds
<1>2. IInv /\ [Next]_vars => IInv'
  BY NextKeeps
<1> QED
  BY <1>1, <1>2, PTL DEF Spec

(* Transport.Request: a call ends once, with the peer's answer to that     *)
(* very call or with a failure, whatever the peer repeats, reorders or     *)
(* invents and whenever the transport stops.                               *)
THEOREM Implements == Spec => ImplementsCalls
<1>1. Init => Calls!Init
  BY InitHolds
<1>2. IInv /\ [Next]_vars => [Calls!Next]_<<answered, outcome>>
  BY NextKeeps
<1> QED
  BY <1>1, <1>2, Invariance, PTL DEF Spec, ImplementsCalls, Calls!Spec

(* handleToolsCall: an entry tool.invoked of a client's call means that    *)
(* the capsule answered that call.                                         *)
THEOREM InvokedAnswered == Spec => []InvokedWasAnswered
<1>1. IInv => InvokedWasAnswered
  BY DEF IInv
<1> QED
  BY <1>1, Invariance, PTL

(* credentials_store.go: no set or delete of one key undoes that of        *)
(* another, though each rewrites the whole object.                         *)
THEOREM CredentialsKept == Spec => []NoLostCredential
<1>1. IInv => NoLostCredential
  BY DEF IInv, Credentials, NoLostCredential
<1> QED
  BY <1>1, Invariance, PTL
=============================================================================
