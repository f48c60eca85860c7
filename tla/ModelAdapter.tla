---------------------------- MODULE ModelAdapter ----------------------------
(***************************************************************************)
(* adapter/model: one adapter over a provider, and its calls.  A streamed  *)
(* answer is read by a goroutine that turns the provider's lines into      *)
(* chunks on a bounded channel and closes it; the reader may drain the     *)
(* channel, cancel its context, or walk away.  The kinds of adapter differ *)
(* in what they refuse, in how a line is read and in what Close takes away.*)
(* Texts, prices and headers are left out.                                 *)
(***************************************************************************)
EXTENDS Naturals, Sequences

CONSTANTS
  Caller,
  Capabilities,  \* the catalog: the capabilities of each model
  Other,         \* a model that is in no catalog
  Room,          \* the capacity of a channel (16 in the code)
  MaxLines,      \* bound: lines of a provider's answer
  MaxCalls       \* bound: calls made

VARIABLES
  kind,          \* which adapter
  inited, client,\* Adapter.inited, and whether there is an HTTP client
  request,       \* the calls: operation, model, messages, and where each stands
  stream,        \* what is left of the answer, the channel, what was read
  requests       \* calls made

ModelParameters == Room \in Nat

modelVars == <<kind, inited, client, request, stream, requests>>

Kind == {"openai", "ollama", "anthropic", "dummy", "none"}
Models == DOMAIN Capabilities
Messages == {<<>>, <<"system">>, <<"system", "user">>}

(* What a line of the provider holds: nothing of use, a text, a text with  *)
(* the mark of the end (ollama), or the mark alone.                        *)
Line == {"noise", "text", "textAndEnd", "end"}

NoStream == [at |-> "none", left |-> <<>>, whole |-> FALSE, next |-> <<>>, chan |-> <<>>,
             got |-> <<>>, reader |-> "reading", body |-> FALSE]

ModelInit ==
  /\ kind \in Kind
  /\ inited = FALSE /\ client = FALSE
  /\ request = [c \in Caller |-> [at |-> "idle", op |-> "none"]]
  /\ stream = [c \in Caller |-> NoStream]
  /\ requests = 0

ModelTypeOK ==
  /\ inited \in BOOLEAN /\ client \in BOOLEAN
  /\ \A c \in Caller :
       /\ request[c].at \in {"idle", "send", "ok", "error", "panic"}
       /\ stream[c].at \in {"none", "reading", "ended", "closed"}
       /\ Len(stream[c].chan) <= Room

-----------------------------------------------------------------------------
(* Init, which a missing or malformed setting refuses.  A start makes its  *)
(* adapters anew: after calls were made, there is no second Init.          *)
Open ==
  /\ ~ inited /\ ~ client /\ requests = 0
  /\ inited' = TRUE /\ client' = (kind \notin {"dummy", "none"})
  /\ UNCHANGED <<kind, request, stream, requests>>

(* openai: the model is in the catalog, with "text" for an answer.         *)
OpenAIGenerates(m) == m \in Models /\ "text" \in Capabilities[m]
OpenAIEmbeds(m) == m \in Models /\ "embeddings" \in Capabilities[m]

(* ollama: the user's catalog, with the capability that is asked for.      *)
OllamaServes(m, capability) == m \in Models /\ capability \in Capabilities[m]

(* anthropic: any model of the catalog answers, and none embeds.           *)
AnthropicServes(m, op) == m \in Models /\ op # "embed"

(* dummy: one model answers and one embeds.                                *)
DummyServes(m, op) ==
  m \in Models /\ (IF op = "embed" THEN OpenAIEmbeds(m) ELSE OpenAIGenerates(m))

Serves(m, op) ==
  CASE kind = "openai" -> IF op = "embed" THEN OpenAIEmbeds(m) ELSE OpenAIGenerates(m)
    [] kind = "ollama" -> OllamaServes(m, IF op = "embed" THEN "embeddings" ELSE "text")
    [] kind = "anthropic" -> AnthropicServes(m, op)
    [] kind = "dummy" -> DummyServes(m, op)
    [] OTHER -> FALSE

(* The body of a request: anthropic takes the system messages out and      *)
(* wants another one, ollama wants any, openai and dummy take none.        *)
AnthropicBody(messages) == \E i \in DOMAIN messages : messages[i] # "system"
OllamaBody(messages) == messages # <<>>

Encodes(op, messages) ==
  op = "embed" \/ CASE kind = "anthropic" -> AnthropicBody(messages)
                    [] kind = "ollama" -> OllamaBody(messages)
                    [] OTHER -> TRUE

(* Generate, GenerateStream and Embed, up to the request.                  *)
Call(c, op, m, messages) ==
  /\ request[c].at \in {"idle", "ok", "error"} /\ requests < MaxCalls
  /\ stream[c].at \in {"none", "closed"}
  /\ requests' = requests + 1
  /\ request' = [request EXCEPT ![c] =
       [op |-> op, at |-> IF inited /\ Serves(m, op) /\ Encodes(op, messages) THEN "send" ELSE "error"]]
  /\ stream' = [stream EXCEPT ![c] = NoStream]
  /\ UNCHANGED <<kind, inited, client>>

(* The request: by a client that Close may have taken away since; it fails *)
(* or times out, is refused, cannot be read, or (openai) is empty.         *)
Send(c) ==
  /\ request[c].at = "send" /\ request[c].op # "stream"
  /\ request' = [request EXCEPT ![c].at =
       IF kind = "openai" /\ ~ client THEN "panic" ELSE "ok"]
  /\ UNCHANGED <<kind, inited, client, stream, requests>>

SendFails(c) ==
  /\ request[c].at = "send" /\ kind # "dummy" /\ (kind = "openai" => client)
  /\ request' = [request EXCEPT ![c].at = "error"]
  /\ UNCHANGED <<kind, inited, client, stream, requests>>

Answers == UNION {[1 .. n -> Line] : n \in 0 .. MaxLines}

(* GenerateStream returns once the goroutine that reads the body is there; *)
(* the provider's connection may break before its answer is whole.         *)
StartStream(c) ==
  /\ request[c].at = "send" /\ request[c].op = "stream"
  /\ IF kind = "openai" /\ ~ client
     THEN request' = [request EXCEPT ![c].at = "panic"] /\ UNCHANGED stream
     ELSE /\ request' = [request EXCEPT ![c].at = "ok"]
          /\ \E lines \in Answers, whole \in BOOLEAN :
               stream' = [stream EXCEPT ![c] =
                 [NoStream EXCEPT !.at = "reading", !.left = lines, !.whole = whole, !.body = TRUE]]
  /\ UNCHANGED <<kind, inited, client, requests>>

-----------------------------------------------------------------------------
(* The chunks of a line: openai's [DONE] carries no text, anthropic's      *)
(* message_stop neither, and ollama's last line may.                       *)
OpenAIChunks(line) ==
  CASE line = "text" -> <<"text">> [] line = "end" -> <<"done">> [] OTHER -> <<>>
AnthropicChunks(line) ==
  CASE line = "text" -> <<"text">> [] line = "end" -> <<"done">> [] OTHER -> <<>>
OllamaChunks(line) ==
  CASE line = "text" -> <<"text">> [] line = "textAndEnd" -> <<"text", "done">>
    [] line = "end" -> <<"done">> [] OTHER -> <<>>
DummyChunks(line) == IF line = "text" THEN <<"text">> ELSE <<>>

Chunks(line) ==
  CASE kind = "openai" -> OpenAIChunks(line)
    [] kind = "anthropic" -> AnthropicChunks(line)
    [] kind = "ollama" -> OllamaChunks(line)
    [] OTHER -> DummyChunks(line)

Step(c, s) ==
  /\ stream' = [stream EXCEPT ![c] = s]
  /\ UNCHANGED <<kind, inited, client, request, requests>>

(* parse...Stream: a line is scanned while the context lasts.              *)
Scan(c) ==
  LET s == stream[c] IN
  /\ s.at = "reading" /\ s.next = <<>> /\ s.left # <<>>
  /\ Step(c, IF s.reader = "cancelled" THEN [s EXCEPT !.at = "ended"]
             ELSE [s EXCEPT !.next = Chunks(Head(s.left)), !.left = Tail(s.left)])

(* The end of the body: an error is sent, a plain end is not; the dummy    *)
(* marks the end of its text itself.                                       *)
EndOfBody(c) ==
  LET s == stream[c] IN
  /\ s.at = "reading" /\ s.next = <<>> /\ s.left = <<>>
  /\ Step(c, IF kind = "dummy" THEN [s EXCEPT !.next = <<"done">>]
             ELSE IF s.whole THEN [s EXCEPT !.at = "ended"]
             ELSE [s EXCEPT !.next = <<"error">>])

(* Slip: the reading goes on after the mark of the end.                    *)
EmitOn(c) ==
  LET s == stream[c] IN
  /\ s.at = "reading" /\ s.next # <<>>
  /\ \/ /\ Len(s.chan) < Room
        /\ Step(c, [s EXCEPT !.chan = Append(@, Head(s.next)), !.next = Tail(@),
                             !.at = IF s.left = <<>> THEN "ended" ELSE @])
     \/ /\ s.reader = "cancelled"
        /\ Step(c, [s EXCEPT !.at = "ended", !.next = <<>>])

(* A chunk goes to the channel when there is room, or the context ends.    *)
Emit(c) ==
  LET s == stream[c] IN
  /\ s.at = "reading" /\ s.next # <<>>
  /\ \/ /\ Len(s.chan) < Room
        /\ Step(c, [s EXCEPT !.chan = Append(@, Head(s.next)), !.next = Tail(@),
                             !.at = IF Head(s.next) \in {"done", "error"} THEN "ended" ELSE @])
     \/ /\ s.reader = "cancelled"
        /\ Step(c, [s EXCEPT !.at = "ended", !.next = <<>>])

(* The deferred calls: the body and the channel are closed.                *)
CloseStream(c) ==
  /\ stream[c].at = "ended"
  /\ Step(c, [stream[c] EXCEPT !.at = "closed", !.body = FALSE])

Receive(c) ==
  LET s == stream[c] IN
  /\ s.chan # <<>> /\ s.reader = "reading"
  /\ Step(c, [s EXCEPT !.got = Append(@, Head(s.chan)), !.chan = Tail(@)])

(* The reader cancels its context, or walks away and leaves it alive.      *)
LeaveStream(c) ==
  /\ stream[c].at \in {"reading", "ended"} /\ stream[c].reader = "reading"
  /\ \E to \in {"cancelled", "gone"} : Step(c, [stream[c] EXCEPT !.reader = to])

(* Close, at the daemon's end: openai drops its client, and streams that   *)
(* are open are read to their end.                                         *)
CloseAdapter ==
  /\ inited
  /\ inited' = (kind \in {"dummy", "none"})
  /\ client' = (client /\ kind # "openai")
  /\ UNCHANGED <<kind, request, stream, requests>>

Goroutine(c) == Scan(c) \/ EndOfBody(c) \/ Emit(c) \/ CloseStream(c)

ModelNext ==
  \/ Open \/ CloseAdapter
  \/ \E c \in Caller :
       \/ \E op \in {"generate", "stream", "embed"}, m \in Models \union {Other}, ms \in Messages :
            Call(c, op, m, ms)
       \/ Send(c) \/ SendFails(c) \/ StartStream(c)
       \/ Goroutine(c) \/ Receive(c) \/ LeaveStream(c)

ModelSpec == ModelInit /\ [][ModelNext]_modelVars

(* The goroutine runs, and whoever neither cancels nor walks away receives.*)
ModelFairness == \A c \in Caller : WF_modelVars(Goroutine(c)) /\ WF_modelVars(Receive(c))

-----------------------------------------------------------------------------
(* Properties.                                                             *)

(* A stream that is drained or cancelled is closed, and with it the        *)
(* provider's connection: adapter.go's "the runtime uses ctx to bound work"*)
(* for a goroutine that may be blocked on a full channel.                  *)
StreamEnds ==
  \A c \in Caller :
    (stream[c].at = "reading" /\ stream[c].reader = "cancelled")
      ~> (stream[c].at = "closed" /\ ~ stream[c].body)

(* Texts first, and then at most one mark of the end or error: nothing is  *)
(* delivered after what a reader takes as final.                           *)
EndIsLast ==
  \A c \in Caller :
    LET seen == stream[c].got \o stream[c].chan
    IN \A i \in DOMAIN seen : seen[i] # "text" => i = Len(seen)
=============================================================================
