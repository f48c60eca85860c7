----------------------------- MODULE ModelPick -----------------------------
(***************************************************************************)
(* Which adapter and which model the daemon takes for embeddings and for   *)
(* text (cli/start.go), and what memory.query and model.call make of it    *)
(* (internal/mcp).  An adapter is the sequence of the models that it       *)
(* advertises, a model is [id, caps]; model:none advertises none.          *)
(***************************************************************************)
EXTENDS Integers, FiniteSetsExt

CONSTANT None

ModelNone == <<>>

Able(models, cap) == {i \in DOMAIN models : cap \in models[i].caps}
Offers(models, cap) == Able(models, cap) # {}

(* pickEmbeddingModelID and pickGenerativeModel: the first that can.       *)
FirstModel(models, cap) == IF Offers(models, cap) THEN models[Min(Able(models, cap))].id ELSE None

(* pickEmbeddingAdapter and pickGenerativeAdapter: the first adapter with  *)
(* such a model, or model:none.                                            *)
FirstAdapter(adapters, cap) ==
  LET able == {i \in DOMAIN adapters : Offers(adapters[i], cap)}
  IN IF able = {} THEN ModelNone ELSE adapters[Min(able)]

EmbeddingAdapter(adapters) == FirstAdapter(adapters, "embeddings")
GenerativeAdapter(adapters) == FirstAdapter(adapters, "text")

(* Adapter.Embed and Adapter.Generate refuse a model that cannot.          *)
CanServe(models, id, cap) == \E i \in DOMAIN models : models[i].id = id /\ cap \in models[i].caps

-----------------------------------------------------------------------------
(* embeddingAdapterBridge.Embed: the model is looked up once; without one  *)
(* an entry is stored without a vector.                                    *)
EntryModel(adapters) == FirstModel(EmbeddingAdapter(adapters), "embeddings")

(* pickEmbeddingModel: the model that the client names, if the adapter has *)
(* it, or else the first that embeds.                                      *)
QueryModel(adapters, requested) ==
  LET a == EmbeddingAdapter(adapters)
  IN IF requested = None THEN FirstModel(a, "embeddings")
     ELSE IF \E i \in DOMAIN a : a[i].id = requested THEN requested
     ELSE "unknown"

(* memory.query: what the client gets, by which model and how many.        *)
Answer(is, by, k) == [is |-> is, by |-> by, k |-> k]
Clamp(k) == IF k <= 0 THEN 10 ELSE IF k > 100 THEN 100 ELSE k

MemoryQuery(adapters, query, requested, k) ==
  LET model == QueryModel(adapters, requested) IN
  IF query = "" THEN Answer("invalid", None, 0)
  ELSE IF model = None THEN Answer("unavailable", None, 0)
  ELSE IF model = "unknown" THEN Answer("failed", None, 0)
  ELSE IF ~ CanServe(EmbeddingAdapter(adapters), model, "embeddings") THEN Answer("backend", model, 0)
  ELSE Answer("hits", model, Clamp(k))

(* model.call: a named model goes to the adapter as it is.                 *)
ModelCall(adapters, messages, requested) ==
  LET a == GenerativeAdapter(adapters)
      model == IF requested = None THEN FirstModel(a, "text") ELSE requested
  IN IF messages = <<>> THEN Answer("invalid", None, 0)
     ELSE IF model = None \/ a = ModelNone THEN Answer("unavailable", None, 0)
     ELSE IF ~ CanServe(a, model, "text") THEN Answer("backend", model, 0)
     ELSE Answer("text", model, 0)

-----------------------------------------------------------------------------
(* Properties, of every input of a run.                                    *)

(* The vectors that a query is compared with come from the model that the  *)
(* query's own comes from, though the entries' model is looked up in the   *)
(* layer and the query's in the tool, unless the client names a model; and *)
(* a query finds no model just where the entries got no vector.            *)
OneSpace(adapters, k) ==
  LET answer == MemoryQuery(adapters, "q", None, k)
  IN /\ answer.is = "hits" => answer.by = EntryModel(adapters) /\ answer.k \in 1 .. 100
     /\ answer.is = "unavailable" <=> EntryModel(adapters) = None
     /\ answer.is \in {"hits", "unavailable"}

(* A call that names no model is served as soon as one adapter can write,  *)
(* and explained if none can.                                              *)
CallServed(adapters) ==
  ModelCall(adapters, <<"hi">>, None).is =
    IF \E i \in DOMAIN adapters : Offers(adapters[i], "text") THEN "text" ELSE "unavailable"

(* A user who has configured no model gets an explanation and no failed    *)
(* call, whatever the client asked for (memory.query's description: "When  *)
(* the user has no model adapter configured, returns isError with an       *)
(* explanation").                                                          *)
NoModelExplains(adapters, requested) ==
  adapters = <<>> => MemoryQuery(adapters, "q", requested, 1).is = "unavailable"
=============================================================================
