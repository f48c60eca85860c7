---------------------------- MODULE VectorIndex ----------------------------
(***************************************************************************)
(* The four memory adapters (adapter/memory: sqlite, pgvector, qdrant and  *)
(* chroma).  They differ in who knows the dimension of the vectors: all but*)
(* sqlite take it from their configuration, and the collection they find   *)
(* may have another; sqlite learns it from the first vector, and keeps it  *)
(* in a row and in the memory of the process.                              *)
(***************************************************************************)
EXTENDS Naturals

CONSTANTS
  Id, Vector,
  Dim,          \* the dimension of each vector
  Handle,       \* adapters opened by processes, each with a configured dimension
  Worker,       \* the calls under way
  MaxCalls,     \* bound: calls made
  None

VARIABLES
  backend,
  config,       \* the dimension each handle is configured with
  uses,         \* the handle each worker calls
  table,        \* the dimension of the collection, or of sqlite's meta row; 0: none
  stored,       \* the entries
  handle,       \* Adapter: whether it is inited, and the dimension it holds
  op,           \* the calls
  made          \* calls made

(* No vector is absent, and each has a dimension.                          *)
IndexParameters == None \notin Vector /\ \A v \in Vector : Dim[v] \in Nat \ {0}

indexVars == <<backend, config, uses, table, stored, handle, op, made>>

Backend == {"sqlite", "pgvector", "qdrant", "chroma"}
Dims == {Dim[v] : v \in Vector}
Batch == UNION {[ids -> Vector] : ids \in {I \in SUBSET Id : \E x, y \in I : x # y}}

NoOp == [at |-> "idle", batch |-> <<>>, left |-> {}, query |-> 0]

IndexInit ==
  /\ backend \in Backend
  /\ config \in [Handle -> Dims]
  /\ uses \in [Worker -> Handle]
  /\ backend = "sqlite" => \A v, w \in Worker : uses[v] = uses[w]
  /\ table = 0
  /\ stored = [x \in Id |-> None]
  /\ handle = [h \in Handle |-> [at |-> "closed", dim |-> 0]]
  /\ op = [w \in Worker |-> NoOp] /\ made = 0

IndexTypeOK ==
  /\ table \in Dims \union {0}
  /\ stored \in [Id -> Vector \union {None}]
  /\ handle \in [Handle -> [at : {"closed", "create", "open"}, dim : Dims \union {0}]]
  /\ \A w \in Worker : op[w].left \subseteq DOMAIN op[w].batch

Goes(w, to) == op' = [op EXCEPT ![w].at = to]

-----------------------------------------------------------------------------
Opens(h, h2, t) ==
  /\ handle[h].at = "closed"
  /\ handle' = [handle EXCEPT ![h] = h2] /\ table' = t
  /\ UNCHANGED <<backend, config, uses, stored, op, made>>

(* sqlite's Init applies its schema and reads the dimension.               *)
SqliteInit(h) == backend = "sqlite" /\ Opens(h, [at |-> "open", dim |-> table], table)

(* pgvector's Init makes its table, with a column of its dimension, unless *)
(* there is one (ensureSchemaLocked).                                      *)
PgvectorInit(h) ==
  /\ backend = "pgvector"
  /\ Opens(h, [at |-> "open", dim |-> config[h]], IF table = 0 THEN config[h] ELSE table)

(* qdrant's Init looks for the collection, and creates it in a second      *)
(* request (ensureCollectionLocked).                                       *)
QdrantInit(h) ==
  /\ backend = "qdrant"
  /\ Opens(h, [at |-> IF table = 0 THEN "create" ELSE "open", dim |-> config[h]], table)

(* qdrant refuses to create what exists, and Init fails.                   *)
CreateCollection(h) ==
  /\ handle[h].at = "create"
  /\ table' = IF table = 0 THEN handle[h].dim ELSE table
  /\ handle' = [handle EXCEPT ![h].at = IF table = 0 THEN "open" ELSE "closed"]
  /\ UNCHANGED <<backend, config, uses, stored, op, made>>

(* chroma's Init gets or creates the collection, whose dimension is that of*)
(* the first vector it is given: the configured one is only metadata.      *)
ChromaInit(h) == backend = "chroma" /\ Opens(h, [at |-> "open", dim |-> config[h]], table)

(* Close takes the handle away, and the calls that are using it fail.      *)
Close(h) ==
  /\ handle[h].at = "open"
  /\ handle' = [handle EXCEPT ![h].at = "closed"]
  /\ op' = [w \in Worker |-> IF uses[w] = h /\ op[w] # NoOp THEN [NoOp EXCEPT !.at = "error"] ELSE op[w]]
  /\ UNCHANGED <<backend, config, uses, table, stored, made>>

-----------------------------------------------------------------------------
Call(w, o) ==
  /\ op[w].at \in {"idle", "done", "error"} /\ made < MaxCalls
  /\ handle[uses[w]].at = "open"
  /\ made' = made + 1
  /\ op' = [op EXCEPT ![w] = o]
  /\ UNCHANGED <<backend, config, uses, table, stored, handle>>

Step(w, o) ==
  /\ op' = [op EXCEPT ![w] = o]
  /\ UNCHANGED <<backend, config, uses, table, stored, handle, made>>

(* Upsert and BatchUpsert: every vector is checked before any is written.  *)
Upsert(w, x, v) == Call(w, [NoOp EXCEPT !.at = "check", !.batch = [y \in {x} |-> v], !.left = {x}])

BatchUpsert(w, batch) ==
  Call(w, [NoOp EXCEPT !.at = "check", !.batch = batch, !.left = DOMAIN batch])

Held(w) == handle[uses[w]].dim
DimOf(w, x) == Dim[op[w].batch[x]]

(* pgvector, qdrant and chroma: every vector has the configured dimension. *)
CheckConfigured(w) ==
  /\ op[w].at = "check" /\ backend # "sqlite"
  /\ Step(w, [op[w] EXCEPT !.at =
       IF \A x \in op[w].left : DimOf(w, x) = Held(w) THEN "write" ELSE "error"])

(* sqlite's checkOrSetDimension, under its read lock: one vector after the *)
(* other against what the adapter holds, if anything.                      *)
CheckDimension(w) ==
  /\ op[w].at = "check" /\ backend = "sqlite"
  /\ \/ op[w].left = {} /\ Step(w, [op[w] EXCEPT !.at = "write"])
     \/ \E x \in op[w].left :
          Step(w, IF Held(w) = DimOf(w, x) THEN [op[w] EXCEPT !.left = @ \ {x}]
                  ELSE [op[w] EXCEPT !.at = IF Held(w) = 0 THEN "set" ELSE "error"])

(* Under its write lock: nobody has set it since, and the row is written   *)
(* first.                                                                  *)
(* Slip: it is set without another look.                                   *)
SetUnread(w) ==
  /\ op[w].at = "set"
  /\ \E x \in op[w].left :
       table' = DimOf(w, x) /\ handle' = [handle EXCEPT ![uses[w]].dim = DimOf(w, x)]
  /\ op' = [op EXCEPT ![w].at = "check"]
  /\ UNCHANGED <<backend, config, uses, stored, made>>

SetDimension(w) ==
  /\ op[w].at = "set"
  /\ IF Held(w) # 0 THEN UNCHANGED <<table, handle>>
     ELSE \E x \in op[w].left :
            table' = DimOf(w, x) /\ handle' = [handle EXCEPT ![uses[w]].dim = DimOf(w, x)]
  /\ op' = [op EXCEPT ![w].at = "check"]
  /\ UNCHANGED <<backend, config, uses, stored, made>>

Writes(w, t) ==
  /\ stored' = [x \in Id |-> IF x \in DOMAIN op[w].batch THEN op[w].batch[x] ELSE stored[x]]
  /\ table' = t
  /\ op' = [op EXCEPT ![w].at = "done"]
  /\ UNCHANGED <<backend, config, uses, handle, made>>

(* One transaction; the rows take a vector of any dimension.               *)
SqliteWrite(w) == op[w].at = "write" /\ backend = "sqlite" /\ Writes(w, table)

(* Slip: the statements are sent one by one.                               *)
PgvectorWriteEach(w) ==
  /\ op[w].at = "write" /\ backend = "pgvector"
  /\ \A x \in DOMAIN op[w].batch : DimOf(w, x) = table
  /\ \E x \in DOMAIN op[w].batch :
       /\ stored' = [stored EXCEPT ![x] = op[w].batch[x]]
       /\ op' = [op EXCEPT ![w].batch = [y \in DOMAIN @ \ {x} |-> @[y]],
                          ![w].at = IF DOMAIN op[w].batch = {x} THEN "done" ELSE @]
  /\ UNCHANGED <<backend, config, uses, table, handle, made>>

(* One batch of statements, in one transaction of the server, whose column *)
(* takes its own dimension only.                                           *)
PgvectorWrite(w) ==
  /\ op[w].at = "write" /\ backend = "pgvector"
  /\ \A x \in DOMAIN op[w].batch : DimOf(w, x) = table
  /\ Writes(w, table)

(* One request (batchUpsertLocked), which waits for the write.             *)
QdrantWrite(w) ==
  /\ op[w].at = "write" /\ backend = "qdrant"
  /\ \A x \in DOMAIN op[w].batch : DimOf(w, x) = table
  /\ Writes(w, table)

ChromaWrite(w) ==
  /\ op[w].at = "write" /\ backend = "chroma"
  /\ \A x \in DOMAIN op[w].batch : DimOf(w, x) = (IF table = 0 THEN Held(w) ELSE table)
  /\ Writes(w, Held(w))

Delete(w, x) == Call(w, [NoOp EXCEPT !.at = "delete", !.batch = [y \in {x} |-> None]])

Remove(w) == op[w].at = "delete" /\ Writes(w, table)

(* Search: the query's dimension is compared with the one the adapter      *)
(* holds, and the scan, or the server, meets the vectors of a later moment.*)
Search(w, d) ==
  /\ Held(w) = d \/ (backend = "sqlite" /\ Held(w) = 0)
  /\ Call(w, [NoOp EXCEPT !.at = "scan", !.query = d])

Scan(w) == op[w].at = "scan" /\ Step(w, [op[w] EXCEPT !.at = "done"])

(* A request or a statement fails, or is refused.                          *)
OpFails(w) ==
  op[w].at \in {"set", "write", "delete", "scan"} /\ Step(w, [op[w] EXCEPT !.at = "error"])

IndexNext ==
  \/ \E h \in Handle :
       \/ SqliteInit(h) \/ PgvectorInit(h) \/ QdrantInit(h) \/ ChromaInit(h)
       \/ CreateCollection(h) \/ Close(h)
  \/ \E w \in Worker :
       \/ \E x \in Id, v \in Vector : Upsert(w, x, v)
       \/ \E batch \in Batch : BatchUpsert(w, batch)
       \/ CheckConfigured(w) \/ CheckDimension(w) \/ SetDimension(w)
       \/ SqliteWrite(w) \/ PgvectorWrite(w) \/ QdrantWrite(w) \/ ChromaWrite(w)
       \/ \E x \in Id : Delete(w, x)
       \/ Remove(w) \/ Scan(w) \/ OpFails(w)
       \/ \E d \in Dims : Search(w, d)

IndexSpec == IndexInit /\ [][IndexNext]_indexVars

-----------------------------------------------------------------------------
(* Properties.                                                             *)

VS == INSTANCE VectorStore WITH
        asked <- [w \in Worker |-> IF op[w].at \in {"check", "set", "write", "delete"} THEN op[w].batch ELSE <<>>]

(* Every backend is the map that adapter.go describes: a call whose check, *)
(* request or adapter fails leaves nothing, and one that succeeds writes   *)
(* all it was asked to, in one step among the other calls'.                *)
ImplementsStore == VS!Spec

(* The vectors of an index have one dimension, the one it keeps, though    *)
(* the first vectors of an empty sqlite index arrive at once and configured*)
(* dimensions differ from the collection's.                                *)
OneDimension == \A x \in Id : stored[x] # None => Dim[stored[x]] = table

(* A scan compares the query with vectors of its own dimension, whose      *)
(* components dotProduct walks together.                                   *)
ScanComparesLike ==
  \A w \in Worker : op[w].at = "scan" /\ backend = "sqlite" =>
     \A x \in Id : stored[x] # None => Dim[stored[x]] = op[w].query
=============================================================================
