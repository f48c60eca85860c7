------------------------------ MODULE MCStores ------------------------------
(***************************************************************************)
(* What the runtime stores and how it decides, checked in one run: the     *)
(* memory layer, the adapters below it, the object store, the migrations   *)
(* of the database, the passes of the two sources and the expiry filter,   *)
(* and four pure rules.  A behaviour is one of a single part, which the    *)
(* first state names; a rule has one state for each of its inputs.         *)
(***************************************************************************)
EXTENDS Integers, Sequences, FiniteSets, TLC

CONSTANTS
  Worker, Handle, Id, Process, Path, None,
  Letter, Now,                        \* MemoryLayer, and its bound
  MaxUpserts,
  Vector, Dim,                        \* VectorIndex, and its bound
  MaxWrites,
  Body,                               \* ObjectStore, and its bounds
  MaxStarts, MaxAccesses,
  Plan, Versions, Canonical,          \* StoreMigration, and its bound
  MaxOpens,
  File, Content, MaxFiles,            \* FileSync, and its bound
  MaxChanges,
  Message, Page, MaxFullSync, FirstId, \* GmailSync, and its bound
  LastId,
  MaxPasses,                          \* the bound of both
  Base, Digits, MaxSec                \* ExpiryFilter

VARIABLES
  part, input,
  index, entities, owner, links, threads, threadLinks, mu, call, calls, torn,
  backend, config, uses, table, stored, handle, op, made,
  service, keyFile, mine, objects, temps, access, keys, accesses,
  applied, recorded, tx, capabilities, proc, opens,
  dir, storage, memory, cursor, pass, passes, changes, touched, blamed,
  mail, log, now, oldest, emails, mailMemory, mailCursor, mailPass, mailPasses, mailBlamed,
  expires, clock

layerVars     == <<index, entities, owner, links, threads, threadLinks, mu, call, calls, torn>>
indexVars     == <<backend, config, uses, table, stored, handle, op, made>>
storeVars     == <<service, keyFile, mine, objects, temps, access, keys, accesses>>
migrationVars == <<applied, recorded, tx, capabilities, proc, opens>>
fileVars      == <<dir, storage, memory, cursor, pass, passes, changes, touched, blamed>>
mailVars      == <<mail, log, now, oldest, emails, mailMemory, mailCursor, mailPass, mailPasses, mailBlamed>>
expiryVars    == <<expires, clock>>

-----------------------------------------------------------------------------
L == INSTANCE MemoryLayer WITH
       Process <- {"daemon"}, ProcessOf <- [w \in Worker |-> "daemon"], MaxCalls <- MaxUpserts

V == INSTANCE VectorIndex WITH MaxCalls <- MaxWrites
O == INSTANCE ObjectStore WITH Caller <- Worker, MaxCalls <- MaxAccesses
M == INSTANCE StoreMigration

F == INSTANCE FileSync
G == INSTANCE GmailSync WITH
       stored <- emails, memory <- mailMemory, cursor <- mailCursor, pass <- mailPass,
       passes <- mailPasses, blamed <- mailBlamed

ASSUME Parameters ==
  /\ L!LayerParameters /\ V!IndexParameters /\ O!StoreParameters /\ M!MigrationParameters
  /\ F!FileParameters /\ G!GmailParameters
  /\ Base \in Nat \ {0} /\ Digits \in Nat /\ MaxSec \in Nat

E == INSTANCE ExpiryFilter

S == INSTANCE ScopeMatch
C == INSTANCE Manifest
P == INSTANCE ModelPick
N == INSTANCE VectorSearch

-----------------------------------------------------------------------------
(* Sarah writes without her name and with it, and Sam has the same name;   *)
(* both letters are of one conversation, and the second has no date.       *)
Sarah == [email |-> "s", name |-> "S"]
Sam   == [email |-> "t", name |-> "S"]
Plain == [email |-> "s", name |-> None]
Letters ==
  {[entry |-> "x", people |-> <<Plain>>, conversation |-> "c", date |-> 1],
   [entry |-> "y", people |-> <<Sarah, Sam>>, conversation |-> "c", date |-> None]}

(* Values for TLC: vectors of two dimensions; a process that opens the     *)
(* permission store, or the sources and then that.                         *)
VectorDim == [v \in {"u2", "v3"} |-> IF v = "u2" THEN 2 ELSE 3]
StorePlan == {<<"permission">>, <<"source", "permission">>}
StoreVersions == [s \in {"permission", "source"} |-> IF s = "source" THEN 2 ELSE 1]

-----------------------------------------------------------------------------
(* Inputs of the rules: scopes and attempts over one field, of every kind  *)
(* of value, with a pattern, a path, a time and a word that is none.       *)
Words == {"x", "a/x", "*"}
Values ==
  {S!String(s) : s \in {"x", "a/x", "2"}} \union {S!List(items) : items \in SUBSET Words}
  \union {S!Range(a, b) : a, b \in {"1", "2", "x"}} \union {S!Number(2)}
Attempts ==
  {S!String(s) : s \in {"x", "a/x", "2"}} \union {S!List(items) : items \in SUBSET {"x", "y"}} \union {S!Number(2)}
Optional(values) == {<<>>} \union {<<v>> : v \in values}
Field(o) == IF o = <<>> THEN [f \in {} |-> None] ELSE [f \in {"f"} |-> o[1]]

ScopeInput(i) ==
  \E p \in S!Primitive, v \in Values, w \in Optional(Values), a \in Optional(Attempts) :
    i = [schema |-> [f \in {"f"} |-> p], scope |-> Field(<<v>>), wide |-> Field(w), attempt |-> Field(a)]

(* Manifests with one thing wrong at most in what varies alone, and with   *)
(* every combination of tools, roles, ingestor and oauth.                  *)
Sound == [text |-> "good", schema |-> "typed", permission |-> "memory.write"]
Defects ==
  {Sound, [Sound EXCEPT !.text = "bad"]}
  \union {[Sound EXCEPT !.schema = s] : s \in {"", "untyped"}}
  \union {[Sound EXCEPT !.permission = p] : p \in {"audit.x", "own.x", "other"}}
ManifestInput(i) ==
  \E process \in {"daemon", "cli"}, is \in Defects, tools \in {<<>>, <<"a">>, <<"a", "a">>, <<"a", "b">>},
     roles \in {<<>>, <<"ingestor">>, <<"ingestor", "ingestor">>, <<"exposer", "ingestor">>},
     ingestor \in {None} \union [source : {"good"}, every : {None, 0, 5, 1441}, initial : {None}, trigger : {"a", "b", ""}],
     oauth \in {None} \union [provider : {"google", "own"}, authorization : {"", "http", "https"},
                             token : {"", "https"}, scopes : {{}, {"s"}}] :
    i = [process |-> process, registered |-> {"memory.write", "own.x", "audit.x"},
         manifest |-> [spec |-> is.text, name |-> is.text, version |-> is.text, author |-> is.text,
                       permissions |-> <<is.permission>>,
                       tools |-> [t \in DOMAIN tools |-> [name |-> tools[t], schema |-> is.schema]],
                       model |-> [quality |-> "", context |-> "none"],
                       runtime |-> [type |-> "subprocess", entrypoint |-> <<"run">>, protocol |-> "mcp",
                                    resources |-> "none"],
                       roles |-> roles, ingestor |-> ingestor, oauth |-> oauth, extensions |-> <<>>]]

(* Adapters with a model that embeds, one that answers, both or neither.   *)
ModelId == {"a", "b"}
ASSUME NoModel == None \notin ModelId
Models == [id : ModelId, caps : {{"text"}, {"embeddings"}, {"text", "embeddings"}}]
Catalogs == UNION {[1 .. n -> Models] : n \in 0 .. 2}
ModelInput(i) ==
  \E adapters \in UNION {[1 .. n -> Catalogs] : n \in 0 .. 2}, k \in {0, 1, 101} :
    i = [adapters |-> adapters, k |-> k]

(* Up to three rows at three distances, one of them without a direction,   *)
(* with numbers of two types and a text for metadata, or none.             *)
Rows ==
  [dist : 1 .. 2, zero : {FALSE}, meta : {{}, {[type |-> "int", is |-> "1"]}, {[type |-> "string", is |-> "1"]}}]
  \union [dist : {1}, zero : {TRUE}, meta : {{}}]
SearchInput(i) ==
  \E rows \in UNION {[1 .. n -> Rows] : n \in 0 .. 3}, k \in -1 .. 3,
     filter \in {{}, {[type |-> "float", is |-> "1"]}, {[type |-> "string", is |-> "1"]}} :
    i = [rows |-> rows, k |-> k, filter |-> filter]

-----------------------------------------------------------------------------
(* The parts that a behaviour is not about stand where they begin, with    *)
(* one of their beginnings.                                                *)
Init ==
  /\ part \in {"memory", "vectors", "objects", "migration", "files", "gmail", "expiry",
               "scope", "manifest", "model", "search"}
  /\ L!LayerInit /\ V!IndexInit /\ O!StoreInit /\ M!MigrationInit /\ F!FileInit /\ G!GmailInit /\ E!Init
  /\ part # "vectors" => backend = "qdrant" /\ (\A h \in Handle : config[h] = 2)
                         /\ \A w \in Worker : uses[w] = CHOOSE h \in Handle : TRUE
  /\ part # "objects" => service = "fs"
  /\ part # "expiry" => expires = clock
  /\ CASE part = "scope" -> ScopeInput(input)
       [] part = "manifest" -> ManifestInput(input)
       [] part = "model" -> ModelInput(input)
       [] part = "search" -> SearchInput(input)
       [] OTHER -> input = None

Next ==
  \/ /\ part = "memory" /\ L!LayerNext
     /\ UNCHANGED <<part, input, indexVars, storeVars, migrationVars, fileVars, mailVars, expiryVars>>
  \/ /\ part = "vectors" /\ V!IndexNext
     /\ UNCHANGED <<part, input, layerVars, storeVars, migrationVars, fileVars, mailVars, expiryVars>>
  \/ /\ part = "objects" /\ O!StoreNext
     /\ UNCHANGED <<part, input, layerVars, indexVars, migrationVars, fileVars, mailVars, expiryVars>>
  \/ /\ part = "migration" /\ M!MigrationNext
     /\ UNCHANGED <<part, input, layerVars, indexVars, storeVars, fileVars, mailVars, expiryVars>>
  \/ /\ part = "files" /\ F!FileNext
     /\ UNCHANGED <<part, input, layerVars, indexVars, storeVars, migrationVars, mailVars, expiryVars>>
  \/ /\ part = "gmail" /\ G!GmailNext
     /\ UNCHANGED <<part, input, layerVars, indexVars, storeVars, migrationVars, fileVars, expiryVars>>
  \/ /\ part = "expiry" /\ E!Next
     /\ UNCHANGED <<part, input, layerVars, indexVars, storeVars, migrationVars, fileVars, mailVars>>

allVars == <<part, input, layerVars, indexVars, storeVars, migrationVars, fileVars, mailVars, expiryVars>>

Spec == Init /\ [][Next]_allVars

-----------------------------------------------------------------------------
(* Properties: each carries the type invariant of its part.                *)

(* However the calls of one process overlap, fail or die: no two people    *)
(* have one address, the counts are those of the links unless a call broke *)
(* off there, and the dates of the links lie between first and last.       *)
MemoryConsistent ==
  part = "memory" => L!LayerTypeOK /\ L!OneEntityPerEmail /\ L!CountsMatch /\ L!BracketsHold

(* Each adapter is the map that adapter.go describes: a batch is all there *)
(* or not at all, whatever fails and whoever else writes.                  *)
ImplementsStore == V!ImplementsStore

(* Vectors of two dimensions never meet in an index, though calls race to  *)
(* set the dimension of an empty one.                                      *)
OneDimension == part = "vectors" => V!IndexTypeOK /\ V!OneDimension

(* What the directory of encrypted files holds can be read with the key on *)
(* disk, after any crash and any start.                                    *)
ReadableForever == part = "objects" => O!StoreTypeOK /\ O!ReadableForever

(* Each migration is applied once, in order, and recorded with its effect, *)
(* though processes that open the database together run them at once.      *)
MigratedOnce == part = "migration" => M!MigrationTypeOK /\ M!MigratedOnce

(* After a pass that ended, storage and memory hold what the directory or  *)
(* the mailbox holds, but for what the pass reported or could not know.    *)
SourcesMirrored ==
  /\ part = "files" => F!FileTypeOK /\ F!MirrorHolds
  /\ part = "gmail" => G!GmailTypeOK /\ G!MailboxMirrored

(* The filter of the queries and the Go method disagree on an expiry only  *)
(* where the digits of one instant begin with those of the other.          *)
DisagreeOnlyOnPrefix == part = "expiry" => E!DisagreeOnlyOnPrefix

(* A grant that is tightened admits nothing new, by any primitive.         *)
NarrowerAdmitsLess ==
  part = "scope" => S!NarrowerAdmitsLess(input.schema, input.scope, input.wide, input.attempt)

(* A manifest that either process accepts can be served by the daemon.     *)
AcceptedIsServed ==
  part = "manifest" => C!AcceptedIsServed(input.process, input.manifest, input.registered, {"google", "own"})

(* A search finds the nearest rows, whichever adapter holds them, and      *)
(* compares a query with vectors that the query's own model made; a call   *)
(* without a model's name finds one that can serve it.                     *)
SearchFinds ==
  /\ part = "search" => N!ScanIsNearest(input.rows, input.k, input.filter)
                        /\ N!AdaptersAgree(input.rows, input.k, input.filter)
  /\ part = "model" => P!OneSpace(input.adapters, input.k) /\ P!CallServed(input.adapters)

(* A grant of memory.write that is narrowed to calendar events lets the    *)
(* capsule that it is issued to call memory.upsert.                        *)
ScopedGrantServes ==
  part = "scope" =>
    S!ScopedGrantServes("memory.upsert", [f \in {"entities"} |-> S!List({"calendar-event"})])
=============================================================================
