--------------------------- MODULE StoreMigration ---------------------------
(***************************************************************************)
(* The database that the stores of a runtime share (internal/database) and *)
(* the schema of each: permission, memory, source, capsule, oauth and      *)
(* runtime_state bring their tables up to date whenever a process opens    *)
(* them, and permission seeds its registry of capabilities.  The daemon and*)
(* the commands may do so at the same time, and may die at any step.       *)
(***************************************************************************)
EXTENDS Naturals, Sequences

CONSTANTS
  Process,
  Plan,          \* sequences of stores: what a process opens, in its order
  Versions,      \* the number of migrations of each store
  Canonical,     \* the number of canonicalCapabilities
  MaxOpens,      \* bound: times a process is started
  None

VARIABLES
  applied,       \* per store, the migrations its tables have had
  recorded,      \* per store, the rows of its schema_migrations
  tx,            \* the transaction under way: [by, store, version, step]
  capabilities,  \* the rows of the registry
  proc,          \* the processes
  opens          \* starts of each process

(* What the constants are: a process opens one store at least, and each    *)
(* that it opens has migrations.                                           *)
MigrationParameters ==
  /\ \A s \in DOMAIN Versions : Versions[s] \in Nat
  /\ Plan \subseteq Seq(DOMAIN Versions) /\ <<>> \notin Plan
  /\ None \notin [by : Process, store : DOMAIN Versions, version : Nat]

migrationVars == <<applied, recorded, tx, capabilities, proc, opens>>

Store == DOMAIN Versions
Down == [at |-> "down", todo |-> <<>>, version |-> 0]

MigrationInit ==
  /\ applied = [s \in Store |-> <<>>] /\ recorded = [s \in Store |-> {}]
  /\ tx = None /\ capabilities = {}
  /\ proc = [p \in Process |-> Down] /\ opens = [p \in Process |-> 0]

MigrationTypeOK ==
  /\ \A s \in Store : applied[s] \in Seq(1 .. Versions[s]) /\ recorded[s] \subseteq 1 .. Versions[s]
  /\ capabilities \subseteq 1 .. Canonical
  /\ \A p \in Process : proc[p].at \in {"down", "read", "next", "record", "commit", "count", "seed", "open"}

Goes(p, to) == proc' = [proc EXCEPT ![p].at = to]
Opening(p) == Head(proc[p].todo)

(* openRuntimeDB, and the CREATE TABLE IF NOT EXISTS of the first store.   *)
OpenDatabase(p) ==
  /\ proc[p].at = "down" /\ opens[p] < MaxOpens
  /\ opens' = [opens EXCEPT ![p] = @ + 1]
  /\ \E plan \in Plan : proc' = [proc EXCEPT ![p] = [at |-> "read", todo |-> plan, version |-> 0]]
  /\ UNCHANGED <<applied, recorded, tx, capabilities>>

Newest(versions) == IF versions = {} THEN 0 ELSE CHOOSE v \in versions : \A w \in versions : w <= v

(* The version is read before any transaction.                             *)
ReadVersion(p) ==
  /\ proc[p].at = "read"
  /\ proc' = [proc EXCEPT ![p].at = "next", ![p].version = Newest(recorded[Opening(p)])]
  /\ UNCHANGED <<applied, recorded, tx, capabilities, opens>>

(* The statements of the next migration, in a transaction: they wait for   *)
(* the one that holds the write lock.                                      *)
Apply(p) ==
  /\ proc[p].at = "next" /\ proc[p].version < Versions[Opening(p)]
  /\ tx = None
  /\ tx' = [by |-> p, store |-> Opening(p), version |-> proc[p].version + 1]
  /\ Goes(p, "record")
  /\ UNCHANGED <<applied, recorded, capabilities, opens>>

(* The row of the version is its primary key: a process that another one   *)
(* was faster than fails here, and its transaction is rolled back.         *)
Record(p) ==
  /\ proc[p].at = "record"
  /\ IF tx.version \in recorded[tx.store]
     THEN tx' = None /\ proc' = [proc EXCEPT ![p] = Down]
     ELSE Goes(p, "commit") /\ UNCHANGED tx
  /\ UNCHANGED <<applied, recorded, capabilities, opens>>

(* Slip: the row of the version is written after the transaction.          *)
CommitThenRecord(p) ==
  /\ proc[p].at = "commit"
  /\ IF tx # None /\ tx.by = p
     THEN /\ applied' = [applied EXCEPT ![tx.store] = Append(@, tx.version)] /\ tx' = None
          /\ UNCHANGED <<recorded, proc>>
     ELSE /\ recorded' = [recorded EXCEPT ![Opening(p)] = @ \union {proc[p].version + 1}]
          /\ proc' = [proc EXCEPT ![p].at = "next", ![p].version = @ + 1]
          /\ UNCHANGED <<applied, tx>>
  /\ UNCHANGED <<capabilities, opens>>

Commit(p) ==
  /\ proc[p].at = "commit"
  /\ applied' = [applied EXCEPT ![tx.store] = Append(@, tx.version)]
  /\ recorded' = [recorded EXCEPT ![tx.store] = @ \union {tx.version}]
  /\ tx' = None
  /\ proc' = [proc EXCEPT ![p].at = "next", ![p].version = @ + 1]
  /\ UNCHANGED <<capabilities, opens>>

(* A store is open, and the next one is opened.                            *)
Opened(p) ==
  proc' = [proc EXCEPT ![p] = IF Len(@.todo) = 1 THEN [@ EXCEPT !.at = "open"]
                              ELSE [at |-> "read", todo |-> Tail(@.todo), version |-> 0]]

Migrated(p) ==
  /\ proc[p].at = "next" /\ proc[p].version >= Versions[Opening(p)]
  /\ IF Opening(p) = "permission" THEN Goes(p, "count") ELSE Opened(p)
  /\ UNCHANGED <<applied, recorded, tx, capabilities, opens>>

(* The registry is seeded when it is empty, one statement per capability.  *)
CountCapabilities(p) ==
  /\ proc[p].at = "count"
  /\ IF capabilities = {} THEN proc' = [proc EXCEPT ![p].at = "seed", ![p].version = 1]
     ELSE Opened(p)
  /\ UNCHANGED <<applied, recorded, tx, capabilities, opens>>

(* registerLocked: the name is the primary key, and the open fails on one  *)
(* that another process has inserted.                                      *)
SeedCapability(p) ==
  /\ proc[p].at = "seed" /\ tx = None
  /\ LET c == proc[p].version IN
     \/ c > Canonical /\ Opened(p) /\ UNCHANGED capabilities
     \/ c \in capabilities /\ proc' = [proc EXCEPT ![p] = Down] /\ UNCHANGED capabilities
     \/ /\ c \in (1 .. Canonical) \ capabilities
        /\ capabilities' = capabilities \union {c}
        /\ proc' = [proc EXCEPT ![p].version = @ + 1]
  /\ UNCHANGED <<applied, recorded, tx, opens>>

(* A statement fails or the process ends: an open transaction is undone.   *)
Stop(p) ==
  /\ proc[p].at # "down"
  /\ proc' = [proc EXCEPT ![p] = Down]
  /\ tx' = IF tx # None /\ tx.by = p THEN None ELSE tx
  /\ UNCHANGED <<applied, recorded, capabilities, opens>>

MigrationNext ==
  \E p \in Process :
    \/ OpenDatabase(p) \/ ReadVersion(p) \/ Apply(p) \/ Record(p) \/ Commit(p)
    \/ Migrated(p) \/ CountCapabilities(p) \/ SeedCapability(p) \/ Stop(p)

MigrationSpec == MigrationInit /\ [][MigrationNext]_migrationVars

-----------------------------------------------------------------------------
(* Properties.                                                             *)

(* Every migration is applied once and in order, and recorded with its     *)
(* effect, whoever opens the tables at the same time or dies there; a      *)
(* process that has opened its stores works on tables of the last version. *)
MigratedOnce ==
  /\ \A s \in Store : recorded[s] = 1 .. Len(applied[s]) /\ \A i \in DOMAIN applied[s] : applied[s][i] = i
  /\ \A p \in Process : proc[p].at = "open" =>
       Len(applied[Opening(p)]) = Versions[Opening(p)]

(* A process that has opened the permission store finds every canonical    *)
(* capability ("seeds the canonical capability registry on first run").    *)
SeedComplete ==
  \A p \in Process : proc[p].at = "open" /\ Opening(p) = "permission" => capabilities = 1 .. Canonical
=============================================================================
