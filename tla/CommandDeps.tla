---------------------------- MODULE CommandDeps ----------------------------
(***************************************************************************)
(* What a command of the CLI opens for itself, next to a daemon that may   *)
(* have the same files open, and what it closes when a step fails or when  *)
(* it is done: openSourceDeps, openMemoryDeps, openCapsuleDeps and         *)
(* openPermissionDeps.  The stores share the database and close nothing.   *)
(***************************************************************************)
EXTENDS Naturals, Sequences, SequencesExt

CONSTANT Adapter   \* the configured model adapters

VARIABLES command, step, open, at

depsVars == <<command, step, open, at>>

Steps ==
  [source  |-> <<"db", "store", "audit", "storage", "memory", "layerStore", "models">>,
   memory  |-> <<"memory", "db", "layerStore">>,
   capsule |-> <<"db", "permStore", "capsuleStore", "audit">>,
   permission |-> <<"db", "permStore", "audit">>]   \* grant, client and approve

(* What has a closer of its own.                                           *)
Owned == {"db", "audit", "storage", "memory"}

DepsInit == command \in DOMAIN Steps /\ step = 1 /\ open = {} /\ at = "opening"

DepsTypeOK == step \in 1 .. 8 /\ open \subseteq (Owned \union Adapter) /\ at \in {"opening", "running", "ended"}

(* Each return of openSourceDeps closes by hand what is open by then; the  *)
(* list at the return of the model adapters lacks the database.            *)
UndoSource ==
  [db |-> {}, store |-> {"db"}, audit |-> {"db"}, storage |-> {"audit", "db"},
   memory |-> {"audit", "storage", "db"}, layerStore |-> {"audit", "storage", "memory", "db"},
   models |-> {"audit", "storage", "memory"}]

UndoMemory == [memory |-> {"memory"}, db |-> {"memory"}, layerStore |-> {"db", "memory"}]

UndoCapsule == [db |-> {}, permStore |-> {"db"}, capsuleStore |-> {"db"}, audit |-> {"db"}]

UndoPermission == [db |-> {}, permStore |-> {"db"}, audit |-> {"db"}]

Undo == [source |-> UndoSource, memory |-> UndoMemory, capsule |-> UndoCapsule, permission |-> UndoPermission]

OpenStep ==
  /\ at = "opening" /\ step \in DOMAIN Steps[command]
  /\ LET part == Steps[command][step] IN
     \/ /\ open' = open \union (IF part = "models" THEN Adapter ELSE {part} \intersect Owned)
        /\ step' = step + 1 /\ UNCHANGED at
     \/ /\ open' = open \ Undo[command][part] /\ at' = "ended" /\ UNCHANGED step
  /\ UNCHANGED command

Run ==
  /\ at = "opening" /\ step = Len(Steps[command]) + 1
  /\ at' = "running" /\ UNCHANGED <<command, step, open>>

(* Close, of each of the four.                                             *)
CloseSource == {"audit", "storage", "memory", "db"} \union Adapter
CloseMemory == {"memory", "db"}
CloseCapsule == {"audit", "db"}
ClosePermission == {"audit", "db"}
Closed == [source |-> CloseSource, memory |-> CloseMemory, capsule |-> CloseCapsule, permission |-> ClosePermission]

CloseDeps ==
  /\ at = "running"
  /\ open' = open \ Closed[command]
  /\ at' = "ended" /\ UNCHANGED <<command, step>>

DepsNext == OpenStep \/ Run \/ CloseDeps

-----------------------------------------------------------------------------
(* Properties.                                                             *)

(* A command that ends, wherever a step of it failed, leaves nothing open  *)
(* but the database, and that only when `source` cannot open its model     *)
(* adapters (the one return of openSourceDeps that does not close it).     *)
CommandLeavesNothing ==
  at = "ended" =>
    open = {} \/ (command = "source" /\ Steps[command][step] = "models" /\ open = {"db"})
=============================================================================
