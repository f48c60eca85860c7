------------------------------ MODULE FileSync ------------------------------
(***************************************************************************)
(* internal/source/files: one pass over a directory of notes.  The cursor  *)
(* holds a hash of every file that a pass has read; a file whose hash is   *)
(* another one is written to storage and to the memory layer, and what is  *)
(* in the old cursor and was not read is deleted from both.  The user      *)
(* changes the directory at any time, and every operation may fail.        *)
(* Hashes are the contents; frontmatter and metadata are left out.         *)
(***************************************************************************)
EXTENDS Naturals, Sequences, FiniteSets, Functions

CONSTANTS
  File,          \* 1 .. n, in the order of the walk
  Content,
  MaxFiles,      \* max_files of the configuration
  MaxPasses,     \* bound: passes
  MaxChanges,    \* bound: changes of the directory
  None

FileParameters ==
  /\ File \subseteq Nat /\ IsFiniteSet(File) /\ None \notin Content
  /\ MaxFiles \in Nat

VARIABLES
  dir,           \* the directory
  storage,       \* the objects under sources/<name>/files/
  memory,        \* the entries of the memory layer
  cursor,        \* the hashes that the runtime keeps between passes
  pass,          \* the pass under way, or the last one
  passes, changes,
  touched,       \* ghost: files changed since the pass began
  blamed         \* ghost: files reported in Errors, or left half done, since they were last ingested

fileVars == <<dir, storage, memory, cursor, pass, passes, changes, touched, blamed>>

Nothing == [f \in File |-> None]

NoPass == [at |-> "idle", list |-> <<>>, left |-> <<>>, room |-> 0, seen |-> Nothing, raw |-> None,
           gone |-> {}, wrote |-> {}]

FileInit ==
  /\ dir = Nothing /\ storage = Nothing /\ memory = Nothing /\ cursor = Nothing
  /\ pass = NoPass /\ passes = 0 /\ changes = 0
  /\ touched = {} /\ blamed = {}

FileTypeOK ==
  /\ dir \in [File -> Content \union {None}] /\ cursor \in [File -> Content \union {None}]
  /\ storage \in [File -> Content \union {None}] /\ memory \in [File -> Content \union {None}]
  /\ pass.at \in {"idle", "walk", "store", "index", "delete", "finish"}
  /\ touched \subseteq File /\ blamed \subseteq File

Existing == {f \in File : dir[f] # None}

(* The user writes, rewrites or removes a file.                            *)
Change(f, c) ==
  /\ changes < MaxChanges /\ dir[f] # c
  /\ changes' = changes + 1
  /\ dir' = [dir EXCEPT ![f] = c]
  /\ touched' = touched \union {f}
  /\ UNCHANGED <<storage, memory, cursor, pass, passes, blamed>>

-----------------------------------------------------------------------------
(* Sync lists the directory once, before the first file; the walk goes in  *)
(* the order of the names.                                                 *)
Walk(files) ==
  CHOOSE list \in Bijection(1 .. Cardinality(files), files) :
    \A i, j \in DOMAIN list : i < j => list[i] < list[j]

Begin ==
  /\ pass.at = "idle" /\ passes < MaxPasses
  /\ passes' = passes + 1
  /\ LET list == Walk(Existing)
     IN pass' = [NoPass EXCEPT !.at = "walk", !.list = list, !.left = list, !.room = MaxFiles]
  /\ touched' = {}
  /\ UNCHANGED <<dir, storage, memory, cursor, changes, blamed>>

Steps(p) == pass' = p /\ UNCHANGED <<dir, cursor, passes, changes, touched>>

Reported(f) == blamed' = blamed \union {f}
Rest == [pass EXCEPT !.left = Tail(@), !.room = @ - 1]

(* os.ReadFile fails: the file is in Errors and not in the new cursor.     *)
ReadFails ==
  /\ pass.at = "walk" /\ pass.left # <<>> /\ pass.room > 0
  /\ Reported(Head(pass.left))
  /\ Steps(Rest) /\ UNCHANGED <<storage, memory>>

(* The new cursor takes the hash as soon as the file is read, and a file   *)
(* whose hash is the one of the old cursor needs nothing more.             *)
(* Slip: only what is ingested enters the new cursor.                      *)
SeenIfChanged(f, c) ==
  IF cursor[f] = c THEN pass.seen ELSE [pass.seen EXCEPT ![f] = c]

Seen(f, c) == [pass.seen EXCEPT ![f] = c]

Read ==
  /\ pass.at = "walk" /\ pass.left # <<>> /\ pass.room > 0
  /\ LET f == Head(pass.left) IN
     /\ dir[f] # None
     /\ Steps([(IF cursor[f] = dir[f] THEN Rest ELSE [pass EXCEPT !.at = "store", !.raw = dir[f]])
                EXCEPT !.seen = Seen(f, dir[f])])
  /\ UNCHANGED <<storage, memory, blamed>>

(* storage.Write; after a failure the walk goes on.                        *)
StoreFile ==
  /\ pass.at = "store"
  /\ LET f == Head(pass.left) IN
     \/ /\ storage' = [storage EXCEPT ![f] = pass.raw]
        /\ Steps([pass EXCEPT !.at = "index", !.wrote = @ \union {f}])
        /\ UNCHANGED <<memory, blamed>>
     \/ Reported(f) /\ Steps([Rest EXCEPT !.at = "walk"]) /\ UNCHANGED <<storage, memory>>

(* memory.Upsert.                                                          *)
IndexFile ==
  /\ pass.at = "index"
  /\ LET f == Head(pass.left) IN
     \/ /\ memory' = [memory EXCEPT ![f] = pass.raw]
        /\ blamed' = blamed \ {f}
     \/ Reported(f) /\ UNCHANGED memory
  /\ Steps([Rest EXCEPT !.at = "walk"])
  /\ UNCHANGED storage

(* The end of the walk, or of the room for files: what the old cursor has  *)
(* and the new one has not is gone.                                        *)
Gone == {f \in File : cursor[f] # None /\ pass.seen[f] = None}

EndOfWalk ==
  /\ pass.at = "walk" /\ (pass.left = <<>> \/ pass.room = 0)
  /\ Steps([pass EXCEPT !.at = "delete", !.gone = Gone])
  /\ UNCHANGED <<storage, memory, blamed>>

(* Both deletions are tried, and their errors dropped.                     *)
DeleteGone ==
  /\ pass.at = "delete" /\ pass.gone # {}
  /\ \E f \in pass.gone :
       /\ storage' \in {storage, [storage EXCEPT ![f] = None]}
       /\ memory' \in {memory, [memory EXCEPT ![f] = None]}
       /\ blamed' = IF storage'[f] # None \/ memory'[f] # None THEN blamed \union {f}
                    ELSE IF f \in Range(pass.list) THEN blamed ELSE blamed \ {f}
       /\ Steps([pass EXCEPT !.gone = @ \ {f}, !.wrote = @ \union {f}])

(* The runtime keeps the new cursor.                                       *)
Finish ==
  /\ pass.at = "delete" /\ pass.gone = {}
  /\ cursor' = pass.seen
  /\ pass' = [pass EXCEPT !.at = "idle"]
  /\ UNCHANGED <<dir, storage, memory, passes, changes, touched, blamed>>

(* The context ends between two files, or the process: the old cursor      *)
(* stays, and so does what was written.                                    *)
CutShort ==
  /\ pass.at # "idle"
  /\ pass' = NoPass
  /\ blamed' = blamed \union pass.wrote
  /\ UNCHANGED <<dir, storage, memory, cursor, passes, changes, touched>>

FileNext ==
  \/ \E f \in File, c \in Content \union {None} : Change(f, c)
  \/ Begin \/ ReadFails \/ Read \/ StoreFile \/ IndexFile \/ EndOfWalk \/ DeleteGone \/ Finish
  \/ CutShort

FileSpec == FileInit /\ [][FileNext]_fileVars

-----------------------------------------------------------------------------
(* Properties.                                                             *)

(* After a pass that ran to its end, a file that was left alone meanwhile, *)
(* lies within max_files and was not reported since it was last ingested   *)
(* has its content in storage and in memory; a file that is not there has  *)
(* nothing in either.                                                      *)
MirrorHolds ==
  pass.at = "idle" /\ pass # NoPass =>
    \A f \in File \ (touched \union blamed) :
      (\A i \in DOMAIN pass.list : pass.list[i] = f => i <= MaxFiles) =>
        storage[f] = dir[f] /\ memory[f] = dir[f]

(* Only what disappeared from the walk is deleted (files.go, of the new    *)
(* cursor: "Files that disappear from the walk are deleted at the end").   *)
OnlyGoneAreDeleted ==
  [][\A f \in File : memory[f] # None /\ memory'[f] = None => f \notin Range(pass.list)]_fileVars
=============================================================================
