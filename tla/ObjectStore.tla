----------------------------- MODULE ObjectStore -----------------------------
(***************************************************************************)
(* adapter/storage: objects under paths, in a directory of encrypted files *)
(* (fs-encrypted), in an S3 bucket or in a GCS bucket.  The directory holds*)
(* the key its files are encrypted with, written the first time it is      *)
(* opened; a file is written beside its target and renamed.  The processes *)
(* that open a store do so one after the other, and may die at any step.   *)
(***************************************************************************)
EXTENDS Naturals

CONSTANTS Path, Body, Caller, MaxStarts, MaxCalls, None

VARIABLES
  service,   \* which adapter
  keyFile,   \* <root>/.loamss-meta/master.key: None, Short, or a key
  mine,      \* Adapter: where Init stands, and the key it holds
  objects,   \* what is stored under each path: [key, body, whole], or None
  temps,     \* the .tmp-* files: [of, key, body, whole]
  access,    \* the calls
  keys, accesses   \* keys drawn, calls made

(* The absence of a file is no key.                                        *)
StoreParameters == None \notin Nat /\ MaxStarts \in Nat

storeVars == <<service, keyFile, mine, objects, temps, access, keys, accesses>>

(* A key file that was made and not yet written.                          *)
Short == 0

Resting == [at |-> "idle", path |-> None, body |-> None]

StoreInit ==
  /\ service \in {"fs", "s3", "gcs"}
  /\ keyFile = None
  /\ mine = [at |-> "closed", key |-> 0]
  /\ objects = [p \in Path |-> None] /\ temps = {}
  /\ access = [c \in Caller |-> Resting]
  /\ keys = 0 /\ accesses = 0

StoreTypeOK ==
  /\ keyFile \in {None, Short} \union 1 .. MaxStarts
  /\ mine \in [at : {"closed", "draw", "write", "open"}, key : 0 .. MaxStarts]
  /\ \A p \in Path : objects[p] # None => objects[p].body \in Body
  /\ access \in [Caller -> [at : {"idle", "write", "fill", "rename", "put", "delete", "ok", "error"},
                            path : Path \union {None}, body : Body \union {None}]]

-----------------------------------------------------------------------------
(* loadOrCreateKey: a file of another size is refused for ever; without a  *)
(* file a key is drawn.                                                    *)
LoadKey ==
  /\ service = "fs" /\ mine.at = "closed" /\ keys < MaxStarts
  /\ mine' = IF keyFile = None THEN [at |-> "draw", key |-> 0]
             ELSE IF keyFile = Short THEN mine ELSE [at |-> "open", key |-> keyFile]
  /\ UNCHANGED <<service, keyFile, objects, temps, access, keys, accesses>>

(* The file is made, and its bytes follow.                                 *)
DrawKey ==
  /\ mine.at = "draw"
  /\ keys' = keys + 1
  /\ mine' = [at |-> "write", key |-> keys']
  /\ keyFile' = Short
  /\ UNCHANGED <<service, objects, temps, access, accesses>>

WriteKey ==
  /\ mine.at = "write"
  /\ \/ keyFile' = mine.key /\ mine' = [mine EXCEPT !.at = "open"]
     \/ mine' = [at |-> "closed", key |-> 0] /\ UNCHANGED keyFile
  /\ UNCHANGED <<service, objects, temps, access, keys, accesses>>

(* The buckets' Init: the bucket is there, or the adapter stays closed.    *)
OpenBucket ==
  /\ service # "fs" /\ mine.at = "closed" /\ keys < MaxStarts
  /\ keys' = keys + 1
  /\ mine' = [at |-> "open", key |-> 0]
  /\ UNCHANGED <<service, keyFile, objects, temps, access, accesses>>

(* The process ends, with its calls where they are.                        *)
Crash ==
  /\ mine.at # "closed"
  /\ mine' = [at |-> "closed", key |-> 0]
  /\ access' = [c \in Caller |-> Resting]
  /\ UNCHANGED <<service, keyFile, objects, temps, keys, accesses>>

-----------------------------------------------------------------------------
Call(c, to, p, b) ==
  /\ mine.at = "open" /\ access[c].at \in {"idle", "ok", "error"} /\ accesses < MaxCalls
  /\ accesses' = accesses + 1
  /\ access' = [access EXCEPT ![c] = [at |-> to, path |-> p, body |-> b]]
  /\ UNCHANGED <<service, keyFile, mine, objects, temps, keys>>

Goes(c, to) == access' = [access EXCEPT ![c].at = to]

Sealed(c, whole) == [key |-> mine.key, body |-> access[c].body, whole |-> whole]

(* Write, and WriteStream, which the directory reads to its end first.     *)
Write(c, p, b) == Call(c, IF service = "fs" THEN "write" ELSE "put", p, b)

(* atomicWriteFile: a file beside the target, its bytes, and the rename;   *)
(* what fails takes the file away.                                         *)
(* Slip: the target is written in place.                                   *)
WriteInPlace(c) ==
  /\ access[c].at = "write"
  /\ objects' = [objects EXCEPT ![access[c].path] = Sealed(c, FALSE)]
  /\ temps' = temps \union {[of |-> c, file |-> Sealed(c, FALSE)]}
  /\ Goes(c, "fill")
  /\ UNCHANGED <<service, keyFile, mine, keys, accesses>>

CreateTemp(c) ==
  /\ access[c].at = "write"
  /\ temps' = temps \union {[of |-> c, file |-> Sealed(c, FALSE)]}
  /\ Goes(c, "fill")
  /\ UNCHANGED <<service, keyFile, mine, objects, keys, accesses>>

FillTemp(c) ==
  /\ access[c].at = "fill"
  /\ temps' = (temps \ {[of |-> c, file |-> Sealed(c, FALSE)]})
              \union {[of |-> c, file |-> Sealed(c, TRUE)]}
  /\ Goes(c, "rename")
  /\ UNCHANGED <<service, keyFile, mine, objects, keys, accesses>>

Rename(c) ==
  /\ access[c].at = "rename"
  /\ objects' = [objects EXCEPT ![access[c].path] = Sealed(c, TRUE)]
  /\ temps' = temps \ {[of |-> c, file |-> Sealed(c, TRUE)]}
  /\ Goes(c, "ok")
  /\ UNCHANGED <<service, keyFile, mine, keys, accesses>>

RemoveTemp(c) ==
  /\ access[c].at \in {"fill", "rename"}
  /\ temps' = temps \ {[of |-> c, file |-> Sealed(c, access[c].at = "rename")]}
  /\ Goes(c, "error")
  /\ UNCHANGED <<service, keyFile, mine, objects, keys, accesses>>

(* The buckets' Write and WriteStream: one request, whose answer may be    *)
(* lost.  GCS commits what was copied when the content fails half-way: the *)
(* writer is closed then too.                                              *)
PutS3(c) ==
  /\ access[c].at = "put" /\ service = "s3"
  /\ \/ /\ objects' = [objects EXCEPT ![access[c].path] = Sealed(c, TRUE)]
        /\ \E answer \in {"ok", "error"} : Goes(c, answer)
     \/ Goes(c, "error") /\ UNCHANGED objects
  /\ UNCHANGED <<service, keyFile, mine, temps, keys, accesses>>

PutGCS(c) ==
  /\ access[c].at = "put" /\ service = "gcs"
  /\ \/ \E whole \in BOOLEAN :
          /\ objects' = [objects EXCEPT ![access[c].path] = Sealed(c, whole)]
          /\ Goes(c, IF whole THEN "ok" ELSE "error")
     \/ Goes(c, "error") /\ UNCHANGED objects
  /\ UNCHANGED <<service, keyFile, mine, temps, keys, accesses>>

(* Delete, of what may be absent.                                          *)
Delete(c, p) == Call(c, "delete", p, None)

Remove(c) ==
  /\ access[c].at = "delete"
  /\ \/ /\ objects' = [objects EXCEPT ![access[c].path] = None]
        /\ \E answer \in {"ok", "error"} : Goes(c, answer)
     \/ Goes(c, "error") /\ UNCHANGED objects
  /\ UNCHANGED <<service, keyFile, mine, temps, keys, accesses>>

StoreNext ==
  \/ LoadKey \/ DrawKey \/ WriteKey \/ OpenBucket \/ Crash
  \/ \E c \in Caller :
       \/ \E p \in Path, b \in Body : Write(c, p, b)
       \/ \E p \in Path : Delete(c, p)
       \/ CreateTemp(c) \/ FillTemp(c) \/ Rename(c) \/ RemoveTemp(c)
       \/ PutS3(c) \/ PutGCS(c) \/ Remove(c)

StoreSpec == StoreInit /\ [][StoreNext]_storeVars

-----------------------------------------------------------------------------
(* Properties.                                                             *)

(* What is stored in the directory can be read back by the process that    *)
(* runs and by every later one: it is whole and encrypted with the key of  *)
(* the key file, whatever a crash left half done.                          *)
ReadableForever ==
  service = "fs" => \A p \in Path : objects[p] # None =>
     objects[p].whole /\ objects[p].key = keyFile
=============================================================================
