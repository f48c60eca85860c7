--------------------------- MODULE CapsuleInstall ---------------------------
(***************************************************************************)
(* internal/capsule/installer.go and store.go, with the ingestor bridge of *)
(* cli/ingestor_bridge.go: a capsule is installed by copying its code,     *)
(* issuing its grants, inserting its record and registering its source,    *)
(* and removed in another order.  The daemon's console and the command     *)
(* line run the same installer, each in a process of its own; a statement, *)
(* a directory operation or a copy is one step, and any may fail.          *)
(***************************************************************************)
EXTENDS Naturals, Sequences, FiniteSets

CONSTANTS
  Console,      \* the workers that may be requests to the daemon's console
  Terminal,     \* the workers that may be command line processes
  Capsule,      \* names of capsules
  Ingestor,     \* those whose manifest has the ingestor role
  Permissions,  \* how many permissions a manifest declares
  None,         \* no record
  MaxCalls      \* bound: an operation begins while fewer than this have begun

Worker == Console \union Terminal

ASSUME CapsuleAssumption ==
  /\ Ingestor \subseteq Capsule
  /\ Permissions \in Nat /\ MaxCalls \in Nat

VARIABLES
  record,   \* the table capsules: the call that installed the name, or None
  code,     \* the directory <name>@<version>: "none", "partial" or "whole"
  grants,   \* the grants of capsule principals; an id is a place in the sequence
  row,      \* the row of the name in the table sources
  op,       \* what each worker is doing
  cut,      \* history: the installs whose grants an uninstall, or the failure of
            \* their bridge, has begun to revoke
  undone,   \* history: the installs that reported failure after a complete rollback
  calls     \* history: how many operations have begun

installVars == <<record, code, grants, row, cut, undone, calls>>

Call == 1 .. MaxCalls

Grant == [holder : Capsule, by : Call, active : BOOLEAN]

(* The row of a source with the capsule's name: the user's own, or one the *)
(* bridge inserted for the capsule.                                        *)
Row == {"none", "users", "capsules"}

(* Where an operation stands: in an install, an uninstall or (CapsuleHost) *)
(* a start or a stop of one capsule, or in what concerns no capsule yet.   *)
Installing == {"get", "copy", "issue", "insert", "register", "unrecord", "rollback"}
Removing   == {"remove", "listGrants", "revoke", "delete", "unregister", "removeCode"}
Starting   == {"start", "spawn", "handshake", "enter", "schedule", "replace"}
Stopping   == {"stop", "unschedule", "terminate", "reap"}
Nameless   == {"idle", "drainAll", "stopAll", "stopNext"}

(* What an operation has in hand: the capsule, the number of the call, the *)
(* grants it has issued or listed and those it has yet to revoke, whether  *)
(* its process has the bridge, what follows it, and (see CapsuleHost) the  *)
(* client it stops.                                                        *)
Operation == [at : Installing \union Removing \union Starting \union Stopping \union Nameless,
              name : Capsule \union {None}, call : Nat, own : SUBSET Nat, rest : SUBSET Nat,
              bridged : BOOLEAN, then : {"idle", "start", "remove", "stopNext"}, client : Nat]

Idle == [at |-> "idle", name |-> None, call |-> 0, own |-> {}, rest |-> {},
         bridged |-> FALSE, then |-> "idle", client |-> 0]

InstallTypeOK ==
  /\ record \in [Capsule -> Call \union {None}]
  /\ code \in [Capsule -> {"none", "partial", "whole"}]
  /\ grants \in Seq(Grant)
  /\ row \in [Capsule -> Row]
  /\ op \in [Worker -> Operation]
  /\ cut \subseteq Call /\ undone \subseteq Call
  /\ calls \in 0 .. MaxCalls

InstallInit ==
  /\ record = [c \in Capsule |-> None]
  /\ code = [c \in Capsule |-> "none"]
  /\ grants = << >>
  /\ row \in [Capsule -> {"none", "users"}]
  /\ op = [w \in Worker |-> Idle]
  /\ cut = {} /\ undone = {}
  /\ calls = 0

Begin(w, o) ==
  /\ op[w].at = "idle"
  /\ calls < MaxCalls
  /\ calls' = calls + 1
  /\ op' = [op EXCEPT ![w] = [o EXCEPT !.call = calls + 1]]

Goto(w, o) == op' = [op EXCEPT ![w] = o] /\ UNCHANGED calls

At(w, label) == Goto(w, [op[w] EXCEPT !.at = label])

(* The operation of the worker ends, and what its caller does next begins. *)
Return(w) == Goto(w, IF op[w].then = "idle" THEN Idle ELSE [op[w] EXCEPT !.at = op[w].then, !.then = "idle"])

Give(w) == Goto(w, Idle)

-----------------------------------------------------------------------------
(* Installer.Install, of a manifest that validates: handleCapsuleInstall   *)
(* starts the capsule afterwards, the command line does not.               *)
Install(w, c, console) ==
  /\ w \in IF console THEN Console ELSE Terminal
  /\ Begin(w, [Idle EXCEPT !.at = "get", !.name = c, !.bridged = console,
                           !.then = IF console THEN "start" ELSE "idle"])
  /\ UNCHANGED <<record, code, grants, row, cut, undone>>

CheckAbsent(w) ==
  /\ op[w].at = "get"
  /\ IF record[op[w].name] = None THEN At(w, "copy") ELSE Give(w)
  /\ UNCHANGED <<record, code, grants, row, cut, undone>>

(* A copy that fails leaves what it has written: nothing removes it.       *)
CopyCode(w) ==
  /\ op[w].at = "copy"
  /\ \/ code' = [code EXCEPT ![op[w].name] = "whole"] /\ At(w, "issue")
     \/ code' = [code EXCEPT ![op[w].name] = IF @ = "none" THEN "partial" ELSE @] /\ Give(w)
  /\ UNCHANGED <<record, grants, row, cut, undone>>

IssueGrants(w) ==
  /\ op[w].at = "issue"
  /\ \/ /\ Cardinality(op[w].own) < Permissions
        /\ \/ /\ grants' = Append(grants, [holder |-> op[w].name, by |-> op[w].call, active |-> TRUE])
              /\ Goto(w, [op[w] EXCEPT !.own = @ \union {Len(grants) + 1}])
           \/ Goto(w, [op[w] EXCEPT !.at = "rollback", !.rest = op[w].own]) /\ UNCHANGED grants
     \/ Cardinality(op[w].own) = Permissions /\ At(w, "insert") /\ UNCHANGED grants
  /\ UNCHANGED <<record, code, row, cut, undone>>

(* Slip: a refused insert removes the code, and leaves the grants.         *)
InsertCodeOnly(w) ==
  LET c == op[w].name IN
  /\ op[w].at = "insert"
  /\ \/ /\ record[c] = None
        /\ record' = [record EXCEPT ![c] = op[w].call]
        /\ At(w, "register")
     \/ Goto(w, [op[w] EXCEPT !.at = "rollback", !.rest = {}]) /\ UNCHANGED record
  /\ UNCHANGED <<code, grants, row, cut, undone>>

(* Store.Insert: the name is UNIQUE; any other error is rolled back too.   *)
Insert(w) ==
  LET c == op[w].name IN
  /\ op[w].at = "insert"
  /\ \/ /\ record[c] = None
        /\ record' = [record EXCEPT ![c] = op[w].call]
        /\ At(w, "register")
     \/ Goto(w, [op[w] EXCEPT !.at = "rollback", !.rest = op[w].own]) /\ UNCHANGED record
  /\ UNCHANGED <<code, grants, row, cut, undone>>

(* daemonIngestorBridge.OnInstall; the command line has no bridge.         *)
OnInstall(w) ==
  LET c == op[w].name IN
  /\ op[w].at = "register"
  /\ \/ /\ op[w].bridged /\ c \in Ingestor
        /\ \/ row[c] = "none" /\ row' = [row EXCEPT ![c] = "capsules"] /\ Return(w)
           \/ At(w, "unrecord") /\ UNCHANGED row
     \/ ~ (op[w].bridged /\ c \in Ingestor) /\ Return(w) /\ UNCHANGED row
  /\ UNCHANGED <<record, code, grants, cut, undone>>

(* The bridge refused: the record goes first, by name; an error of the     *)
(* DELETE is dropped.                                                      *)
Unrecord(w) ==
  /\ op[w].at = "unrecord"
  /\ \/ record' = [record EXCEPT ![op[w].name] = None]
     \/ UNCHANGED record
  /\ cut' = cut \union {op[w].call}
  /\ Goto(w, [op[w] EXCEPT !.at = "rollback", !.rest = op[w].own])
  /\ UNCHANGED <<code, grants, row, undone>>

Revoked(gs) == [g \in DOMAIN grants |-> IF g \in gs THEN [grants[g] EXCEPT !.active = FALSE] ELSE grants[g]]

(* rollbackGrants and rollbackCode: an error of a revocation is dropped,   *)
(* and a cancelled context fails them all.                                 *)
Rollback(w) ==
  LET c == op[w].name IN
  /\ op[w].at = "rollback"
  /\ \/ \E g \in op[w].rest :
          /\ grants' = Revoked({g})
          /\ Goto(w, [op[w] EXCEPT !.rest = @ \ {g}])
          /\ UNCHANGED <<code, undone>>
     \/ /\ op[w].rest = {}
        /\ code' = [code EXCEPT ![c] = "none"]
        /\ undone' = undone \union {op[w].call}
        /\ Give(w)
        /\ UNCHANGED grants
     \/ /\ op[w].rest # {}
        /\ code' = [code EXCEPT ![c] = "none"]
        /\ Give(w)
        /\ UNCHANGED <<grants, undone>>
  /\ UNCHANGED <<record, row, cut>>

-----------------------------------------------------------------------------
(* Installer.Uninstall: the grants, the record, the source and the blobs,  *)
(* the code.                                                               *)
GetRecord(w) ==
  /\ op[w].at = "remove"
  /\ IF record[op[w].name] = None THEN Give(w) ELSE At(w, "listGrants")
  /\ UNCHANGED <<record, code, grants, row, cut, undone>>

ListGrants(w) ==
  LET held == {g \in DOMAIN grants : grants[g].holder = op[w].name /\ grants[g].active} IN
  /\ op[w].at = "listGrants"
  /\ cut' = cut \union {grants[g].by : g \in held}
  /\ Goto(w, [op[w] EXCEPT !.at = "revoke", !.own = held, !.rest = held])
  /\ UNCHANGED <<record, code, grants, row, undone>>

(* An error ends the uninstall where it stands. *)
RevokeGrants(w) ==
  /\ op[w].at = "revoke"
  /\ \/ \E g \in op[w].rest : grants' = Revoked({g}) /\ Goto(w, [op[w] EXCEPT !.rest = @ \ {g}])
     \/ op[w].rest = {} /\ At(w, "delete") /\ UNCHANGED grants
     \/ op[w].rest # {} /\ Give(w) /\ UNCHANGED grants
  /\ UNCHANGED <<record, code, row, cut, undone>>

(* Slip: the record is deleted before the grants are revoked.              *)
DeleteFirst(w) ==
  LET c == op[w].name IN
  /\ op[w].at \in {"revoke", "delete"}
  /\ \/ record[c] # None /\ record' = [record EXCEPT ![c] = None] /\ At(w, "unregister")
     \/ Give(w) /\ UNCHANGED record
  /\ UNCHANGED <<code, grants, row, cut, undone>>

(* Store.Delete, by name: no row, or an error, ends the uninstall.         *)
Delete(w) ==
  LET c == op[w].name IN
  /\ op[w].at = "delete"
  /\ \/ record[c] # None /\ record' = [record EXCEPT ![c] = None] /\ At(w, "unregister")
     \/ Give(w) /\ UNCHANGED record
  /\ UNCHANGED <<code, grants, row, cut, undone>>

(* daemonIngestorBridge.OnUninstall, of every capsule: the source's row by *)
(* name, and the blobs of CapsuleStores; its errors are recorded, no more. *)
OnUninstall(w) ==
  LET c == op[w].name IN
  /\ op[w].at = "unregister"
  /\ row' \in IF op[w].bridged THEN {row, [row EXCEPT ![c] = "none"]} ELSE {row}
  /\ At(w, "removeCode")
  /\ UNCHANGED <<record, code, grants, cut, undone>>

RemoveCode(w) ==
  /\ op[w].at = "removeCode"
  /\ code' = [code EXCEPT ![op[w].name] = "none"]
  /\ Return(w)
  /\ UNCHANGED <<record, grants, row, cut, undone>>

(* capsule uninstall: the command line has no host to stop the capsule in. *)
CommandUninstall(w, c) ==
  /\ w \in Terminal
  /\ Begin(w, [Idle EXCEPT !.at = "remove", !.name = c])
  /\ UNCHANGED <<record, code, grants, row, cut, undone>>

(* A command line process dies, or is interrupted. *)
CommandDies(w) ==
  /\ op[w].at # "idle" /\ ~ op[w].bridged
  /\ Give(w)
  /\ UNCHANGED <<record, code, grants, row, cut, undone>>

InstallStep(w) ==
  \/ CheckAbsent(w) \/ CopyCode(w) \/ IssueGrants(w) \/ Insert(w) \/ OnInstall(w)
  \/ Unrecord(w) \/ Rollback(w)
  \/ GetRecord(w) \/ ListGrants(w) \/ RevokeGrants(w) \/ Delete(w) \/ OnUninstall(w) \/ RemoveCode(w)

-----------------------------------------------------------------------------
(* Properties.                                                             *)

Active(call) == {g \in DOMAIN grants : grants[g].by = call /\ grants[g].active}

(* installer.go: "Rolls back on partial failure (revokes any issued        *)
(* grants ...)".  A capsule on record has every grant of its manifest      *)
(* until an uninstall begins to revoke them, whoever else installs or      *)
(* fails to install the name; and an install that was rolled back to the   *)
(* end has none left.                                                      *)
AllOrNothing ==
  /\ \A c \in Capsule : record[c] # None /\ record[c] \notin cut => Cardinality(Active(record[c])) = Permissions
  /\ \A call \in undone : Active(call) = {}

(* An uninstall deletes the record only when every grant that it listed is *)
(* revoked: stopped anywhere, it can be run again to the end.              *)
RecordOutlivesGrants ==
  \A w \in Worker : op[w].at \in {"unregister", "removeCode"} =>
    \A g \in op[w].own : ~ grants[g].active

(* ingestor_bridge.go: the removal of the source's row "only matches if    *)
(* the capsule was an ingestor in the first place": no uninstall removes a *)
(* source that the user configured.                                        *)
UsersSourceKept == [][\A c \in Capsule : row[c] = "users" => row'[c] = "users"]_row
=============================================================================
