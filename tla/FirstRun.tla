------------------------------ MODULE FirstRun ------------------------------
(***************************************************************************)
(* The first run of a deployed instance: server/setuptoken.go, the init    *)
(* handler of server/console.go, config/write.go and the runtime_state     *)
(* table.  A setup token opens the console's endpoints until an init has   *)
(* succeeded; an init writes the configuration, spends the token, pairs the*)
(* console with a client of its own and applies what needs no restart.     *)
(* Several requests may be in the handler at once; the daemon may die at   *)
(* any step and start again with the same token.                           *)
(***************************************************************************)
EXTENDS Naturals, FiniteSets

CONSTANTS
  Request,       \* the init requests
  MaxStarts,     \* bound: starts of the daemon
  None

VARIABLES
  up, starts,    \* whether the daemon runs, and how often it was started
  consumed,      \* SetupTokenGate.consumed
  row,           \* runtime_state: setup_token_consumed
  config,        \* the configuration file: None, or [by, whole]
  backups,       \* the .bak files: who wrote each
  base,          \* Server.baseConfig: who wrote it
  clients,       \* the paired consoles
  entries,       \* audit: the setup_token.consumed entries, [start, by]
  init           \* the requests: [credential, overwrite, at]

(* No credential is none of the two.                                       *)
RunParameters == None \notin {"token", "client"} /\ MaxStarts \in Nat

runVars == <<up, starts, consumed, row, config, backups, base, clients, entries, init>>

NoRequest == [credential |-> None, overwrite |-> FALSE, at |-> "idle"]

RunInit ==
  /\ up = FALSE /\ starts = 0
  /\ consumed = FALSE /\ row = FALSE
  /\ config = None /\ backups = {} /\ base = None
  /\ clients = {} /\ entries = {}
  /\ init = [r \in Request |-> NoRequest]

RunTypeOK ==
  /\ up \in BOOLEAN /\ starts \in 0 .. MaxStarts
  /\ config = None \/ config \in [by : Request, whole : BOOLEAN]
  /\ backups \subseteq Request /\ base \in Request \union {None}
  /\ clients \subseteq Request
  /\ init \in [Request -> [credential : {None, "token", "client"}, overwrite : BOOLEAN,
       at : {"idle", "stat", "backup", "temp", "rename", "consume", "persist", "record",
             "mint", "base", "ok", "conflict", "error"}]]

-----------------------------------------------------------------------------
(* Slip: the gate looks for the file that older versions wrote, not for    *)
(* the row.                                                                *)
GateOfFile ==
  /\ ~ up /\ starts < MaxStarts
  /\ up' = TRUE /\ starts' = starts + 1
  /\ consumed' = FALSE
  /\ UNCHANGED <<row, config, backups, base, clients, entries, init>>

(* The daemon starts: NewSetupTokenGate takes over what the row says.      *)
NewSetupTokenGate ==
  /\ ~ up /\ starts < MaxStarts
  /\ up' = TRUE /\ starts' = starts + 1
  /\ consumed' = row
  /\ UNCHANGED <<row, config, backups, base, clients, entries, init>>

(* It dies, with the requests in it; the client of a request that was cut  *)
(* short has not received its bearer.                                      *)
Crash ==
  /\ up
  /\ up' = FALSE /\ consumed' = FALSE /\ base' = None
  /\ init' = [r \in Request |-> IF init[r].at = "idle" THEN init[r] ELSE [init[r] EXCEPT !.at = "error"]]
  /\ UNCHANGED <<starts, row, config, backups, clients, entries>>

Goes(r, to) == init' = [init EXCEPT ![r].at = to]

(* Middleware and the checks of the body: the setup token until it is      *)
(* consumed, and then the bearer of a paired client.                       *)
Enter(r) ==
  /\ up /\ init[r].at = "idle"
  /\ \E credential \in {"token", "client"}, overwrite \in BOOLEAN :
       /\ IF credential = "token" THEN ~ consumed ELSE clients # {}
       /\ init' = [init EXCEPT ![r] = [credential |-> credential, overwrite |-> overwrite,
                     at |-> IF overwrite THEN "backup" ELSE "stat"]]
  /\ UNCHANGED <<up, starts, consumed, row, config, backups, base, clients, entries>>

-----------------------------------------------------------------------------
(* WriteAtomic: without the user's word a file that exists is left alone.  *)
Stat(r) ==
  /\ init[r].at = "stat"
  /\ Goes(r, IF config = None THEN "temp" ELSE "conflict")
  /\ UNCHANGED <<up, starts, consumed, row, config, backups, base, clients, entries>>

(* With it the file is renamed to a name of its own.                       *)
Backup(r) ==
  /\ init[r].at = "backup"
  /\ backups' = IF config = None THEN backups ELSE backups \union {config.by}
  /\ config' = None
  /\ Goes(r, "temp")
  /\ UNCHANGED <<up, starts, consumed, row, base, clients, entries>>

(* The temporary file, which a failure removes, and the rename.            *)
WriteTemp(r) ==
  /\ init[r].at = "temp"
  /\ \E to \in {"rename", "error"} : Goes(r, to)
  /\ UNCHANGED <<up, starts, consumed, row, config, backups, base, clients, entries>>

RenameConfig(r) ==
  /\ init[r].at = "rename"
  /\ config' = [by |-> r, whole |-> TRUE]
  /\ Goes(r, "consume")
  /\ UNCHANGED <<up, starts, consumed, row, backups, base, clients, entries>>

-----------------------------------------------------------------------------
(* Consume: the flag is swapped, and whoever swapped it writes the row.    *)
Consume(r) ==
  /\ init[r].at = "consume"
  /\ consumed' = TRUE
  /\ Goes(r, IF consumed THEN "mint" ELSE "persist")
  /\ UNCHANGED <<up, starts, row, config, backups, base, clients, entries>>

(* The row; a failure is logged.                                           *)
Persist(r) ==
  /\ init[r].at = "persist"
  /\ row' \in {row, TRUE}
  /\ Goes(r, "record")
  /\ UNCHANGED <<up, starts, consumed, config, backups, base, clients, entries>>

(* The entry of the first call; its error is dropped.                      *)
Record(r) ==
  /\ init[r].at = "record"
  /\ entries' \in {entries, entries \union {[start |-> starts, by |-> r]}}
  /\ Goes(r, "mint")
  /\ UNCHANGED <<up, starts, consumed, row, config, backups, base, clients>>

(* mintConsoleClient: a pairing code that is redeemed at once, or nothing. *)
MintConsoleClient(r) ==
  /\ init[r].at = "mint"
  /\ clients' \in {clients, clients \union {r}}
  /\ Goes(r, "base")
  /\ UNCHANGED <<up, starts, consumed, row, config, backups, base, entries>>

(* Diff, applyHotSwap and the new base for the next request's diff.        *)
TakeOver(r) ==
  /\ init[r].at = "base"
  /\ base' = r
  /\ Goes(r, "ok")
  /\ UNCHANGED <<up, starts, consumed, row, config, backups, clients, entries>>

RunNext ==
  \/ NewSetupTokenGate \/ Crash
  \/ \E r \in Request :
       \/ Enter(r) \/ Stat(r) \/ Backup(r) \/ WriteTemp(r) \/ RenameConfig(r)
       \/ Consume(r) \/ Persist(r) \/ Record(r) \/ MintConsoleClient(r) \/ TakeOver(r)

RunSpec == RunInit /\ [][RunNext]_runVars

-----------------------------------------------------------------------------
(* Properties.                                                             *)

(* However many inits pass the gate together, one of them spends the token:*)
(* a start of the daemon records one setup_token.consumed at most.         *)
ConsumedOnce ==
  \A e, f \in entries : e.start = f.start => e.by = f.by

(* Once the row is written no later start lets the token in again.         *)
GateStaysShut ==
  [][\A r \in Request :
       init'[r].credential = "token" /\ init[r].credential = None => ~ row]_runVars

(* The configuration is whole or absent at every moment, and so for the    *)
(* next start (write.go: "even if the process is killed mid-write").       *)
ConfigWhole == config # None => config.whole

(* A configuration that was written is replaced only by a request that     *)
(* asked to overwrite (the header of every file: "no configuration is lost *)
(* without consent").                                                      *)
ReplacedByConsent ==
  [][\A r \in Request :
       config # None /\ config' # None /\ config'.by = r /\ config.by # r => init[r].overwrite]_runVars
=============================================================================
