---------------------------- MODULE CapsuleHost ----------------------------
(***************************************************************************)
(* internal/capsule/host.go, process.go and client.go, the ingestor        *)
(* scheduler of cli/ingestor_scheduler.go and the console's handlers in    *)
(* server/capsules.go, over the installer of CapsuleInstall.  A capsule    *)
(* runs as a subprocess behind a client; its tools are mounted in the      *)
(* registry of the MCP server, and an ingestor has a ticker that calls its *)
(* sync tool.  Starts and stops of one capsule may run at once: the host's *)
(* lock covers its map alone, and the scheduler's its own.                 *)
(***************************************************************************)
EXTENDS CapsuleInstall

VARIABLES
  proc,      \* the subprocess of a client: its state in process.go
  owner,     \* the capsule a client was made for
  running,   \* Host.clients: the client of a capsule, or 0
  mounted,   \* the registry: the client that the capsule's tool calls, or 0
  ticker,    \* ingestorScheduler.tickers: the ticker of a capsule, or 0
  tick,      \* what each ticker goroutine is doing
  cancelled, \* the tickers whose context is cancelled
  smu        \* the worker that holds the scheduler's lock while it waits, or None

hostVars == <<proc, owner, running, mounted, ticker, tick, cancelled, smu>>
vars == <<installVars, op, hostVars>>

(* A client has the number of the call that made it, and so has a ticker.  *)
Client == Call

State == {"created", "running", "stopping", "exited", "failed"}

TickerState == {"none", "waiting", "syncing", "calling", "done"}

HostTypeOK ==
  /\ InstallTypeOK
  /\ proc \in [Client -> State]
  /\ owner \in [Client -> Capsule \union {None}]
  /\ running \in [Capsule -> Client \union {0}]
  /\ mounted \in [Capsule -> Client \union {0}]
  /\ ticker \in [Capsule -> Client \union {0}]
  /\ tick \in [Client -> TickerState]
  /\ cancelled \subseteq Client
  /\ smu \in Worker \union {None}

Init ==
  /\ InstallInit
  /\ proc = [k \in Client |-> "created"]
  /\ owner = [k \in Client |-> None]
  /\ running = [c \in Capsule |-> 0]
  /\ mounted = [c \in Capsule |-> 0]
  /\ ticker = [c \in Capsule |-> 0]
  /\ tick = [k \in Client |-> "none"]
  /\ cancelled = {}
  /\ smu = None

Alive(k) == proc[k] \in {"running", "stopping"}

-----------------------------------------------------------------------------
(* The console's buttons.  handleCapsuleStart reads the record first;      *)
(* handleCapsuleUninstall stops the capsule and then runs the installer;   *)
(* Host.Start, at boot, starts what List returned.                         *)
StartButton(w, c) ==
  /\ w \in Console /\ record[c] # None
  /\ Begin(w, [Idle EXCEPT !.at = "start", !.name = c, !.bridged = TRUE])
  /\ UNCHANGED <<record, code, grants, row, cut, undone, hostVars>>

StopButton(w, c) ==
  /\ w \in Console
  /\ Begin(w, [Idle EXCEPT !.at = "stop", !.name = c, !.bridged = TRUE])
  /\ UNCHANGED <<record, code, grants, row, cut, undone, hostVars>>

UninstallButton(w, c) ==
  /\ w \in Console
  /\ Begin(w, [Idle EXCEPT !.at = "stop", !.name = c, !.then = "remove", !.bridged = TRUE])
  /\ UNCHANGED <<record, code, grants, row, cut, undone, hostVars>>

(* The daemon is told to stop: the scheduler's stop, and then Host.Stop.   *)
ShutDown(w) ==
  /\ w \in Console
  /\ Begin(w, [Idle EXCEPT !.at = "drainAll", !.bridged = TRUE])
  /\ UNCHANGED <<record, code, grants, row, cut, undone, hostVars>>

-----------------------------------------------------------------------------
(* Host.StartOne looks for the capsule in the map and lets the lock go.    *)
StartOne(w) ==
  /\ op[w].at = "start"
  /\ IF running[op[w].name] # 0 THEN Return(w) ELSE At(w, "spawn")
  /\ UNCHANGED hostVars

(* Process.Start: pipes and exec; a failure leaves nothing to stop.        *)
Spawn(w) ==
  LET k == op[w].call IN
  /\ op[w].at = "spawn"
  /\ owner' = [owner EXCEPT ![k] = op[w].name]
  /\ \/ proc' = [proc EXCEPT ![k] = "running"] /\ Goto(w, [op[w] EXCEPT !.at = "handshake", !.client = k])
     \/ proc' = [proc EXCEPT ![k] = "failed"] /\ Return(w)
  /\ UNCHANGED <<running, mounted, ticker, tick, cancelled, smu>>

(* Client.startLocked: initialize and tools/list, ten seconds each.  On a  *)
(* failure the process is stopped, and the transport left to its fate.     *)
Handshake(w) ==
  /\ op[w].at = "handshake"
  /\ \/ proc[op[w].client] = "running" /\ At(w, "enter")
     \/ At(w, "terminate")
  /\ UNCHANGED hostVars

(* StartOne enters the client in the map, whatever stands there by now,    *)
(* and mounts its tools: Registry.Register refuses a name that it has, so  *)
(* the older mount stays.  Nothing here reads the registry in between.     *)
Enter(w) ==
  LET c == op[w].name IN
  /\ op[w].at = "enter"
  /\ running' = [running EXCEPT ![c] = op[w].client]
  /\ mounted' = [mounted EXCEPT ![c] = IF @ = 0 THEN op[w].client ELSE @]
  /\ At(w, "schedule")
  /\ UNCHANGED <<proc, owner, ticker, tick, cancelled, smu>>

(* Slip: the new ticker takes the place of the old one, which ticks on.    *)
ScheduleAnew(w) ==
  LET c == op[w].name IN
  /\ op[w].at = "schedule" /\ smu = None
  /\ IF c \in Ingestor
     THEN /\ ticker' = [ticker EXCEPT ![c] = op[w].client]
          /\ tick' = [tick EXCEPT ![op[w].client] = "waiting"]
     ELSE UNCHANGED <<ticker, tick>>
  /\ Return(w)
  /\ UNCHANGED <<proc, owner, running, mounted, cancelled, smu>>

(* OnCapsuleStarted, of an ingestor: an older ticker is cancelled and      *)
(* waited for, with the scheduler's lock held.                             *)
Schedule(w) ==
  LET c == op[w].name IN
  /\ op[w].at = "schedule" /\ smu = None
  /\ \/ c \notin Ingestor /\ Return(w) /\ UNCHANGED <<ticker, tick, cancelled, smu>>
     \/ /\ c \in Ingestor /\ ticker[c] = 0
        /\ ticker' = [ticker EXCEPT ![c] = op[w].client]
        /\ tick' = [tick EXCEPT ![op[w].client] = "waiting"]
        /\ Return(w)
        /\ UNCHANGED <<cancelled, smu>>
     \/ /\ c \in Ingestor /\ ticker[c] # 0
        /\ cancelled' = cancelled \union {ticker[c]}
        /\ smu' = w
        /\ At(w, "replace")
        /\ UNCHANGED <<ticker, tick>>
  /\ UNCHANGED <<proc, owner, running, mounted>>

Replace(w) ==
  LET c == op[w].name IN
  /\ op[w].at = "replace"
  /\ tick[ticker[c]] = "done"
  /\ ticker' = [ticker EXCEPT ![c] = op[w].client]
  /\ tick' = [tick EXCEPT ![op[w].client] = "waiting"]
  /\ smu' = None
  /\ Return(w)
  /\ UNCHANGED <<proc, owner, running, mounted, cancelled>>

-----------------------------------------------------------------------------
(* Host.StopOne takes the client out of the map under the lock.            *)
StopOne(w) ==
  LET c == op[w].name IN
  /\ op[w].at = "stop"
  /\ IF running[c] = 0
     THEN Return(w) /\ UNCHANGED running
     ELSE /\ running' = [running EXCEPT ![c] = 0]
          /\ Goto(w, [op[w] EXCEPT !.at = "unschedule", !.client = running[c]])
  /\ UNCHANGED <<proc, owner, mounted, ticker, tick, cancelled, smu>>

(* OnCapsuleStopped: the ticker leaves the map under the scheduler's lock, *)
(* and is cancelled and waited for without it.                             *)
Unschedule(w) ==
  LET c == op[w].name IN
  /\ op[w].at = "unschedule" /\ smu = None
  /\ ticker' = [ticker EXCEPT ![c] = 0]
  /\ IF ticker[c] = 0
     THEN At(w, "terminate") /\ UNCHANGED cancelled
     ELSE /\ cancelled' = cancelled \union {ticker[c]}
          /\ Goto(w, [op[w] EXCEPT !.at = "terminate", !.rest = {ticker[c]}])
  /\ UNCHANGED <<proc, owner, running, mounted, tick, smu>>

(* Client.Stop closes the transport and stops the process: stdin is closed *)
(* and SIGTERM sent, and five seconds later SIGKILL; only a process that   *)
(* outlives that by two seconds more is left.                              *)
Terminate(w) ==
  LET k == op[w].client IN
  /\ op[w].at = "terminate"
  /\ \A t \in op[w].rest : tick[t] = "done"
  /\ proc' = [proc EXCEPT ![k] = IF @ = "running" THEN "stopping" ELSE @]
  /\ Goto(w, [op[w] EXCEPT !.at = "reap", !.rest = {}])
  /\ UNCHANGED <<owner, running, mounted, ticker, tick, cancelled, smu>>

Reap(w) ==
  LET k == op[w].client IN
  /\ op[w].at = "reap"
  /\ ~ Alive(k)
  /\ Return(w)
  /\ UNCHANGED hostVars

(* ingestorScheduler.stop takes the whole map of tickers, and cancels and  *)
(* waits for one after the other.                                          *)
DrainAll(w) ==
  /\ op[w].at = "drainAll" /\ smu = None
  /\ ticker' = [c \in Capsule |-> 0]
  /\ cancelled' = cancelled \union ({ticker[c] : c \in Capsule} \ {0})
  /\ Goto(w, [op[w] EXCEPT !.at = "stopAll", !.rest = {ticker[c] : c \in Capsule} \ {0}])
  /\ UNCHANGED <<proc, owner, running, mounted, tick, smu>>

(* Host.Stop takes the whole map of clients, and stops them in any order.  *)
StopAll(w) ==
  /\ op[w].at = "stopAll"
  /\ \A t \in op[w].rest : tick[t] = "done"
  /\ running' = [c \in Capsule |-> 0]
  /\ Goto(w, [op[w] EXCEPT !.at = "stopNext", !.rest = {}, !.own = {running[c] : c \in Capsule} \ {0}])
  /\ UNCHANGED <<proc, owner, mounted, ticker, tick, cancelled, smu>>

StopNext(w) ==
  /\ op[w].at = "stopNext"
  /\ \/ op[w].own = {} /\ Give(w)
     \/ \E k \in op[w].own :
          Goto(w, [op[w] EXCEPT !.at = "unschedule", !.then = "stopNext", !.own = @ \ {k},
                                !.name = owner[k], !.client = k])
  /\ UNCHANGED hostVars

(* watchExit: the process ends, of itself or after a signal.  Nothing      *)
(* tells the host.                                                         *)
WatchExit(k) ==
  /\ Alive(k)
  /\ proc' = [proc EXCEPT ![k] = "exited"]
  /\ UNCHANGED <<installVars, op, owner, running, mounted, ticker, tick, cancelled, smu>>

-----------------------------------------------------------------------------
(* tickerLoop: the wait ends with the interval or with the context; a      *)
(* select that finds both takes either.                                    *)
Wake(k) ==
  /\ tick[k] = "waiting"
  /\ \/ tick' = [tick EXCEPT ![k] = "syncing"]
     \/ k \in cancelled /\ tick' = [tick EXCEPT ![k] = "done"]
  /\ UNCHANGED <<installVars, op, proc, owner, running, mounted, ticker, cancelled, smu>>

(* After a sync, a select that finds the context done does not wait.       *)
Rest(k) == IF k \in cancelled THEN "done" ELSE "waiting"

(* Slip: the sync looks its client up through the scheduler's lock.        *)
FindClientLocked(k) ==
  /\ tick[k] = "syncing" /\ smu = None
  /\ tick' = [tick EXCEPT ![k] = IF running[owner[k]] = 0 THEN Rest(k) ELSE "calling"]
  /\ UNCHANGED <<installVars, op, proc, owner, running, mounted, ticker, cancelled, smu>>

(* runOneSync looks the client up by name; without one it reports an error *)
(* (SetLastSync and the log are the business of SourceSync).               *)
FindClient(k) ==
  /\ tick[k] = "syncing"
  /\ tick' = [tick EXCEPT ![k] = IF running[owner[k]] = 0 THEN Rest(k) ELSE "calling"]
  /\ UNCHANGED <<installVars, op, proc, owner, running, mounted, ticker, cancelled, smu>>

(* The call of the sync tool returns: with counters, an error, after ten   *)
(* minutes, or because the context is cancelled.                           *)
EndSync(k) ==
  /\ tick[k] = "calling"
  /\ tick' = [tick EXCEPT ![k] = Rest(k)]
  /\ UNCHANGED <<installVars, op, proc, owner, running, mounted, ticker, cancelled, smu>>

HostStep(w) ==
  \/ StartOne(w) \/ Spawn(w) \/ Handshake(w) \/ Enter(w) \/ Schedule(w) \/ Replace(w)
  \/ DrainAll(w) \/ StopAll(w) \/ StopNext(w) \/ StopOne(w) \/ Unschedule(w) \/ Terminate(w) \/ Reap(w)

Ticking(k) == Wake(k) \/ FindClient(k) \/ EndSync(k)

Buttons(w, c) ==
  \/ Install(w, c, TRUE) /\ UNCHANGED hostVars
  \/ Install(w, c, FALSE) /\ UNCHANGED hostVars
  \/ CommandUninstall(w, c) /\ UNCHANGED hostVars
  \/ StartButton(w, c) \/ StopButton(w, c) \/ UninstallButton(w, c)

Step(w) ==
  \/ HostStep(w) /\ UNCHANGED installVars
  \/ InstallStep(w) /\ UNCHANGED hostVars

Next ==
  \/ \E w \in Worker : Step(w) \/ (CommandDies(w) /\ UNCHANGED hostVars)
  \/ \E w \in Worker : ShutDown(w) \/ \E c \in Capsule : Buttons(w, c)
  \/ \E k \in Client : WatchExit(k) \/ Ticking(k)

Spec == Init /\ [][Next]_vars

(* Goroutines run; a process that was told to stop is killed in the end,   *)
(* and a call of a capsule has a deadline.  Nobody has to press a button,  *)
(* and a capsule need not exit of itself.                                  *)
Fairness ==
  /\ WF_vars(\E w \in Worker : Step(w))
  /\ \A k \in Client : WF_vars(Ticking(k))
  /\ WF_vars(\E k \in Client : proc[k] = "stopping" /\ WatchExit(k))

LiveSpec == Spec /\ Fairness

-----------------------------------------------------------------------------
(* Properties.                                                             *)

(* ingestor_scheduler.go: one ticker per ingestor.  However starts and     *)
(* stops interleave, of two tickers of a capsule one is cancelled: its     *)
(* syncs end, and report nothing.  Carries the types of the host's state.  *)
OneTickerPerCapsule ==
  /\ HostTypeOK
  /\ \A k, l \in Client :
       k # l /\ owner[k] = owner[l] /\ {tick[k], tick[l]} \subseteq {"waiting", "syncing", "calling"} =>
         k \in cancelled \/ l \in cancelled

(* No start, stop, install or uninstall hangs: whoever waits for a ticker, *)
(* with or without the scheduler's lock, waits for one that ends.          *)
EveryButtonReturns == \A w \in Worker : op[w].at # "idle" ~> op[w].at = "idle"

(* host.go: StopOne is used "by Uninstall to guarantee the capsule's       *)
(* subprocess is gone before its files / grants are removed".              *)
SubprocessGone ==
  \A w \in Worker : op[w].at = "removeCode" /\ op[w].bridged =>
    ~ \E k \in Client : owner[k] = op[w].name /\ Alive(k)
=============================================================================
