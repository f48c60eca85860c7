----------------------------- MODULE DaemonLife -----------------------------
(***************************************************************************)
(* cli/start.go: the daemon opens its parts one after the other, each      *)
(* deferring what closes it, serves until a signal or until the listener   *)
(* fails, and runs the deferred calls in reverse.  The end of the server   *)
(* waits five seconds for the requests that are being handled, the end of  *)
(* the capsules five more; the syncs that a request has started are waited *)
(* for by nobody.                                                          *)
(***************************************************************************)
EXTENDS Naturals, Sequences, SequencesExt

CONSTANTS
  Adapter,       \* the configured model adapters
  Handler        \* requests, each of which may start a sync

VARIABLES
  phase,         \* of runStart
  next,          \* the part that is opened next
  defers,        \* the deferred calls, the last one first
  held,          \* what is open
  toInit,        \* the model adapters that are not inited yet
  handler,       \* the requests
  background,    \* the syncs
  ticking        \* whether a ticker of an ingestor is in a tick

lifeVars == <<phase, next, defers, held, toInit, handler, background, ticking>>

(* runStart, in its order.  The database is shared, so that the stores'    *)
(* own closers have nothing to close; audit has a database of its own.     *)
Parts == <<"runtimeDB", "audit", "memory", "models", "host", "storage", "scheduler", "capsules">>

LifeInit ==
  /\ phase = "opening" /\ next = 1
  /\ defers = <<>> /\ held = {} /\ toInit = Adapter
  /\ handler = [h \in Handler |-> "idle"]
  /\ background = {} /\ ticking = FALSE

LifeTypeOK ==
  /\ phase \in {"opening", "serving", "stopping", "closing", "exited"}
  /\ next \in 1 .. Len(Parts) + 1
  /\ held \subseteq (ToSet(Parts) \union Adapter)
  /\ handler \in [Handler -> {"idle", "running", "done"}]
  /\ background \subseteq Handler /\ ticking \in BOOLEAN

-----------------------------------------------------------------------------
(* A part is opened and its closer deferred; or it fails, and the deferred *)
(* calls run.  capsules is host.Start, which the closer of host undoes.    *)
OpenPart ==
  /\ phase = "opening" /\ next \in DOMAIN Parts /\ Parts[next] # "models"
  /\ \/ /\ held' = held \union {Parts[next]}
        /\ defers' = IF Parts[next] = "capsules" THEN defers ELSE <<Parts[next]>> \o defers
        /\ next' = next + 1 /\ UNCHANGED phase
     \/ phase' = "closing" /\ UNCHANGED <<next, defers, held>>
  /\ UNCHANGED <<toInit, handler, background, ticking>>

(* Slip: the adapters that were opened before the one that fails are left. *)
OpenModelsOrLeave ==
  /\ phase = "opening" /\ next \in DOMAIN Parts /\ Parts[next] = "models"
  /\ IF toInit = {}
     THEN defers' = <<"models">> \o defers /\ next' = next + 1 /\ UNCHANGED <<phase, held, toInit>>
     ELSE \/ \E a \in toInit : held' = held \union {a} /\ toInit' = toInit \ {a}
             /\ UNCHANGED <<phase, next, defers>>
          \/ phase' = "closing" /\ UNCHANGED <<next, defers, held, toInit>>
  /\ UNCHANGED <<handler, background, ticking>>

(* openAllModelAdapters: all of them, or none.                             *)
OpenModels ==
  /\ phase = "opening" /\ next \in DOMAIN Parts /\ Parts[next] = "models"
  /\ IF toInit = {}
     THEN defers' = <<"models">> \o defers /\ next' = next + 1 /\ UNCHANGED <<phase, held, toInit>>
     ELSE \/ \E a \in toInit : held' = held \union {a} /\ toInit' = toInit \ {a}
             /\ UNCHANGED <<phase, next, defers>>
          \/ phase' = "closing" /\ held' = held \ Adapter /\ UNCHANGED <<next, defers, toInit>>
  /\ UNCHANGED <<handler, background, ticking>>

(* runServer: requests come while it serves; a listener that cannot listen *)
(* ends it at once.                                                        *)
Serve ==
  /\ phase = "opening" /\ next = Len(Parts) + 1
  /\ phase' \in {"serving", "closing"}
  /\ UNCHANGED <<next, defers, held, toInit, handler, background, ticking>>

Handle(h) ==
  /\ \/ phase = "serving" /\ handler[h] = "idle" /\ handler' = [handler EXCEPT ![h] = "running"]
        /\ UNCHANGED background
     \/ handler[h] = "running" /\ handler' = [handler EXCEPT ![h] = "done"]
        /\ background' \in {background, background \union {h}}
  /\ UNCHANGED <<phase, next, defers, held, toInit, ticking>>

SyncEnds(h) ==
  /\ h \in background
  /\ background' = background \ {h}
  /\ UNCHANGED <<phase, next, defers, held, toInit, handler, ticking>>

TickStarts ==
  /\ "capsules" \in held /\ phase # "closing" /\ ~ ticking
  /\ ticking' = TRUE
  /\ UNCHANGED <<phase, next, defers, held, toInit, handler, background>>

TickEnds ==
  /\ ticking
  /\ ticking' = FALSE
  /\ UNCHANGED <<phase, next, defers, held, toInit, handler, background>>

(* installSignalTrap.                                                      *)
Signal ==
  /\ phase = "serving" /\ phase' = "stopping"
  /\ UNCHANGED <<next, defers, held, toInit, handler, background, ticking>>

(* Shutdown: no request is left, or its time is over.                      *)
Shutdown ==
  /\ phase = "stopping"
  /\ phase' = "closing"
  /\ UNCHANGED <<next, defers, held, toInit, handler, background, ticking>>

(* The deferred calls.  The scheduler's waits for a tick that it has       *)
(* cancelled, the host's stops the capsules.                               *)
RunDeferred ==
  /\ phase = "closing" /\ defers # <<>>
  /\ Head(defers) = "scheduler" => ~ ticking
  /\ held' = held \ CASE Head(defers) = "models" -> Adapter
                      [] Head(defers) = "host" -> {"host", "capsules"}
                      [] OTHER -> {Head(defers)}
  /\ defers' = Tail(defers)
  /\ UNCHANGED <<phase, next, toInit, handler, background, ticking>>

(* The process ends, and with it what still runs.                          *)
Exit ==
  /\ phase = "closing" /\ defers = <<>>
  /\ phase' = "exited"
  /\ handler' = [h \in Handler |-> "done"] /\ background' = {}
  /\ UNCHANGED <<next, defers, held, toInit, ticking>>

LifeNext ==
  \/ OpenPart \/ OpenModels \/ Serve \/ Signal \/ Shutdown \/ RunDeferred \/ Exit
  \/ TickStarts \/ TickEnds
  \/ \E h \in Handler : Handle(h) \/ SyncEnds(h)

LifeSpec == LifeInit /\ [][LifeNext]_lifeVars

(* The deadlines pass, and a tick that is cancelled ends; a request may    *)
(* take for ever.                                                          *)
LifeFairness ==
  WF_lifeVars(Shutdown) /\ WF_lifeVars(RunDeferred) /\ WF_lifeVars(Exit) /\ WF_lifeVars(TickEnds)

-----------------------------------------------------------------------------
(* Properties.                                                             *)

(* After the signal the daemon ends, though requests and syncs may hang.   *)
SignalEndsDaemon == phase = "stopping" ~> phase = "exited"

(* Whatever was opened is closed when the daemon ends, wherever the start  *)
(* failed.                                                                 *)
NothingLeftOpen == phase = "exited" => held = {}
=============================================================================
