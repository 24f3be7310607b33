-------------------------- MODULE BackendSupervision --------------------------
(***************************************************************************)
(* BackendProcess and BackendSupervisor (backend.py): the daemon owns one   *)
(* inference server process, starts it, watches it, restarts it with a      *)
(* bounded number of attempts, recycles it on purpose and stops it.         *)
(*                                                                         *)
(* Every start, stop and restart of the process runs under the supervisor's *)
(* _lifecycle_lock, one call at a time; the process may die at any moment   *)
(* of it.  A child is named by its number, 0 is no process.                 *)
(***************************************************************************)
EXTENDS Naturals, FiniteSets

CONSTANTS
    Planners,         \* threads that ask for an intentional restart
    MaximumRestarts,  \* maximum_restarts of the watchdog
    Nobody            \* _lifecycle_lock is free

ASSUME SupervisionAssumption ==
    /\ MaximumRestarts \in Nat \ {0}
    /\ {"launcher", "watchdog", "stopper", Nobody} \cap Planners = {}
    /\ Nobody \notin {"launcher", "watchdog", "stopper"}

VARIABLES
    backend,     \* _process
    spawned,     \* how many children were started so far
    living,      \* the children that run
    killed,      \* children sent SIGKILL that have not been reaped in time
    readyFlag,   \* _ready
    lifecycle,   \* who holds _lifecycle_lock
    call,        \* where its call of BackendProcess is
    after,       \* what follows the stop() of that call
    victim,      \* the process that stop() read
    launcher,    \* the thread that calls start() once
    watchdog,    \* _monitor
    restarts,    \* _restart_count
    exhausted,   \* _exhausted
    planner,     \* the threads that call restart()
    stopping,    \* _stop is set
    stopper,     \* the thread that calls stop()
    late         \* start() came after stop() had stopped the process (history)

serverVars == <<backend, spawned, living, killed, readyFlag, victim>>
callVars == <<lifecycle, call, after>>
superVars == <<launcher, watchdog, restarts, exhausted, planner, stopping, stopper, late>>
backendVars == <<serverVars, callVars, superVars>>

Holders == {"launcher", "watchdog", "stopper", Nobody} \cup Planners

BackendTypeOK ==
    /\ backend \in 0 .. spawned
    /\ spawned \in Nat
    /\ living \subseteq 1 .. spawned
    /\ killed \subseteq living
    /\ readyFlag \in BOOLEAN
    /\ victim \in 0 .. spawned
    /\ lifecycle \in Holders
    /\ call \in {"none", "stop", "terminate", "clear", "start", "poll", "answered",
                 "returned", "raised"}
    /\ after \in {"return", "start", "raise"}
    /\ launcher \in {"idle", "starting", "done", "failed"}
    /\ watchdog \in {"none", "polling", "backoff", "locking", "restarting", "counting", "ended"}
    /\ restarts \in 0 .. MaximumRestarts
    /\ exhausted \in BOOLEAN
    /\ planner \in [Planners -> {"idle", "restarting", "done"}]
    /\ stopping \in BOOLEAN
    /\ stopper \in {"idle", "locking", "stopping", "joining", "stopped", "raised"}
    /\ late \in BOOLEAN

BackendInit ==
    /\ backend = 0
    /\ spawned = 0
    /\ living = {}
    /\ killed = {}
    /\ readyFlag = FALSE
    /\ victim = 0
    /\ lifecycle = Nobody
    /\ call = "none"
    /\ after = "return"
    /\ launcher = "idle"
    /\ watchdog = "none"
    /\ restarts = 0
    /\ exhausted = FALSE
    /\ planner = [p \in Planners |-> "idle"]
    /\ stopping = FALSE
    /\ stopper = "idle"
    /\ late = FALSE

Running == backend \in living
BackendReady == readyFlag /\ Running

-----------------------------------------------------------------------------
(* BackendProcess, called by whoever holds the lock.                       *)
AfterStop == IF after = "start" THEN "start" ELSE IF after = "return" THEN "returned" ELSE "raised"

(* stop(): the process is read and _ready reset; without one it is over.   *)
StopReads ==
    /\ call = "stop"
    /\ victim' = backend
    /\ readyFlag' = FALSE
    /\ call' = IF backend = 0 THEN AfterStop ELSE "terminate"
    /\ UNCHANGED <<backend, spawned, living, killed, lifecycle, after, superVars>>

(* It is dead, exits on terminate, or is killed.                           *)
StopReaps ==
    /\ call = "terminate"
    /\ living' = living \ {victim}
    /\ killed' = killed \ {victim}
    /\ call' = "clear"
    /\ UNCHANGED <<backend, spawned, readyFlag, victim, lifecycle, after, superVars>>

(* The wait after kill times out and the exception leaves stop().          *)
StopTimesOutForgets ==
    /\ call = "terminate"
    /\ victim \in living
    /\ killed' = killed \cup {victim}
    /\ call' = "clear"
    /\ UNCHANGED <<backend, spawned, living, readyFlag, victim, lifecycle, after, superVars>>
StopTimesOut ==
    /\ call = "terminate"
    /\ victim \in living
    /\ killed' = killed \cup {victim}
    /\ call' = "raised"
    /\ UNCHANGED <<backend, spawned, living, readyFlag, victim, lifecycle, after, superVars>>

StopClears ==
    /\ call = "clear"
    /\ backend' = IF backend = victim THEN 0 ELSE backend
    /\ call' = AfterStop
    /\ UNCHANGED <<spawned, living, killed, readyFlag, victim, lifecycle, after, superVars>>

(* start(): a process was started already, the port is taken, or the       *)
(* executable cannot be run.                                               *)
StartRefused ==
    /\ call = "start"
    /\ call' = "raised"
    /\ UNCHANGED <<serverVars, lifecycle, after, superVars>>

StartSpawns ==
    /\ call = "start"
    /\ backend = 0
    /\ spawned' = spawned + 1
    /\ backend' = spawned + 1
    /\ living' = living \cup {spawned + 1}
    /\ call' = "poll"
    /\ UNCHANGED <<killed, readyFlag, victim, lifecycle, after, superVars>>

PollFindsExit ==
    /\ call = "poll"
    /\ ~Running
    /\ call' = "raised"
    /\ UNCHANGED <<serverVars, lifecycle, after, superVars>>

(* The probe of /health or /v1/models succeeds.                            *)
PollAnswered ==
    /\ call = "poll"
    /\ Running
    /\ call' = "answered"
    /\ UNCHANGED <<serverVars, lifecycle, after, superVars>>

SetsReady ==
    /\ call = "answered"
    /\ readyFlag' = TRUE
    /\ call' = "returned"
    /\ UNCHANGED <<backend, spawned, living, killed, victim, lifecycle, after, superVars>>

(* startup_timeout: the child is stopped and the start raises.             *)
PollTimesOut ==
    /\ call = "poll"
    /\ call' = "stop"
    /\ after' = "raise"
    /\ UNCHANGED <<serverVars, lifecycle, superVars>>

ProcessStep ==
    \/ StopReads
    \/ StopReaps
    \/ StopTimesOut
    \/ StopClears
    \/ StartRefused
    \/ StartSpawns
    \/ PollFindsExit
    \/ PollAnswered
    \/ SetsReady
    \/ PollTimesOut

-----------------------------------------------------------------------------
(* The lock: one call at a time.                                           *)
Calls(t, first, then) ==
    /\ lifecycle = Nobody
    /\ lifecycle' = t
    /\ call' = first
    /\ after' = then
CallEnds(t) ==
    /\ lifecycle = t
    /\ call \in {"returned", "raised"}
    /\ lifecycle' = Nobody
    /\ call' = "none"
    /\ UNCHANGED after

(* BackendSupervisor.start(), called once by the daemon's launch thread.   *)
LauncherStarts ==
    /\ launcher = "idle"
    /\ Calls("launcher", "start", "return")
    /\ launcher' = "starting"
    /\ late' = (stopper \notin {"idle", "locking"})
    /\ UNCHANGED <<serverVars, watchdog, restarts, exhausted, planner, stopping, stopper>>

LauncherEnds ==
    /\ CallEnds("launcher")
    /\ launcher' = IF call = "returned" THEN "done" ELSE "failed"
    /\ watchdog' = IF call = "returned" THEN "polling" ELSE watchdog
    /\ UNCHANGED <<serverVars, restarts, exhausted, planner, stopping, stopper, late>>

-----------------------------------------------------------------------------
(* The watchdog: _monitor.                                                 *)
watchFrame == <<serverVars, launcher, planner, stopping, stopper, late>>

WatchdogPolls ==
    /\ watchdog = "polling"
    /\ \/ stopping /\ watchdog' = "ended" /\ UNCHANGED exhausted
       \/ /\ ~stopping /\ ~Running
          /\ IF restarts >= MaximumRestarts
             THEN watchdog' = "ended" /\ exhausted' = TRUE
             ELSE watchdog' = "backoff" /\ UNCHANGED exhausted
    /\ UNCHANGED <<watchFrame, callVars, restarts>>

WatchdogWaits ==
    /\ watchdog = "backoff"
    /\ watchdog' = IF stopping THEN "ended" ELSE "locking"
    /\ UNCHANGED <<watchFrame, callVars, restarts, exhausted>>

(* Under the lock both conditions are read again.                          *)
WatchdogRestartsBlindly ==
    /\ watchdog = "locking"
    /\ \/ stopping /\ lifecycle = Nobody /\ watchdog' = "ended" /\ UNCHANGED callVars
       \/ ~stopping /\ Calls("watchdog", "stop", "start") /\ watchdog' = "restarting"
    /\ UNCHANGED <<watchFrame, restarts, exhausted>>
WatchdogRestartsAnyway ==
    /\ watchdog = "locking"
    /\ \/ Running /\ lifecycle = Nobody /\ watchdog' = "polling" /\ UNCHANGED callVars
       \/ ~Running /\ Calls("watchdog", "stop", "start") /\ watchdog' = "restarting"
    /\ UNCHANGED <<watchFrame, restarts, exhausted>>
WatchdogRestarts ==
    /\ watchdog = "locking"
    /\ \/ stopping /\ lifecycle = Nobody /\ watchdog' = "ended" /\ UNCHANGED callVars
       \/ ~stopping /\ Running /\ lifecycle = Nobody /\ watchdog' = "polling" /\ UNCHANGED callVars
       \/ ~stopping /\ ~Running /\ Calls("watchdog", "stop", "start") /\ watchdog' = "restarting"
    /\ UNCHANGED <<watchFrame, restarts, exhausted>>

WatchdogReturns ==
    /\ CallEnds("watchdog")
    /\ watchdog' = "counting"
    /\ UNCHANGED <<watchFrame, restarts, exhausted>>

(* A failed attempt counts like a successful one.                          *)
WatchdogForgetsFailures ==
    /\ watchdog = "counting"
    /\ restarts' = IF BackendReady THEN restarts + 1 ELSE restarts
    /\ watchdog' = "polling"
    /\ UNCHANGED <<watchFrame, callVars, exhausted>>
WatchdogCounts ==
    /\ watchdog = "counting"
    /\ restarts' = restarts + 1
    /\ watchdog' = "polling"
    /\ UNCHANGED <<watchFrame, callVars, exhausted>>

WatchdogTurns ==
    \/ WatchdogPolls
    \/ WatchdogWaits
    \/ WatchdogReturns
    \/ WatchdogCounts
WatchdogStep == WatchdogTurns \/ WatchdogRestarts

-----------------------------------------------------------------------------
(* restart(): handed out once the backend is up; raises when stopping.     *)
PlannerRestarts(p) ==
    /\ planner[p] = "idle"
    /\ launcher = "done"
    /\ \/ /\ stopping /\ lifecycle = Nobody
          /\ planner' = [planner EXCEPT ![p] = "done"]
          /\ UNCHANGED callVars
       \/ /\ ~stopping
          /\ Calls(p, "stop", "start")
          /\ planner' = [planner EXCEPT ![p] = "restarting"]
    /\ UNCHANGED <<serverVars, launcher, watchdog, restarts, exhausted, stopping, stopper, late>>

PlannerEnds(p) ==
    /\ CallEnds(p)
    /\ planner' = [planner EXCEPT ![p] = "done"]
    /\ UNCHANGED <<serverVars, launcher, watchdog, restarts, exhausted, stopping, stopper, late>>

(* stop(): the event, the process, and at most two seconds for the thread. *)
stopFrame == <<serverVars, launcher, watchdog, restarts, exhausted, planner, late>>

StopperSets ==
    /\ stopper = "idle"
    /\ stopping' = TRUE
    /\ stopper' = "locking"
    /\ UNCHANGED <<stopFrame, callVars>>

StopperStops ==
    /\ stopper = "locking"
    /\ Calls("stopper", "stop", "return")
    /\ stopper' = "stopping"
    /\ UNCHANGED <<stopFrame, stopping>>

StopperReturns ==
    /\ CallEnds("stopper")
    /\ stopper' = IF call = "returned" THEN "joining" ELSE "raised"
    /\ UNCHANGED <<stopFrame, stopping>>

StopperJoins ==
    /\ stopper = "joining"
    /\ stopper' = "stopped"
    /\ UNCHANGED <<stopFrame, callVars, stopping>>

StopperStep == StopperStops \/ StopperReturns \/ StopperJoins

-----------------------------------------------------------------------------
(* The environment: a fault of the server, or the end of a killed one.     *)
BackendDies ==
    /\ \E k \in living : living' = living \ {k} /\ killed' = killed \ {k}
    /\ UNCHANGED <<backend, spawned, readyFlag, victim, callVars, superVars>>
KilledDies ==
    /\ living' = living \ killed
    /\ killed # {} /\ killed' = {}
    /\ UNCHANGED <<backend, spawned, readyFlag, victim, callVars, superVars>>

BackendNext ==
    \/ ProcessStep
    \/ LauncherStarts
    \/ LauncherEnds
    \/ WatchdogStep
    \/ \E p \in Planners : PlannerRestarts(p) \/ PlannerEnds(p)
    \/ StopperSets
    \/ StopperStep
    \/ BackendDies
    \/ KilledDies

(* The threads go on: whoever has the lock works through its call to the   *)
(* end, where a readiness poll ends by its timeout.  The watchdog gets the *)
(* lock if it is free again and again, and a process that was sent SIGKILL *)
(* dies.                                                                   *)
LockedStep ==
    \/ ProcessStep
    \/ LauncherEnds
    \/ \E p \in Planners : PlannerEnds(p)
    \/ StopperReturns
BackendFairness ==
    /\ WF_backendVars(LockedStep)
    /\ WF_backendVars(WatchdogTurns)
    /\ SF_backendVars(WatchdogRestarts)
    /\ WF_backendVars(KilledDies)

BackendSpec == BackendInit /\ [][BackendNext]_backendVars /\ BackendFairness

-----------------------------------------------------------------------------
(* No server process is lost: every living child is the one _process       *)
(* names, so that a later stop() reaches it, although a stop() may raise   *)
(* half way and a start() may give up on its child.                        *)
NoLostBackend == living \subseteq {backend}

(* The watchdog restarts the dead only: while it has the lock and replaces *)
(* the process, that process is not running, whatever an intentional       *)
(* restart did between the poll and the lock.                              *)
WatchdogSparesLiving ==
    lifecycle = "watchdog" /\ after = "start" /\ call \in {"stop", "terminate"} => ~Running

(* Nothing revives a backend that stop() has stopped: neither the watchdog *)
(* in its backoff nor a restart that waited for the lock.  Only a start()  *)
(* that was overtaken by stop() does, which never looks at _stop.          *)
StoppedStaysDown == stopper \in {"joining", "stopped"} /\ ~late => living = {}

(* A dead backend is replaced until one is ready, the restarts are used    *)
(* up, or the daemon stops.                                                *)
BackendRecovers ==
    watchdog = "polling" /\ ~Running ~> BackendReady \/ exhausted \/ stopping
=============================================================================
