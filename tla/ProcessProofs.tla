----------------------------- MODULE ProcessProofs -----------------------------
(***************************************************************************)
(* What holds of the processes the daemon runs, for any number of threads, *)
(* restarts and requests.                                                  *)
(***************************************************************************)
EXTENDS BackendSupervision, ProcessEngine, TLAPS

-----------------------------------------------------------------------------
(* The supervised backend.  Its inductive invariant adds to what the run   *)
(* checks who has the lock and what the process under it is.               *)

(* The lock is held exactly while a call is in progress, and by the thread *)
(* that is inside its call.                                                *)
Locked ==
    /\ call = "none" <=> lifecycle = Nobody
    /\ launcher = "starting" <=> lifecycle = "launcher"
    /\ watchdog = "restarting" <=> lifecycle = "watchdog"
    /\ stopper = "stopping" <=> lifecycle = "stopper"
    /\ \A p \in Planners : planner[p] = "restarting" <=> lifecycle = p

(* An attempt is made only while the watchdog has one left.                *)
Attempts ==
    watchdog \in {"backoff", "locking", "restarting", "counting"} => restarts < MaximumRestarts

(* stop() works on the current process, which is dead once it clears it.   *)
Named ==
    /\ call \in {"terminate", "clear"} => victim = backend
    /\ call = "clear" => victim \notin living

(* The stopping thread only stops: when its call returns nothing runs, and *)
(* unless start() comes after it nobody takes the lock to start again.     *)
Down ==
    /\ stopping <=> stopper # "idle"
    /\ lifecycle = "stopper" =>
          /\ after = "return"
          /\ call \in {"stop", "terminate", "clear", "returned", "raised"}
          /\ call = "returned" => living = {}
    /\ stopper \in {"joining", "stopped"} /\ ~late => living = {} /\ lifecycle = Nobody

BackendInv ==
    /\ BackendTypeOK
    /\ Locked
    /\ Attempts
    /\ NoLostBackend
    /\ Named
    /\ WatchdogSparesLiving
    /\ Down

(* stop() reads the process it will end.                                   *)
LEMMA StopReadsKeeps ==
    ASSUME BackendInv, StopReads
    PROVE  BackendInv'
<1> USE SupervisionAssumption
      DEF BackendInv, BackendTypeOK, Holders, StopReads, AfterStop, serverVars, callVars, superVars
<1>1. BackendTypeOK'  
    <2>1. readyFlag' \in BOOLEAN  OBVIOUS
    <2>2. call' \in {"start", "returned", "raised", "terminate"}  BY DEF AfterStop
    <2> QED  BY <2>1, <2>2
<1>2. Locked'  BY DEF Locked
<1>3. Attempts'  BY DEF Attempts, Locked
<1>4. NoLostBackend' /\ Named'  BY DEF NoLostBackend, Named, Locked
<1>5. WatchdogSparesLiving'  BY DEF WatchdogSparesLiving, Locked, Running
<1>6. Down'  BY DEF Down, Locked, Named, NoLostBackend
<1> QED  BY <1>1, <1>2, <1>3, <1>4, <1>5, <1>6 DEF BackendInv

(* The process is reaped.                                                  *)
LEMMA StopReapsKeeps ==
    ASSUME BackendInv, StopReaps
    PROVE  BackendInv'
<1> USE SupervisionAssumption
      DEF BackendInv, BackendTypeOK, Holders, StopReaps, serverVars, callVars, superVars
<1>1. BackendTypeOK'  BY DEF Locked, Named
<1>2. Locked'  BY DEF Locked
<1>3. Attempts'  BY DEF Attempts, Locked
<1>4. NoLostBackend' /\ Named'  BY DEF NoLostBackend, Named, Locked
<1>5. WatchdogSparesLiving'  BY DEF WatchdogSparesLiving, Locked, Running
<1>6. Down'  BY DEF Down, Locked, Named, NoLostBackend
<1> QED  BY <1>1, <1>2, <1>3, <1>4, <1>5, <1>6 DEF BackendInv

(* The killed process is not reaped in time and stop() raises.             *)
LEMMA StopTimesOutKeeps ==
    ASSUME BackendInv, StopTimesOut
    PROVE  BackendInv'
<1> USE SupervisionAssumption
      DEF BackendInv, BackendTypeOK, Holders, StopTimesOut, serverVars, callVars, superVars
<1>1. BackendTypeOK'  BY DEF Locked, Named
<1>2. Locked'  BY DEF Locked
<1>3. Attempts'  BY DEF Attempts, Locked
<1>4. NoLostBackend' /\ Named'  BY DEF NoLostBackend, Named, Locked
<1>5. WatchdogSparesLiving'  BY DEF WatchdogSparesLiving, Locked, Running
<1>6. Down'  BY DEF Down, Locked, Named, NoLostBackend
<1> QED  BY <1>1, <1>2, <1>3, <1>4, <1>5, <1>6 DEF BackendInv

(* stop() forgets the process it reaped.                                   *)
LEMMA StopClearsKeeps ==
    ASSUME BackendInv, StopClears
    PROVE  BackendInv'
<1> USE SupervisionAssumption
      DEF BackendInv, BackendTypeOK, Holders, StopClears, AfterStop, serverVars, callVars, superVars
<1>1. BackendTypeOK'  BY DEF Locked, Named
<1>2. Locked'  BY DEF Locked
<1>3. Attempts'  BY DEF Attempts, Locked
<1>4. NoLostBackend' /\ Named'  BY DEF NoLostBackend, Named, Locked
<1>5. WatchdogSparesLiving'  BY DEF WatchdogSparesLiving, Locked, Running
<1>6. Down'  BY DEF Down, Locked, Named, NoLostBackend
<1> QED  BY <1>1, <1>2, <1>3, <1>4, <1>5, <1>6 DEF BackendInv

(* start() raises before it has a child.                                   *)
LEMMA StartRefusedKeeps ==
    ASSUME BackendInv, StartRefused
    PROVE  BackendInv'
<1> USE SupervisionAssumption
      DEF BackendInv, BackendTypeOK, Holders, StartRefused, serverVars, callVars, superVars
<1>1. BackendTypeOK'  BY DEF Locked, Named
<1>2. Locked'  BY DEF Locked
<1>3. Attempts'  BY DEF Attempts, Locked
<1>4. NoLostBackend' /\ Named'  BY DEF NoLostBackend, Named, Locked
<1>5. WatchdogSparesLiving'  BY DEF WatchdogSparesLiving, Locked, Running
<1>6. Down'  BY DEF Down, Locked, Named, NoLostBackend
<1> QED  BY <1>1, <1>2, <1>3, <1>4, <1>5, <1>6 DEF BackendInv

(* start() has a child.                                                    *)
LEMMA StartSpawnsKeeps ==
    ASSUME BackendInv, StartSpawns
    PROVE  BackendInv'
<1> USE SupervisionAssumption
      DEF BackendInv, BackendTypeOK, Holders, StartSpawns, serverVars, callVars, superVars
<1>1. BackendTypeOK'  BY DEF Locked, Named
<1>2. Locked'  BY DEF Locked
<1>3. Attempts'  BY DEF Attempts, Locked
<1>4. NoLostBackend' /\ Named'  BY DEF NoLostBackend, Named, Locked
<1>5. WatchdogSparesLiving'  BY DEF WatchdogSparesLiving, Locked, Running
<1>6. Down'  BY DEF Down, Locked, Named, NoLostBackend
<1> QED  BY <1>1, <1>2, <1>3, <1>4, <1>5, <1>6 DEF BackendInv

(* The child died before it answered.                                      *)
LEMMA PollFindsExitKeeps ==
    ASSUME BackendInv, PollFindsExit
    PROVE  BackendInv'
<1> USE SupervisionAssumption
      DEF BackendInv, BackendTypeOK, Holders, PollFindsExit, Running, serverVars, callVars,
         superVars
<1>1. BackendTypeOK'  BY DEF Locked, Named
<1>2. Locked'  BY DEF Locked
<1>3. Attempts'  BY DEF Attempts, Locked
<1>4. NoLostBackend' /\ Named'  BY DEF NoLostBackend, Named, Locked
<1>5. WatchdogSparesLiving'  BY DEF WatchdogSparesLiving, Locked, Running
<1>6. Down'  BY DEF Down, Locked, Named, NoLostBackend
<1> QED  BY <1>1, <1>2, <1>3, <1>4, <1>5, <1>6 DEF BackendInv

(* The child answers its probe.                                            *)
LEMMA PollAnsweredKeeps ==
    ASSUME BackendInv, PollAnswered
    PROVE  BackendInv'
<1> USE SupervisionAssumption
      DEF BackendInv, BackendTypeOK, Holders, PollAnswered, Running, serverVars, callVars, superVars
<1>1. BackendTypeOK'  BY DEF Locked, Named
<1>2. Locked'  BY DEF Locked
<1>3. Attempts'  BY DEF Attempts, Locked
<1>4. NoLostBackend' /\ Named'  BY DEF NoLostBackend, Named, Locked
<1>5. WatchdogSparesLiving'  BY DEF WatchdogSparesLiving, Locked, Running
<1>6. Down'  BY DEF Down, Locked, Named, NoLostBackend
<1> QED  BY <1>1, <1>2, <1>3, <1>4, <1>5, <1>6 DEF BackendInv

(* start() returns.                                                        *)
LEMMA SetsReadyKeeps ==
    ASSUME BackendInv, SetsReady
    PROVE  BackendInv'
<1> USE SupervisionAssumption
      DEF BackendInv, BackendTypeOK, Holders, SetsReady, serverVars, callVars, superVars
<1>1. BackendTypeOK'  BY DEF Locked, Named
<1>2. Locked'  BY DEF Locked
<1>3. Attempts'  BY DEF Attempts, Locked
<1>4. NoLostBackend' /\ Named'  BY DEF NoLostBackend, Named, Locked
<1>5. WatchdogSparesLiving'  BY DEF WatchdogSparesLiving, Locked, Running
<1>6. Down'  BY DEF Down, Locked, Named, NoLostBackend
<1> QED  BY <1>1, <1>2, <1>3, <1>4, <1>5, <1>6 DEF BackendInv

(* start() gives its child up.                                             *)
LEMMA PollTimesOutKeeps ==
    ASSUME BackendInv, PollTimesOut
    PROVE  BackendInv'
<1> USE SupervisionAssumption
      DEF BackendInv, BackendTypeOK, Holders, PollTimesOut, serverVars, callVars, superVars
<1>1. BackendTypeOK'  BY DEF Locked, Named
<1>2. Locked'  BY DEF Locked
<1>3. Attempts'  BY DEF Attempts, Locked
<1>4. NoLostBackend' /\ Named'  BY DEF NoLostBackend, Named, Locked
<1>5. WatchdogSparesLiving'  BY DEF WatchdogSparesLiving, Locked, Running
<1>6. Down'  BY DEF Down, Locked, Named, NoLostBackend
<1> QED  BY <1>1, <1>2, <1>3, <1>4, <1>5, <1>6 DEF BackendInv

(* The launch thread takes the lock.                                       *)
LEMMA LauncherStartsKeeps ==
    ASSUME BackendInv, LauncherStarts
    PROVE  BackendInv'
<1> USE SupervisionAssumption
      DEF BackendInv, BackendTypeOK, Holders, LauncherStarts, Calls, serverVars, callVars, superVars
<1>1. BackendTypeOK'  BY DEF Locked, Named
<1>2. Locked'  BY DEF Locked
<1>3. Attempts'  BY DEF Attempts, Locked
<1>4. NoLostBackend' /\ Named'  BY DEF NoLostBackend, Named, Locked
<1>5. WatchdogSparesLiving'  BY DEF WatchdogSparesLiving, Locked, Running
<1>6. Down'  BY DEF Down, Locked, Named, NoLostBackend
<1> QED  BY <1>1, <1>2, <1>3, <1>4, <1>5, <1>6 DEF BackendInv

(* The launch thread returns the lock, with a watchdog or without.         *)
LEMMA LauncherEndsKeeps ==
    ASSUME BackendInv, LauncherEnds
    PROVE  BackendInv'
<1> USE SupervisionAssumption
      DEF BackendInv, BackendTypeOK, Holders, LauncherEnds, CallEnds, serverVars, callVars,
         superVars
<1>1. BackendTypeOK'  BY DEF Locked, Named
<1>2. Locked'  BY DEF Locked
<1>3. Attempts'  BY DEF Attempts, Locked
<1>4. NoLostBackend' /\ Named'  BY DEF NoLostBackend, Named, Locked
<1>5. WatchdogSparesLiving'  BY DEF WatchdogSparesLiving, Locked, Running
<1>6. Down'  BY DEF Down, Locked, Named, NoLostBackend
<1> QED  BY <1>1, <1>2, <1>3, <1>4, <1>5, <1>6 DEF BackendInv

(* The watchdog finds the process dead, or is told to stop.                *)
LEMMA WatchdogPollsKeeps ==
    ASSUME BackendInv, WatchdogPolls
    PROVE  BackendInv'
<1> USE SupervisionAssumption
      DEF BackendInv, BackendTypeOK, Holders, WatchdogPolls, watchFrame, Running,
         serverVars, callVars, superVars
<1>1. BackendTypeOK'  
    <2>1. exhausted' \in BOOLEAN  OBVIOUS
    <2>2. watchdog' \in {"ended", "backoff"}  OBVIOUS
    <2> QED  BY <2>1, <2>2
<1>2. Locked'  BY DEF Locked
<1>3. Attempts'  BY DEF Attempts, Locked
<1>4. NoLostBackend' /\ Named'  BY DEF NoLostBackend, Named, Locked
<1>5. WatchdogSparesLiving'  BY DEF WatchdogSparesLiving, Locked, Running
<1>6. Down'  BY DEF Down, Locked, Named, NoLostBackend
<1> QED  BY <1>1, <1>2, <1>3, <1>4, <1>5, <1>6 DEF BackendInv

(* The backoff is over.                                                    *)
LEMMA WatchdogWaitsKeeps ==
    ASSUME BackendInv, WatchdogWaits
    PROVE  BackendInv'
<1> USE SupervisionAssumption
      DEF BackendInv, BackendTypeOK, Holders, WatchdogWaits, watchFrame, serverVars,
         callVars, superVars
<1>1. BackendTypeOK'  BY DEF Locked, Named
<1>2. Locked'  BY DEF Locked
<1>3. Attempts'  BY DEF Attempts, Locked
<1>4. NoLostBackend' /\ Named'  BY DEF NoLostBackend, Named, Locked
<1>5. WatchdogSparesLiving'  BY DEF WatchdogSparesLiving, Locked, Running
<1>6. Down'  BY DEF Down, Locked, Named, NoLostBackend
<1> QED  BY <1>1, <1>2, <1>3, <1>4, <1>5, <1>6 DEF BackendInv

(* The watchdog has the lock and looks again.                              *)
LEMMA WatchdogRestartsKeeps ==
    ASSUME BackendInv, WatchdogRestarts
    PROVE  BackendInv'
<1> USE SupervisionAssumption
      DEF BackendInv, BackendTypeOK, Holders, WatchdogRestarts, watchFrame, Calls, Running,
         serverVars, callVars, superVars
<1>1. BackendTypeOK'  BY DEF Locked, Named
<1>2. Locked'  BY DEF Locked
<1>3. Attempts'  BY DEF Attempts, Locked
<1>4. NoLostBackend' /\ Named'  BY DEF NoLostBackend, Named, Locked
<1>5. WatchdogSparesLiving'  BY DEF WatchdogSparesLiving, Locked, Running
<1>6. Down'  BY DEF Down, Locked, Named, NoLostBackend
<1> QED  BY <1>1, <1>2, <1>3, <1>4, <1>5, <1>6 DEF BackendInv

(* The watchdog's attempt is over.                                         *)
LEMMA WatchdogReturnsKeeps ==
    ASSUME BackendInv, WatchdogReturns
    PROVE  BackendInv'
<1> USE SupervisionAssumption
      DEF BackendInv, BackendTypeOK, Holders, WatchdogReturns, watchFrame, CallEnds,
         serverVars, callVars, superVars
<1>1. BackendTypeOK'  BY DEF Locked, Named
<1>2. Locked'  BY DEF Locked
<1>3. Attempts'  BY DEF Attempts, Locked
<1>4. NoLostBackend' /\ Named'  BY DEF NoLostBackend, Named, Locked
<1>5. WatchdogSparesLiving'  BY DEF WatchdogSparesLiving, Locked, Running
<1>6. Down'  BY DEF Down, Locked, Named, NoLostBackend
<1> QED  BY <1>1, <1>2, <1>3, <1>4, <1>5, <1>6 DEF BackendInv

(* The attempt is counted.                                                 *)
LEMMA WatchdogCountsKeeps ==
    ASSUME BackendInv, WatchdogCounts
    PROVE  BackendInv'
<1> USE SupervisionAssumption
      DEF BackendInv, BackendTypeOK, Holders, WatchdogCounts, watchFrame, serverVars,
         callVars, superVars
<1>1. BackendTypeOK'  BY DEF Locked, Named, Attempts
<1>2. Locked'  BY DEF Locked
<1>3. Attempts'  BY DEF Attempts, Locked
<1>4. NoLostBackend' /\ Named'  BY DEF NoLostBackend, Named, Locked
<1>5. WatchdogSparesLiving'  BY DEF WatchdogSparesLiving, Locked, Running
<1>6. Down'  BY DEF Down, Locked, Named, NoLostBackend
<1> QED  BY <1>1, <1>2, <1>3, <1>4, <1>5, <1>6 DEF BackendInv

(* An intentional restart takes the lock.                                  *)
LEMMA PlannerRestartsKeeps ==
    ASSUME BackendInv, NEW p \in Planners, PlannerRestarts(p)
    PROVE  BackendInv'
<1> USE SupervisionAssumption
      DEF BackendInv, BackendTypeOK, Holders, PlannerRestarts, Calls, serverVars, callVars,
         superVars
<1>1. BackendTypeOK'  BY DEF Locked, Named
<1>2. Locked'  BY DEF Locked
<1>3. Attempts'  BY DEF Attempts, Locked
<1>4. NoLostBackend' /\ Named'  BY DEF NoLostBackend, Named, Locked
<1>5. WatchdogSparesLiving'  BY DEF WatchdogSparesLiving, Locked, Running
<1>6. Down'  BY DEF Down, Locked, Named, NoLostBackend
<1> QED  BY <1>1, <1>2, <1>3, <1>4, <1>5, <1>6 DEF BackendInv

(* An intentional restart returns the lock.                                *)
LEMMA PlannerEndsKeeps ==
    ASSUME BackendInv, NEW p \in Planners, PlannerEnds(p)
    PROVE  BackendInv'
<1> USE SupervisionAssumption
      DEF BackendInv, BackendTypeOK, Holders, PlannerEnds, CallEnds, serverVars, callVars, superVars
<1>1. BackendTypeOK'  BY DEF Locked, Named
<1>2. Locked'  BY DEF Locked
<1>3. Attempts'  BY DEF Attempts, Locked
<1>4. NoLostBackend' /\ Named'  BY DEF NoLostBackend, Named, Locked
<1>5. WatchdogSparesLiving'  BY DEF WatchdogSparesLiving, Locked, Running
<1>6. Down'  BY DEF Down, Locked, Named, NoLostBackend
<1> QED  BY <1>1, <1>2, <1>3, <1>4, <1>5, <1>6 DEF BackendInv

(* The supervisor is told to stop.                                         *)
LEMMA StopperSetsKeeps ==
    ASSUME BackendInv, StopperSets
    PROVE  BackendInv'
<1> USE SupervisionAssumption
      DEF BackendInv, BackendTypeOK, Holders, StopperSets, stopFrame, serverVars, callVars,
         superVars
<1>1. BackendTypeOK'  BY DEF Locked, Named
<1>2. Locked'  BY DEF Locked
<1>3. Attempts'  BY DEF Attempts, Locked
<1>4. NoLostBackend' /\ Named'  BY DEF NoLostBackend, Named, Locked
<1>5. WatchdogSparesLiving'  BY DEF WatchdogSparesLiving, Locked, Running
<1>6. Down'  BY DEF Down, Locked, Named, NoLostBackend
<1> QED  BY <1>1, <1>2, <1>3, <1>4, <1>5, <1>6 DEF BackendInv

(* The stopping thread takes the lock.                                     *)
LEMMA StopperStopsKeeps ==
    ASSUME BackendInv, StopperStops
    PROVE  BackendInv'
<1> USE SupervisionAssumption
      DEF BackendInv, BackendTypeOK, Holders, StopperStops, stopFrame, Calls, serverVars,
         callVars, superVars
<1>1. BackendTypeOK'  BY DEF Locked, Named
<1>2. Locked'  BY DEF Locked
<1>3. Attempts'  BY DEF Attempts, Locked
<1>4. NoLostBackend' /\ Named'  BY DEF NoLostBackend, Named, Locked
<1>5. WatchdogSparesLiving'  BY DEF WatchdogSparesLiving, Locked, Running
<1>6. Down'  BY DEF Down, Locked, Named, NoLostBackend
<1> QED  BY <1>1, <1>2, <1>3, <1>4, <1>5, <1>6 DEF BackendInv

(* The stopping thread returns the lock.                                   *)
LEMMA StopperReturnsKeeps ==
    ASSUME BackendInv, StopperReturns
    PROVE  BackendInv'
<1> USE SupervisionAssumption
      DEF BackendInv, BackendTypeOK, Holders, StopperReturns, stopFrame, CallEnds,
         serverVars, callVars, superVars
<1>1. BackendTypeOK'  BY DEF Locked, Named
<1>2. Locked'  BY DEF Locked
<1>3. Attempts'  BY DEF Attempts, Locked
<1>4. NoLostBackend' /\ Named'  BY DEF NoLostBackend, Named, Locked
<1>5. WatchdogSparesLiving'  BY DEF WatchdogSparesLiving, Locked, Running
<1>6. Down'  BY DEF Down, Locked, Named, NoLostBackend
<1> QED  BY <1>1, <1>2, <1>3, <1>4, <1>5, <1>6 DEF BackendInv

(* The stopping thread gives up waiting for the watchdog.                  *)
LEMMA StopperJoinsKeeps ==
    ASSUME BackendInv, StopperJoins
    PROVE  BackendInv'
<1> USE SupervisionAssumption
      DEF BackendInv, BackendTypeOK, Holders, StopperJoins, stopFrame, serverVars, callVars,
         superVars
<1>1. BackendTypeOK'  BY DEF Locked, Named
<1>2. Locked'  BY DEF Locked
<1>3. Attempts'  BY DEF Attempts, Locked
<1>4. NoLostBackend' /\ Named'  BY DEF NoLostBackend, Named, Locked
<1>5. WatchdogSparesLiving'  BY DEF WatchdogSparesLiving, Locked, Running
<1>6. Down'  BY DEF Down, Locked, Named, NoLostBackend
<1> QED  BY <1>1, <1>2, <1>3, <1>4, <1>5, <1>6 DEF BackendInv

(* A child dies.                                                           *)
LEMMA BackendDiesKeeps ==
    ASSUME BackendInv, BackendDies
    PROVE  BackendInv'
<1> USE SupervisionAssumption
      DEF BackendInv, BackendTypeOK, Holders, BackendDies, serverVars, callVars, superVars
<1>1. BackendTypeOK'  BY DEF Locked, Named
<1>2. Locked'  BY DEF Locked
<1>3. Attempts'  BY DEF Attempts, Locked
<1>4. NoLostBackend' /\ Named'  BY DEF NoLostBackend, Named, Locked
<1>5. WatchdogSparesLiving'  BY DEF WatchdogSparesLiving, Locked, Running
<1>6. Down'  BY DEF Down, Locked, Named, NoLostBackend
<1> QED  BY <1>1, <1>2, <1>3, <1>4, <1>5, <1>6 DEF BackendInv

(* A killed child dies.                                                    *)
LEMMA KilledDiesKeeps ==
    ASSUME BackendInv, KilledDies
    PROVE  BackendInv'
<1> USE SupervisionAssumption
      DEF BackendInv, BackendTypeOK, Holders, KilledDies, serverVars, callVars, superVars
<1>1. BackendTypeOK'  BY DEF Locked, Named
<1>2. Locked'  BY DEF Locked
<1>3. Attempts'  BY DEF Attempts, Locked
<1>4. NoLostBackend' /\ Named'  BY DEF NoLostBackend, Named, Locked
<1>5. WatchdogSparesLiving'  BY DEF WatchdogSparesLiving, Locked, Running
<1>6. Down'  BY DEF Down, Locked, Named, NoLostBackend
<1> QED  BY <1>1, <1>2, <1>3, <1>4, <1>5, <1>6 DEF BackendInv

(* A step that changes nothing here.                                       *)
LEMMA BackendStutters ==
    ASSUME BackendInv, UNCHANGED backendVars
    PROVE  BackendInv'
BY DEF BackendInv, BackendTypeOK, Holders, Locked, Attempts, NoLostBackend, Named,
   WatchdogSparesLiving, Down, Running, backendVars, serverVars, callVars, superVars

(* Every step of the supervised backend keeps the invariant.               *)
LEMMA BackendNextKeeps ==
    ASSUME BackendInv, [BackendNext]_backendVars
    PROVE  BackendInv'
<1>1. CASE ProcessStep
    BY <1>1, StopReadsKeeps, StopReapsKeeps, StopTimesOutKeeps, StopClearsKeeps,
       StartRefusedKeeps, StartSpawnsKeeps, PollFindsExitKeeps, PollAnsweredKeeps,
       SetsReadyKeeps, PollTimesOutKeeps DEF ProcessStep
<1>2. CASE LauncherStarts \/ LauncherEnds
    BY <1>2, LauncherStartsKeeps, LauncherEndsKeeps
<1>3. CASE WatchdogStep
    BY <1>3, WatchdogPollsKeeps, WatchdogWaitsKeeps, WatchdogRestartsKeeps,
       WatchdogReturnsKeeps, WatchdogCountsKeeps DEF WatchdogStep, WatchdogTurns
<1>4. CASE \E p \in Planners : PlannerRestarts(p) \/ PlannerEnds(p)
    BY <1>4, PlannerRestartsKeeps, PlannerEndsKeeps
<1>5. CASE StopperSets \/ StopperStep
    BY <1>5, StopperSetsKeeps, StopperStopsKeeps, StopperReturnsKeeps, StopperJoinsKeeps
       DEF StopperStep
<1>6. CASE BackendDies \/ KilledDies
    BY <1>6, BackendDiesKeeps, KilledDiesKeeps
<1> QED  BY <1>1, <1>2, <1>3, <1>4, <1>5, <1>6, BackendStutters DEF BackendNext

(* The supervisor keeps its invariant for every set of planning threads    *)
(* and every restart limit.                                                *)
THEOREM BackendSafety == BackendSpec => []BackendInv
<1>1. BackendInit => BackendInv
    <2> USE SupervisionAssumption DEF BackendInit
    <2>1. BackendInit => BackendTypeOK
        <3>1. BackendInit => /\ readyFlag \in BOOLEAN /\ exhausted \in BOOLEAN
                             /\ stopping \in BOOLEAN /\ late \in BOOLEAN
            BY Zenon
        <3>2. BackendInit => planner \in [Planners -> {"idle", "restarting", "done"}]
            OBVIOUS
        <3>3. BackendInit => /\ backend \in 0 .. spawned /\ victim \in 0 .. spawned
                             /\ spawned \in Nat /\ restarts \in 0 .. MaximumRestarts
            OBVIOUS
        <3> QED  BY <3>1, <3>2, <3>3 DEF BackendTypeOK, Holders
    <2>2. BackendInit => Locked  BY DEF Locked
    <2>3. BackendInit => Attempts /\ Named  BY DEF Attempts, Named
    <2>4. BackendInit => NoLostBackend /\ WatchdogSparesLiving /\ Down
        BY DEF NoLostBackend, WatchdogSparesLiving, Down
    <2> QED  BY <2>1, <2>2, <2>3, <2>4 DEF BackendInv
<1> QED  BY <1>1, BackendNextKeeps, PTL DEF BackendSpec

(* A living child is always the one _process names: no stop() that raises, *)
(* no start() that gives up and no restart loses a running server.         *)
THEOREM BackendNeverLost == BackendSpec => []NoLostBackend
<1>1. BackendInv => NoLostBackend  BY DEF BackendInv
<1> QED  BY <1>1, BackendSafety, PTL

(* The watchdog replaces the dead only, whoever restarted the process      *)
(* between its poll and its turn on the lock.                              *)
THEOREM WatchdogAlwaysSparesLiving == BackendSpec => []WatchdogSparesLiving
<1>1. BackendInv => WatchdogSparesLiving  BY DEF BackendInv
<1> QED  BY <1>1, BackendSafety, PTL

(* After stop() nothing runs and nothing is revived, except by a start()   *)
(* that comes after it.                                                    *)
THEOREM BackendStaysDown == BackendSpec => []StoppedStaysDown
<1>1. BackendInv => StoppedStaysDown  BY DEF BackendInv, Down, StoppedStaysDown
<1> QED  BY <1>1, BackendSafety, PTL

-----------------------------------------------------------------------------
(* The child-process engine.  Its inductive invariant follows a command    *)
(* from the handler that registers it through both pipes and the child and *)
(* back: at every point it has one place, its entry waits in the table     *)
(* while the child has it, and its lease is held.                          *)

(* Ids with a command on its way to the child, with its main thread and    *)
(* unanswered, or with an answer on its way back.                          *)
Asking == {"request", "expired_request", "diagnostics"}
SentIds == {x \in Ids : \E i \in 1 .. Len(toChild) :
                            toChild[i].kind \in Asking /\ toChild[i].id = x}
ServedIds == {x \in Ids : serving = x /\ main \in {"took", "executing"}}
AnsweredIds == {x \in Ids : \E i \in 1 .. Len(toParent) :
                                toParent[i].kind \in Answers /\ toParent[i].id = x}
InChild == SentIds \cup cqueue \cup ServedIds

(* Ids whose caller has not written a command, and never will if rejected. *)
UnwrittenIds ==
    {r \in Requests : client[r] \in {"idle", "admitted", "entered", "registered", "rejecting"}}
       \cup {d \in Diags : diag[d] \in {"idle", "entered", "registered"}}

EngineTyped ==
    /\ RequestTypeOK
    /\ client \in [Requests -> ProcessClients]
    /\ diag \in [Diags -> {"idle", "entered", "registered", "waiting", "cancelling", "left"}]
    /\ pending \subseteq Ids /\ closerFails \subseteq Ids /\ readerFails \subseteq Ids
    /\ answering \in NoneOr(Ids)
    /\ closer \in {"open", "shutdown", "waiting", "reaped", "failing", "closed"}
    /\ reader \in {"reading", "answering", "reaping", "reaped", "failing", "done"}
    /\ alive \in BOOLEAN
    /\ cqueue \subseteq Ids
    /\ main \in {"starting", "getting", "took", "executing", "cleaning", "exiting", "dead"}
    /\ serving \in NoneOr(Ids)
    /\ executed \subseteq Requests

(* The two pipes; a command is written once.                               *)
ChildPipe ==
    /\ toChild \in Seq([kind : Commands, id : NoneOr(Ids)])
    /\ \A i \in 1 .. Len(toChild) :
          toChild[i].kind \in Asking =>
             /\ toChild[i].id \in Ids
             /\ \A j \in 1 .. Len(toChild) :
                   toChild[j].kind \in Asking /\ toChild[j].id = toChild[i].id => i = j
ParentPipe == toParent \in Seq([kind : Responses, id : NoneOr(Ids)])

(* A command has one place in the child, and none once it is answered.     *)
OneChildPlace ==
    /\ SentIds \cap (cqueue \cup ServedIds \cup AnsweredIds) = {}
    /\ cqueue \cap (ServedIds \cup AnsweredIds) = {}
    /\ ServedIds \cap AnsweredIds = {}
    /\ UnwrittenIds \cap (InChild \cup AnsweredIds) = {}

(* A dead child holds nothing, and whoever fails the table has seen it die.*)
Deceased ==
    /\ alive <=> main # "dead"
    /\ ~alive => SentIds = {} /\ cqueue = {}
    /\ stdinClosed => ~alive
    /\ closer \in {"reaped", "failing", "closed"} => ~alive
    /\ reader \in {"reaped", "failing", "done"} => ~alive

(* What the living child has is in the table, from the registration on.    *)
InTable ==
    alive =>
        /\ InChild \subseteq pending
        /\ \A r \in Requests : client[r] = "registered" => r \in pending
        /\ \A d \in Diags : diag[d] = "registered" => d \in pending

(* One place per entry in the parent, where it has not been finished.      *)
OneEntry ==
    /\ reader = "answering" <=> answering \in Ids
    /\ reader = "answering" => toParent # <<>>
    /\ answering \notin pending \cup readerFails \cup closerFails
    /\ pending \cap (readerFails \cup closerFails) = {}
    /\ readerFails \cap closerFails = {}
Entries == pending \cup readerFails \cup closerFails
Unfinished ==
    \A r \in Requests :
        /\ finished[r] \in {0, 1}
        /\ r \in Entries \/ r = answering => finished[r] = 0
        /\ client[r] \in {"idle", "admitted", "entered", "rejecting"} =>
              finished[r] = 0 /\ r \notin Entries /\ r # answering
        /\ client[r] = "withdrawing" => finished[r] = 1
        /\ r \in watching => finished[r] = 0
DiagsEnter ==
    \A d \in Diags : diag[d] \in {"idle", "entered"} => d \notin Entries /\ d # answering

(* A lease is held while the handler is there and while it is watched.     *)
HandlerHolds ==
    \A r \in Requests :
        /\ client[r] = "idle" => lease[r] = "none"
        /\ client[r] \notin {"idle", "left"} => lease[r] = "held" /\ r \notin watching
        /\ r \in watching => lease[r] = "held" /\ client[r] = "left"
        /\ r \in InChild => client[r] \in {"waiting", "cancelling"} \/ r \in watching

(* A request executes once: it has not begun before its call.              *)
ExecutedOnce ==
    /\ main = "took" => serving \in Ids
    /\ main = "executing" => serving \in executed
    /\ \A r \in Requests :
          r \in UnwrittenIds \cup SentIds \cup cqueue \/ (main = "took" /\ serving = r)
             => r \notin executed

ProcessInv ==
    /\ EngineTyped /\ ChildPipe /\ ParentPipe /\ OneChildPlace /\ Deceased /\ InTable
    /\ OneEntry /\ Unfinished /\ DiagsEnter /\ HandlerHolds /\ ExecutedOnce

(* A step that leaves a pipe, a caller or the main thread alone leaves     *)
(* these sets alone.                                                       *)
LEMMA Frames ==
    /\ toChild' = toChild => SentIds' = SentIds /\ (ChildPipe => ChildPipe')
    /\ toParent' = toParent => AnsweredIds' = AnsweredIds /\ (ParentPipe => ParentPipe')
    /\ main' = main /\ serving' = serving => ServedIds' = ServedIds
    /\ client' = client /\ diag' = diag => UnwrittenIds' = UnwrittenIds
BY DEF SentIds, ChildPipe, ParentPipe, AnsweredIds, ServedIds, UnwrittenIds

(* What is written to, and read from, the child's standard input.          *)
LEMMA SentAppend ==
    ASSUME ChildPipe, NEW k \in Commands, NEW x \in NoneOr(Ids), Send(k, x),
           k \in Asking => x \in Ids /\ x \notin SentIds
    PROVE  /\ SentIds' = IF k \in Asking THEN SentIds \cup {x} ELSE SentIds
           /\ ChildPipe'
<1> DEFINE m == Message(k, x)
<1>1. m \in [kind : Commands, id : NoneOr(Ids)] /\ m.kind = k /\ m.id = x
    BY DEF Message
<1>2. /\ toChild' = Append(toChild, m)
      /\ toChild \in Seq([kind : Commands, id : NoneOr(Ids)])
    BY DEF Send, ChildPipe
<1> HIDE DEF m
<1>3. /\ toChild' \in Seq([kind : Commands, id : NoneOr(Ids)])
      /\ Len(toChild') = Len(toChild) + 1 /\ Len(toChild) \in Nat
      /\ \A i \in 1 .. Len(toChild) : toChild'[i] = toChild[i]
      /\ toChild'[Len(toChild) + 1] = m
    BY <1>1, <1>2
<1>4. \A i \in 1 .. Len(toChild') : i \in 1 .. Len(toChild) \/ i = Len(toChild) + 1
    BY <1>3
<1>5. 1 .. Len(toChild) \subseteq 1 .. Len(toChild') /\ Len(toChild) + 1 \in 1 .. Len(toChild')
      /\ Len(toChild) + 1 \notin 1 .. Len(toChild)
    BY <1>3
<1>6. CASE k \in Asking
    <2>1. SentIds' = SentIds \cup {x}
        BY <1>1, <1>3, <1>4, <1>5, <1>6 DEF SentIds
    <2>2. \A i \in 1 .. Len(toChild) : toChild[i].kind \in Asking => toChild[i].id # x
        BY <1>6 DEF SentIds
    <2>3. ChildPipe'
        BY <1>1, <1>3, <1>4, <1>5, <1>6, <2>2 DEF ChildPipe
    <2> QED  BY <1>3, <1>6, <2>1, <2>3
<1>7. CASE k \notin Asking
    <2>1. SentIds' = SentIds
        BY <1>1, <1>3, <1>4, <1>5, <1>7 DEF SentIds
    <2>2. ChildPipe'
        BY <1>1, <1>3, <1>4, <1>5, <1>7 DEF ChildPipe
    <2> QED  BY <1>3, <1>7, <2>1, <2>2
<1> QED  BY <1>6, <1>7

LEMMA SentTail ==
    ASSUME ChildPipe, toChild # <<>>, toChild' = Tail(toChild)
    PROVE  /\ Head(toChild).kind \in Asking =>
                 /\ Head(toChild).id \in SentIds
                 /\ SentIds' = SentIds \ {Head(toChild).id}
           /\ Head(toChild).kind \notin Asking => SentIds' = SentIds
           /\ ChildPipe'
           /\ Head(toChild).id \in NoneOr(Ids)
<1> DEFINE h == Head(toChild)
<1>1. toChild \in Seq([kind : Commands, id : NoneOr(Ids)])
    BY DEF ChildPipe
<1>2. /\ toChild' \in Seq([kind : Commands, id : NoneOr(Ids)])
      /\ Len(toChild) \in Nat /\ Len(toChild) # 0 /\ Len(toChild') = Len(toChild) - 1
      /\ \A i \in 1 .. Len(toChild') : toChild'[i] = toChild[i + 1]
      /\ h = toChild[1] /\ h.id \in NoneOr(Ids)
    <2> DEFINE M == [kind : Commands, id : NoneOr(Ids)]
    <2>1. toChild \in Seq(M)
        BY <1>1
    <2>2. \A m \in M : m.id \in NoneOr(Ids)
        OBVIOUS
    <2> HIDE DEF M
    <2>3. /\ Len(toChild) \in Nat /\ Len(toChild) # 0 /\ h = toChild[1] /\ h \in M
        BY <2>1
    <2>4. toChild' \in Seq(M) /\ Len(toChild') = Len(toChild) - 1
        BY <2>1
    <2>5. \A i \in 1 .. Len(toChild') : toChild'[i] = toChild[i + 1]
        BY <2>1
    <2> QED  BY <2>2, <2>3, <2>4, <2>5 DEF M
<1> HIDE DEF h
<1>3. /\ \A i \in 1 .. Len(toChild') : i + 1 \in 1 .. Len(toChild) /\ i + 1 # 1
      /\ \A i \in 1 .. Len(toChild) : i = 1 \/ (i - 1 \in 1 .. Len(toChild') /\ (i - 1) + 1 = i)
      /\ 1 \in 1 .. Len(toChild)
    BY <1>2
<1>4. ChildPipe'
    <2> SUFFICES ASSUME NEW i \in 1 .. Len(toChild'), toChild'[i].kind \in Asking
                 PROVE  /\ toChild'[i].id \in Ids
                        /\ \A j \in 1 .. Len(toChild') :
                              toChild'[j].kind \in Asking /\ toChild'[j].id = toChild'[i].id => i = j
        BY <1>2 DEF ChildPipe
    <2>1. toChild[i + 1].id \in Ids /\ toChild[i + 1].kind \in Asking
        BY <1>2, <1>3 DEF ChildPipe
    <2>2. ASSUME NEW j \in 1 .. Len(toChild'), toChild'[j].kind \in Asking,
                 toChild'[j].id = toChild'[i].id
          PROVE  i = j
        <3>1. i + 1 = j + 1
            BY <1>2, <1>3, <2>1, <2>2 DEF ChildPipe
        <3> QED  BY <3>1
    <2> QED  BY <1>2, <2>1, <2>2
<1>5. \A x \in SentIds' : x \in SentIds
    BY <1>2, <1>3 DEF SentIds
<1>6. \A x \in SentIds : x \in SentIds' \/ (h.kind \in Asking /\ x = h.id)
    BY <1>2, <1>3 DEF SentIds
<1>7. ASSUME h.kind \in Asking PROVE h.id \in SentIds /\ h.id \notin SentIds'
    <2>1. h.id \in SentIds
        BY <1>2, <1>3, <1>7 DEF SentIds, ChildPipe
    <2>2. ASSUME NEW i \in 1 .. Len(toChild'), toChild'[i].kind \in Asking, toChild'[i].id = h.id
          PROVE  FALSE
        BY <1>2, <1>3, <1>7, <2>2 DEF ChildPipe
    <2> QED  BY <2>1, <2>2 DEF SentIds
<1> QED  BY <1>2, <1>4, <1>5, <1>6, <1>7 DEF h

(* What is written to, and read from, the child's standard output.         *)
LEMMA AnsweredAppend ==
    ASSUME ParentPipe, NEW k \in Responses, NEW x \in NoneOr(Ids), Reply(k, x)
    PROVE  /\ AnsweredIds' = IF k \in Answers /\ x \in Ids THEN AnsweredIds \cup {x}
                             ELSE AnsweredIds
           /\ ParentPipe'
           /\ toParent' # <<>>
<1> DEFINE m == Message(k, x)
<1>1. m \in [kind : Responses, id : NoneOr(Ids)] /\ m.kind = k /\ m.id = x
    BY DEF Message
<1>2. /\ toParent' = Append(toParent, m)
      /\ toParent \in Seq([kind : Responses, id : NoneOr(Ids)])
    BY DEF Reply, ParentPipe
<1> HIDE DEF m
<1>3. /\ toParent' \in Seq([kind : Responses, id : NoneOr(Ids)])
      /\ Len(toParent') = Len(toParent) + 1 /\ Len(toParent) \in Nat
      /\ \A i \in 1 .. Len(toParent) : toParent'[i] = toParent[i]
      /\ toParent'[Len(toParent) + 1] = m
    BY <1>1, <1>2
<1>4. \A i \in 1 .. Len(toParent') : i \in 1 .. Len(toParent) \/ i = Len(toParent) + 1
    BY <1>3
<1>5. 1 .. Len(toParent) \subseteq 1 .. Len(toParent') /\ Len(toParent) + 1 \in 1 .. Len(toParent')
    BY <1>3
<1>6. AnsweredIds' = IF k \in Answers /\ x \in Ids THEN AnsweredIds \cup {x} ELSE AnsweredIds
    BY <1>1, <1>3, <1>4, <1>5 DEF AnsweredIds
<1>7. toParent' # <<>>
    BY <1>3
<1> QED  BY <1>3, <1>6, <1>7 DEF ParentPipe

LEMMA AnsweredTail ==
    ASSUME ParentPipe, toParent # <<>>
    PROVE  /\ Head(toParent).kind \in Answers /\ Head(toParent).id \in Ids =>
                 Head(toParent).id \in AnsweredIds
           /\ toParent' = Tail(toParent) =>
                 AnsweredIds' \subseteq AnsweredIds /\ ParentPipe'
<1>1. toParent \in Seq([kind : Responses, id : NoneOr(Ids)])
    BY DEF ParentPipe
<1>2. Len(toParent) \in Nat /\ Len(toParent) # 0 /\ Head(toParent) = toParent[1]
    BY <1>1
<1>3. Head(toParent).kind \in Answers /\ Head(toParent).id \in Ids => Head(toParent).id \in AnsweredIds
    BY <1>2 DEF AnsweredIds
<1>4. ASSUME toParent' = Tail(toParent)
      PROVE  /\ AnsweredIds' \subseteq AnsweredIds
             /\ toParent' \in Seq([kind : Responses, id : NoneOr(Ids)])
    <2>1. /\ toParent' \in Seq([kind : Responses, id : NoneOr(Ids)])
          /\ Len(toParent') = Len(toParent) - 1
          /\ \A i \in 1 .. Len(toParent') : toParent'[i] = toParent[i + 1]
        BY <1>1, <1>4
    <2>2. \A i \in 1 .. Len(toParent') : i + 1 \in 1 .. Len(toParent)
        BY <1>2, <2>1
    <2> QED  BY <2>1, <2>2 DEF AnsweredIds
<1> QED  BY <1>3, <1>4 DEF ParentPipe

-----------------------------------------------------------------------------
(* A dead child has no command, and a finished one is not in the child.    *)
LEMMA DeadHoldsNothing ==
    ASSUME ProcessInv, ~alive
    PROVE  InChild = {}
BY DEF ProcessInv, Deceased, InChild, ServedIds

LEMMA FinishedOutside ==
    ASSUME ProcessInv, NEW r \in Requests, finished[r] # 0 \/ r \notin Entries
    PROVE  r \notin InChild
<1>1. CASE alive
    BY <1>1 DEF ProcessInv, InTable, Unfinished, Entries
<1>2. CASE ~alive
    BY <1>2, DeadHoldsNothing
<1> QED  BY <1>1, <1>2 DEF ProcessInv, EngineTyped

(* What is left of the sets when the child dies.                           *)
LEMMA DeadEffects ==
    ASSUME ProcessInv, Dead
    PROVE  /\ SentIds' = {} /\ ChildPipe'
           /\ AnsweredIds' = AnsweredIds /\ ParentPipe'
           /\ ServedIds' = {}
<1>1. AnsweredIds' = AnsweredIds /\ ParentPipe'
    BY Frames DEF Dead, ProcessInv
<1>2. ServedIds' = {}
    BY DEF Dead, ServedIds
<1>3. SentIds' = {}
    BY DEF Dead, SentIds
<1>4. ChildPipe'
    BY DEF Dead, ChildPipe
<1> QED  BY <1>1, <1>2, <1>3, <1>4

-----------------------------------------------------------------------------
(* The handlers.                                                           *)
LEMMA ProcessAdmitKeeps ==
    ASSUME ProcessInv, NEW r \in Requests, ProcessAdmit(r)
    PROVE  ProcessInv'
<1> USE RequestAssumption, ProcessAssumption DEF ProcessInv, EngineTyped, RequestTypeOK,
   ProcessAdmit, Admit, processVars, parentVars, childVars
<1>1. /\ SentIds' = SentIds /\ ChildPipe'
      /\ AnsweredIds' = AnsweredIds /\ ParentPipe'
      /\ ServedIds' = ServedIds
    BY Frames
<1>2. UnwrittenIds' = UnwrittenIds
    BY DEF UnwrittenIds
<1>3. r \notin InChild
    BY DEF UnwrittenIds, OneChildPlace
<1>4. EngineTyped'
    BY <1>1, <1>2, <1>3 DEF NoneOr, ProcessClients, Leases, Contexts
<1>5. OneChildPlace'
    BY <1>1, <1>2, <1>3 DEF OneChildPlace, InChild
<1>6. InTable'
    BY <1>1, <1>2, <1>3 DEF InTable, InChild, OneChildPlace
<1>7. Unfinished'
    BY <1>1, <1>2, <1>3 DEF Unfinished, Entries
<1>8. HandlerHolds'
    BY <1>1, <1>2, <1>3 DEF HandlerHolds, InChild
<1>9. ExecutedOnce'
    BY <1>1, <1>2, <1>3 DEF ExecutedOnce
<1>10. Deceased' /\ OneEntry' /\ DiagsEnter'
    BY <1>1, <1>2, <1>3 DEF Deceased, OneEntry, DiagsEnter, Entries
<1> QED  BY <1>1, <1>2, <1>3, <1>4, <1>5, <1>6, <1>7, <1>8, <1>9, <1>10 DEF ProcessInv

(* A client disconnects or its deadline passes.                            *)
LEMMA ProcessInterruptKeeps ==
    ASSUME ProcessInv, NEW r \in Requests, ProcessInterrupt(r)
    PROVE  ProcessInv'
<1> USE RequestAssumption, ProcessAssumption DEF ProcessInv, EngineTyped, RequestTypeOK,
   ProcessInterrupt, Interrupt, processVars, parentVars, childVars
<1>1. /\ SentIds' = SentIds /\ ChildPipe'
      /\ AnsweredIds' = AnsweredIds /\ ParentPipe'
      /\ ServedIds' = ServedIds
      /\ UnwrittenIds' = UnwrittenIds
    BY Frames
<1>2. EngineTyped'
    BY <1>1 DEF NoneOr, ProcessClients, Leases, Contexts
<1>3. OneChildPlace' /\ Deceased' /\ InTable' /\ OneEntry' /\ Unfinished' /\ DiagsEnter' /\
   HandlerHolds' /\ ExecutedOnce'
    BY <1>1 DEF OneChildPlace, Deceased, InTable, OneEntry, Unfinished, DiagsEnter,
       HandlerHolds, ExecutedOnce, InChild, Entries
<1> QED  BY <1>1, <1>2, <1>3 DEF ProcessInv

(* A cancelled request, or an engine that is not ready.                    *)
LEMMA RefuseRequestKeeps ==
    ASSUME ProcessInv, NEW r \in Requests, RefuseRequest(r)
    PROVE  ProcessInv'
<1> USE RequestAssumption, ProcessAssumption DEF ProcessInv, EngineTyped, RequestTypeOK,
   RefuseRequest, Cancelled, Ready, Leave, processVars, parentVars, childVars
<1>1. /\ SentIds' = SentIds /\ ChildPipe'
      /\ AnsweredIds' = AnsweredIds /\ ParentPipe'
      /\ ServedIds' = ServedIds
    BY Frames
<1>2. UnwrittenIds' \subseteq UnwrittenIds
    BY DEF UnwrittenIds
<1>3. r \notin InChild
    BY DEF UnwrittenIds, OneChildPlace
<1>4. EngineTyped'
    BY <1>1, <1>2, <1>3 DEF NoneOr, ProcessClients, Leases, Contexts
<1>5. OneChildPlace'
    BY <1>1, <1>2, <1>3 DEF OneChildPlace, InChild
<1>6. InTable'
    BY <1>1, <1>2, <1>3 DEF InTable, InChild, OneChildPlace
<1>7. Unfinished'
    BY <1>1, <1>2, <1>3 DEF Unfinished, Entries
<1>8. HandlerHolds'
    BY <1>1, <1>2, <1>3 DEF HandlerHolds, InChild
<1>9. ExecutedOnce'
    BY <1>1, <1>2, <1>3 DEF ExecutedOnce
<1>10. Deceased' /\ OneEntry' /\ DiagsEnter'
    BY <1>1, <1>2, <1>3 DEF Deceased, OneEntry, DiagsEnter, Entries
<1> QED  BY <1>1, <1>2, <1>3, <1>4, <1>5, <1>6, <1>7, <1>8, <1>9, <1>10 DEF ProcessInv

(* A request goes on to the table.                                         *)
LEMMA EnterRequestKeeps ==
    ASSUME ProcessInv, NEW r \in Requests, EnterRequest(r)
    PROVE  ProcessInv'
<1> USE RequestAssumption, ProcessAssumption DEF ProcessInv, EngineTyped, RequestTypeOK,
   EnterRequest, Cancelled, Ready, Step, processVars, parentVars, childVars
<1>1. /\ SentIds' = SentIds /\ ChildPipe'
      /\ AnsweredIds' = AnsweredIds /\ ParentPipe'
      /\ ServedIds' = ServedIds
    BY Frames
<1>2. UnwrittenIds' \subseteq UnwrittenIds
    BY DEF UnwrittenIds
<1>3. r \notin InChild
    BY DEF UnwrittenIds, OneChildPlace
<1>4. EngineTyped'
    BY <1>1, <1>2, <1>3 DEF NoneOr, ProcessClients, Leases, Contexts
<1>5. OneChildPlace'
    BY <1>1, <1>2, <1>3 DEF OneChildPlace, InChild
<1>6. InTable'
    BY <1>1, <1>2, <1>3 DEF InTable, InChild, OneChildPlace
<1>7. Unfinished'
    BY <1>1, <1>2, <1>3 DEF Unfinished, Entries
<1>8. HandlerHolds'
    BY <1>1, <1>2, <1>3 DEF HandlerHolds, InChild
<1>9. ExecutedOnce'
    BY <1>1, <1>2, <1>3 DEF ExecutedOnce
<1>10. Deceased' /\ OneEntry' /\ DiagsEnter'
    BY <1>1, <1>2, <1>3 DEF Deceased, OneEntry, DiagsEnter, Entries
<1> QED  BY <1>1, <1>2, <1>3, <1>4, <1>5, <1>6, <1>7, <1>8, <1>9, <1>10 DEF ProcessInv

(* The table takes the request, or is full.                                *)
LEMMA RegisterKeeps ==
    ASSUME ProcessInv, NEW r \in Requests, Register(r)
    PROVE  ProcessInv'
<1> USE RequestAssumption, ProcessAssumption DEF ProcessInv, EngineTyped, RequestTypeOK,
   Register, Leave, Step, childVars
<1>1. /\ SentIds' = SentIds /\ ChildPipe'
      /\ AnsweredIds' = AnsweredIds /\ ParentPipe'
      /\ ServedIds' = ServedIds
    BY Frames
<1>2. UnwrittenIds' \subseteq UnwrittenIds
    BY DEF UnwrittenIds
<1>3. r \notin InChild
    BY DEF UnwrittenIds, OneChildPlace
<1>4. r \notin Diags /\ r \in Ids /\ r # None
    BY DEF Ids
<1>5. EngineTyped'
    BY <1>1, <1>2, <1>3, <1>4 DEF NoneOr, ProcessClients, Leases, Contexts
<1>6. OneChildPlace'
    BY <1>1, <1>2, <1>3, <1>4 DEF OneChildPlace, InChild
<1>7. InTable'
    BY <1>1, <1>2, <1>3, <1>4 DEF InTable, InChild, OneChildPlace
<1>8. OneEntry'
    BY <1>1, <1>2, <1>3, <1>4 DEF OneEntry, Entries, Unfinished
<1>9. Unfinished'
    BY <1>1, <1>2, <1>3, <1>4 DEF Unfinished, Entries
<1>10. DiagsEnter'
    BY <1>1, <1>2, <1>3, <1>4 DEF DiagsEnter, Entries
<1>11. HandlerHolds'
    BY <1>1, <1>2, <1>3, <1>4 DEF HandlerHolds, InChild
<1>12. ExecutedOnce'
    BY <1>1, <1>2, <1>3, <1>4 DEF ExecutedOnce
<1>13. Deceased'
    BY <1>1, <1>2, <1>3, <1>4 DEF Deceased
<1> QED  BY <1>1, <1>2, <1>3, <1>4, <1>5, <1>6, <1>7, <1>8, <1>9, <1>10, <1>11, <1>12, <1>13
       DEF ProcessInv

(* The request is written to the child.                                    *)
LEMMA WriteRequestKeeps ==
    ASSUME ProcessInv, NEW r \in Requests, WriteRequest(r)
    PROVE  ProcessInv'
<1> USE RequestAssumption, ProcessAssumption DEF ProcessInv, EngineTyped, RequestTypeOK,
   WriteRequest, Writable, Step, parentVars, childVars
<1>1. /\ AnsweredIds' = AnsweredIds /\ ParentPipe'
      /\ ServedIds' = ServedIds
    BY Frames
<1>2. UnwrittenIds' \subseteq UnwrittenIds /\ r \in UnwrittenIds /\ r \notin UnwrittenIds' /\ r \notin Diags
    BY DEF UnwrittenIds
<1>3. SentIds' = SentIds \cup {r} /\ ChildPipe'
    <2>1. r \in UnwrittenIds /\ r \in Ids /\ r \in NoneOr(Ids)
        BY DEF UnwrittenIds, Ids, NoneOr
    <2>2. r \notin SentIds
        BY <2>1 DEF OneChildPlace, InChild
    <2>3. CASE Send("expired_request", r)
        BY <2>1, <2>2, <2>3, SentAppend DEF Commands, Asking
    <2>4. CASE Send("request", r)
        BY <2>1, <2>2, <2>4, SentAppend DEF Commands, Asking
    <2> QED  BY <2>3, <2>4
<1>4. EngineTyped'
    BY <1>1, <1>2, <1>3 DEF NoneOr, ProcessClients, Leases, Contexts
<1>5. OneChildPlace'
    BY <1>1, <1>2, <1>3 DEF OneChildPlace, InChild
<1>6. Deceased'
    BY <1>1, <1>2, <1>3 DEF Deceased
<1>7. InTable'
    BY <1>1, <1>2, <1>3 DEF InTable, InChild, OneChildPlace
<1>8. Unfinished'
    BY <1>1, <1>2, <1>3 DEF Unfinished, Entries
<1>9. HandlerHolds'
    BY <1>1, <1>2, <1>3 DEF HandlerHolds, InChild
<1>10. ExecutedOnce'
    BY <1>1, <1>2, <1>3 DEF ExecutedOnce
<1>11. OneEntry' /\ DiagsEnter'
    BY <1>1, <1>2, <1>3 DEF OneEntry, DiagsEnter, Entries
<1> QED  BY <1>1, <1>2, <1>3, <1>4, <1>5, <1>6, <1>7, <1>8, <1>9, <1>10, <1>11 DEF ProcessInv

(* The write fails on a dead child.                                        *)
LEMMA WriteBreaksKeeps ==
    ASSUME ProcessInv, NEW r \in Requests, WriteBreaks(r)
    PROVE  ProcessInv'
<1> USE RequestAssumption, ProcessAssumption DEF ProcessInv, EngineTyped, RequestTypeOK,
   WriteBreaks, Leave, processVars, parentVars, childVars
<1>1. /\ SentIds' = SentIds /\ ChildPipe'
      /\ AnsweredIds' = AnsweredIds /\ ParentPipe'
      /\ ServedIds' = ServedIds
    BY Frames
<1>2. UnwrittenIds' \subseteq UnwrittenIds
    BY DEF UnwrittenIds
<1>3. r \notin InChild
    BY DeadHoldsNothing
<1>4. EngineTyped'
    BY <1>1, <1>2, <1>3 DEF NoneOr, ProcessClients, Leases, Contexts
<1>5. OneChildPlace'
    BY <1>1, <1>2, <1>3 DEF OneChildPlace, InChild
<1>6. InTable'
    BY <1>1, <1>2, <1>3 DEF InTable, InChild, OneChildPlace
<1>7. Unfinished'
    BY <1>1, <1>2, <1>3 DEF Unfinished, Entries
<1>8. HandlerHolds'
    BY <1>1, <1>2, <1>3 DEF HandlerHolds, InChild
<1>9. ExecutedOnce'
    BY <1>1, <1>2, <1>3 DEF ExecutedOnce
<1>10. Deceased' /\ OneEntry' /\ DiagsEnter'
    BY <1>1, <1>2, <1>3 DEF Deceased, OneEntry, DiagsEnter, Entries
<1> QED  BY <1>1, <1>2, <1>3, <1>4, <1>5, <1>6, <1>7, <1>8, <1>9, <1>10 DEF ProcessInv

(* The write is refused; the handler takes its entry back.                 *)
LEMMA WriteRejectedKeeps ==
    ASSUME ProcessInv, NEW r \in Requests, WriteRejected(r)
    PROVE  ProcessInv'
<1> USE RequestAssumption, ProcessAssumption DEF ProcessInv, EngineTyped, RequestTypeOK,
   WriteRejected, Step, Leave, childVars
<1>1. /\ SentIds' = SentIds /\ ChildPipe'
      /\ AnsweredIds' = AnsweredIds /\ ParentPipe'
      /\ ServedIds' = ServedIds
    BY Frames
<1>2. UnwrittenIds' \subseteq UnwrittenIds
    BY DEF UnwrittenIds
<1>3. r \notin InChild
    BY DEF UnwrittenIds, OneChildPlace
<1>4. EngineTyped'
    BY <1>1, <1>2, <1>3 DEF NoneOr, ProcessClients, Leases, Contexts
<1>5. OneChildPlace'
    BY <1>1, <1>2, <1>3 DEF OneChildPlace, InChild
<1>6. InTable'
    BY <1>1, <1>2, <1>3 DEF InTable, InChild, OneChildPlace
<1>7. OneEntry'
    BY <1>1, <1>2, <1>3 DEF OneEntry, Entries
<1>8. Unfinished'
    BY <1>1, <1>2, <1>3 DEF Unfinished, Entries, OneEntry
<1>9. DiagsEnter'
    BY <1>1, <1>2, <1>3 DEF DiagsEnter, Entries
<1>10. HandlerHolds'
    BY <1>1, <1>2, <1>3 DEF HandlerHolds, InChild
<1>11. ExecutedOnce'
    BY <1>1, <1>2, <1>3 DEF ExecutedOnce
<1>12. Deceased'
    BY <1>1, <1>2, <1>3 DEF Deceased
<1> QED  BY <1>1, <1>2, <1>3, <1>4, <1>5, <1>6, <1>7, <1>8, <1>9, <1>10, <1>11, <1>12 DEF ProcessInv

(* The entry it took back is finished.                                     *)
LEMMA RaiseRejectedKeeps ==
    ASSUME ProcessInv, NEW r \in Requests, RaiseRejected(r)
    PROVE  ProcessInv'
<1> USE RequestAssumption, ProcessAssumption DEF ProcessInv, EngineTyped, RequestTypeOK,
   RaiseRejected, processVars, parentVars, childVars
<1>1. /\ SentIds' = SentIds /\ ChildPipe'
      /\ AnsweredIds' = AnsweredIds /\ ParentPipe'
      /\ ServedIds' = ServedIds
    BY Frames
<1>2. UnwrittenIds' \subseteq UnwrittenIds
    BY DEF UnwrittenIds
<1>3. r \notin InChild
    BY DEF UnwrittenIds, OneChildPlace
<1>4. EngineTyped'
    BY <1>1, <1>2, <1>3 DEF NoneOr, ProcessClients, Leases, Contexts
<1>5. OneChildPlace'
    BY <1>1, <1>2, <1>3 DEF OneChildPlace, InChild
<1>6. InTable'
    BY <1>1, <1>2, <1>3 DEF InTable, InChild, OneChildPlace
<1>7. Unfinished'
    BY <1>1, <1>2, <1>3 DEF Unfinished, Entries, HandlerHolds
<1>8. HandlerHolds'
    BY <1>1, <1>2, <1>3 DEF HandlerHolds, InChild
<1>9. ExecutedOnce'
    BY <1>1, <1>2, <1>3 DEF ExecutedOnce
<1>10. Deceased' /\ OneEntry' /\ DiagsEnter'
    BY <1>1, <1>2, <1>3 DEF Deceased, OneEntry, DiagsEnter, Entries
<1> QED  BY <1>1, <1>2, <1>3, <1>4, <1>5, <1>6, <1>7, <1>8, <1>9, <1>10 DEF ProcessInv

(* A handler finds its answer.                                             *)
LEMMA ProcessAnsweredKeeps ==
    ASSUME ProcessInv, NEW r \in Requests, ProcessAnswered(r)
    PROVE  ProcessInv'
<1> USE RequestAssumption, ProcessAssumption DEF ProcessInv, EngineTyped, RequestTypeOK,
   ProcessAnswered, Step, Leave, processVars, parentVars, childVars
<1>1. /\ SentIds' = SentIds /\ ChildPipe'
      /\ AnsweredIds' = AnsweredIds /\ ParentPipe'
      /\ ServedIds' = ServedIds
    BY Frames
<1>2. UnwrittenIds' \subseteq UnwrittenIds
    BY DEF UnwrittenIds
<1>3. finished[r] # 0
    OBVIOUS
<1>4. r \notin InChild
    BY <1>3, FinishedOutside
<1>5. EngineTyped'
    BY <1>1, <1>2, <1>3, <1>4 DEF NoneOr, ProcessClients, Leases, Contexts
<1>6. OneChildPlace'
    BY <1>1, <1>2, <1>3, <1>4 DEF OneChildPlace, InChild
<1>7. InTable'
    BY <1>1, <1>2, <1>3, <1>4 DEF InTable, InChild, OneChildPlace
<1>8. Unfinished'
    BY <1>1, <1>2, <1>3, <1>4 DEF Unfinished, Entries
<1>9. HandlerHolds'
    BY <1>1, <1>2, <1>3, <1>4 DEF HandlerHolds, InChild
<1>10. ExecutedOnce'
    BY <1>1, <1>2, <1>3, <1>4 DEF ExecutedOnce
<1>11. Deceased' /\ OneEntry' /\ DiagsEnter'
    BY <1>1, <1>2, <1>3, <1>4 DEF Deceased, OneEntry, DiagsEnter, Entries
<1> QED  BY <1>1, <1>2, <1>3, <1>4, <1>5, <1>6, <1>7, <1>8, <1>9, <1>10, <1>11 DEF ProcessInv

(* A handler finds its request cancelled.                                  *)
LEMMA ProcessObserveCancelledKeeps ==
    ASSUME ProcessInv, NEW r \in Requests, ProcessObserveCancelled(r)
    PROVE  ProcessInv'
<1> USE RequestAssumption, ProcessAssumption DEF ProcessInv, EngineTyped, RequestTypeOK,
   ProcessObserveCancelled, Cancelled, Step, processVars, parentVars, childVars
<1>1. /\ SentIds' = SentIds /\ ChildPipe'
      /\ AnsweredIds' = AnsweredIds /\ ParentPipe'
      /\ ServedIds' = ServedIds
    BY Frames
<1>2. UnwrittenIds' \subseteq UnwrittenIds
    BY DEF UnwrittenIds
<1>3. EngineTyped'
    BY <1>1, <1>2 DEF NoneOr, ProcessClients, Leases, Contexts
<1>4. OneChildPlace'
    BY <1>1, <1>2 DEF OneChildPlace, InChild
<1>5. InTable'
    BY <1>1, <1>2 DEF InTable, InChild, OneChildPlace
<1>6. Unfinished'
    BY <1>1, <1>2 DEF Unfinished, Entries
<1>7. HandlerHolds'
    BY <1>1, <1>2 DEF HandlerHolds, InChild
<1>8. ExecutedOnce'
    BY <1>1, <1>2 DEF ExecutedOnce
<1>9. Deceased' /\ OneEntry' /\ DiagsEnter'
    BY <1>1, <1>2 DEF Deceased, OneEntry, DiagsEnter, Entries
<1> QED  BY <1>1, <1>2, <1>3, <1>4, <1>5, <1>6, <1>7, <1>8, <1>9 DEF ProcessInv

(* The cancel is written and the handler leaves.                           *)
LEMMA CancelRequestKeeps ==
    ASSUME ProcessInv, NEW r \in Requests, CancelRequest(r)
    PROVE  ProcessInv'
<1> USE RequestAssumption, ProcessAssumption DEF ProcessInv, EngineTyped, RequestTypeOK,
   CancelRequest, LeaveOnCompletion, Leave, Writable, parentVars, childVars
<1>1. /\ AnsweredIds' = AnsweredIds /\ ParentPipe'
      /\ ServedIds' = ServedIds
    BY Frames
<1>2. UnwrittenIds' \subseteq UnwrittenIds
    BY DEF UnwrittenIds
<1>3. SentIds' = SentIds /\ ChildPipe'
    <2>1. CASE Send("cancel", r)
        <3>1. r \in NoneOr(Ids) /\ "cancel" \in Commands /\ "cancel" \notin Asking
            BY DEF NoneOr, Ids, Commands, Asking
        <3> QED  BY <2>1, <3>1, SentAppend
    <2>2. CASE UNCHANGED toChild
        BY <2>2, Frames
    <2> QED  BY <2>1, <2>2
<1>4. (finished[r] # 0 \/ stdinClosed) => r \notin InChild
    BY FinishedOutside, DeadHoldsNothing DEF Deceased
<1>5. EngineTyped'
    BY <1>1, <1>2, <1>3, <1>4 DEF NoneOr, ProcessClients, Leases, Contexts
<1>6. OneChildPlace'
    BY <1>1, <1>2, <1>3, <1>4 DEF OneChildPlace, InChild
<1>7. Deceased'
    BY <1>1, <1>2, <1>3, <1>4 DEF Deceased
<1>8. InTable'
    BY <1>1, <1>2, <1>3, <1>4 DEF InTable, InChild, OneChildPlace
<1>9. Unfinished'
    BY <1>1, <1>2, <1>3, <1>4 DEF Unfinished, Entries
<1>10. HandlerHolds'
    BY <1>1, <1>2, <1>3, <1>4 DEF HandlerHolds, InChild, Unfinished
<1>11. ExecutedOnce'
    BY <1>1, <1>2, <1>3, <1>4 DEF ExecutedOnce
<1>12. OneEntry' /\ DiagsEnter'
    BY <1>1, <1>2, <1>3, <1>4 DEF OneEntry, DiagsEnter, Entries
<1> QED  BY <1>1, <1>2, <1>3, <1>4, <1>5, <1>6, <1>7, <1>8, <1>9, <1>10, <1>11, <1>12 DEF ProcessInv

-----------------------------------------------------------------------------
(* The callers of diagnostics().                                           *)
LEMMA DiagEnterKeeps ==
    ASSUME ProcessInv, NEW d \in Diags, DiagEnter(d)
    PROVE  ProcessInv'
<1> USE RequestAssumption, ProcessAssumption DEF ProcessInv, EngineTyped, RequestTypeOK,
   DiagEnter, Ready, DiagStep, requestVars, diagFrame, childVars
<1>1. /\ SentIds' = SentIds /\ ChildPipe'
      /\ AnsweredIds' = AnsweredIds /\ ParentPipe'
      /\ ServedIds' = ServedIds
    BY Frames
<1>2. UnwrittenIds' \subseteq UnwrittenIds
    BY DEF UnwrittenIds
<1>3. EngineTyped'
    BY <1>1, <1>2 DEF NoneOr, ProcessClients, Leases, Contexts
<1>4. OneChildPlace'
    BY <1>1, <1>2 DEF OneChildPlace, InChild
<1>5. InTable'
    BY <1>1, <1>2 DEF InTable, InChild, OneChildPlace
<1>6. DiagsEnter'
    BY <1>1, <1>2 DEF DiagsEnter, Entries
<1>7. ExecutedOnce'
    BY <1>1, <1>2 DEF ExecutedOnce
<1>8. Deceased' /\ OneEntry' /\ Unfinished' /\ HandlerHolds'
    BY <1>1, <1>2 DEF Deceased, OneEntry, Unfinished, HandlerHolds, Entries, InChild
<1> QED  BY <1>1, <1>2, <1>3, <1>4, <1>5, <1>6, <1>7, <1>8 DEF ProcessInv

(* The table takes the call, or is full.                                   *)
LEMMA DiagRegisterKeeps ==
    ASSUME ProcessInv, NEW d \in Diags, DiagRegister(d)
    PROVE  ProcessInv'
<1> USE RequestAssumption, ProcessAssumption DEF ProcessInv, EngineTyped, RequestTypeOK,
   DiagRegister, DiagStep, requestVars, diagFrame, childVars
<1>1. /\ SentIds' = SentIds /\ ChildPipe'
      /\ AnsweredIds' = AnsweredIds /\ ParentPipe'
      /\ ServedIds' = ServedIds
    BY Frames
<1>2. UnwrittenIds' \subseteq UnwrittenIds
    BY DEF UnwrittenIds
<1>3. d \notin Requests /\ d \in Ids /\ d # None
    BY DEF Ids
<1>4. EngineTyped'
    BY <1>1, <1>2, <1>3 DEF NoneOr, ProcessClients, Leases, Contexts
<1>5. OneChildPlace'
    BY <1>1, <1>2, <1>3 DEF OneChildPlace, InChild
<1>6. InTable'
    BY <1>1, <1>2, <1>3 DEF InTable, InChild, OneChildPlace
<1>7. OneEntry'
    BY <1>1, <1>2, <1>3 DEF OneEntry, Entries, DiagsEnter
<1>8. Unfinished'
    BY <1>1, <1>2, <1>3 DEF Unfinished, Entries
<1>9. DiagsEnter'
    BY <1>1, <1>2, <1>3 DEF DiagsEnter, Entries
<1>10. ExecutedOnce'
    BY <1>1, <1>2, <1>3 DEF ExecutedOnce
<1>11. Deceased' /\ HandlerHolds'
    BY <1>1, <1>2, <1>3 DEF Deceased, HandlerHolds, InChild
<1> QED  BY <1>1, <1>2, <1>3, <1>4, <1>5, <1>6, <1>7, <1>8, <1>9, <1>10, <1>11 DEF ProcessInv

(* The command is written, or the write fails.                             *)
LEMMA DiagWriteKeeps ==
    ASSUME ProcessInv, NEW d \in Diags, DiagWrite(d)
    PROVE  ProcessInv'
<1> USE RequestAssumption, ProcessAssumption DEF ProcessInv, EngineTyped, RequestTypeOK,
   DiagWrite, Writable, DiagStep, requestVars, diagFrame, childVars
<1>1. /\ AnsweredIds' = AnsweredIds /\ ParentPipe'
      /\ ServedIds' = ServedIds
    BY Frames
<1>2. UnwrittenIds' \subseteq UnwrittenIds /\ d \notin UnwrittenIds' /\ d \in UnwrittenIds
    BY DEF UnwrittenIds
<1>3. (SentIds' = SentIds \/ (Writable /\ SentIds' = SentIds \cup {d})) /\ ChildPipe'
    <2>1. d \in UnwrittenIds /\ d \in Ids /\ d \in NoneOr(Ids)
        BY DEF UnwrittenIds, Ids, NoneOr
    <2>2. d \notin SentIds
        BY <2>1 DEF OneChildPlace, InChild
    <2>3. CASE Writable
        BY <2>1, <2>2, <2>3, SentAppend DEF Commands, Asking
    <2>4. CASE ~Writable
        BY <2>4, Frames
    <2> QED  BY <2>3, <2>4
<1>4. d \notin Requests
    OBVIOUS
<1>5. EngineTyped'
    BY <1>1, <1>2, <1>3, <1>4 DEF NoneOr, ProcessClients, Leases, Contexts
<1>6. OneChildPlace'
    BY <1>1, <1>2, <1>3, <1>4 DEF OneChildPlace, InChild
<1>7. Deceased'
    BY <1>1, <1>2, <1>3, <1>4 DEF Deceased
<1>8. InTable'
    BY <1>1, <1>2, <1>3, <1>4 DEF InTable, InChild, OneChildPlace
<1>9. DiagsEnter'
    BY <1>1, <1>2, <1>3, <1>4 DEF DiagsEnter, Entries
<1>10. HandlerHolds'
    BY <1>1, <1>2, <1>3, <1>4 DEF HandlerHolds, InChild
<1>11. ExecutedOnce'
    BY <1>1, <1>2, <1>3, <1>4 DEF ExecutedOnce
<1>12. OneEntry' /\ Unfinished'
    BY <1>1, <1>2, <1>3, <1>4 DEF OneEntry, Unfinished, Entries
<1> QED  BY <1>1, <1>2, <1>3, <1>4, <1>5, <1>6, <1>7, <1>8, <1>9, <1>10, <1>11, <1>12 DEF ProcessInv

(* A caller finds its answer.                                              *)
LEMMA DiagAnsweredKeeps ==
    ASSUME ProcessInv, NEW d \in Diags, DiagAnswered(d)
    PROVE  ProcessInv'
<1> USE RequestAssumption, ProcessAssumption DEF ProcessInv, EngineTyped, RequestTypeOK,
   DiagAnswered, DiagStep, requestVars, diagFrame, childVars
<1>1. /\ SentIds' = SentIds /\ ChildPipe'
      /\ AnsweredIds' = AnsweredIds /\ ParentPipe'
      /\ ServedIds' = ServedIds
    BY Frames
<1>2. UnwrittenIds' \subseteq UnwrittenIds
    BY DEF UnwrittenIds
<1>3. EngineTyped'
    BY <1>1, <1>2 DEF NoneOr, ProcessClients, Leases, Contexts
<1>4. OneChildPlace'
    BY <1>1, <1>2 DEF OneChildPlace, InChild
<1>5. InTable'
    BY <1>1, <1>2 DEF InTable, InChild, OneChildPlace
<1>6. DiagsEnter'
    BY <1>1, <1>2 DEF DiagsEnter, Entries
<1>7. ExecutedOnce'
    BY <1>1, <1>2 DEF ExecutedOnce
<1>8. Deceased' /\ OneEntry' /\ Unfinished' /\ HandlerHolds'
    BY <1>1, <1>2 DEF Deceased, OneEntry, Unfinished, HandlerHolds, Entries, InChild
<1> QED  BY <1>1, <1>2, <1>3, <1>4, <1>5, <1>6, <1>7, <1>8 DEF ProcessInv

(* A caller stops waiting.                                                 *)
LEMMA DiagTimesOutKeeps ==
    ASSUME ProcessInv, NEW d \in Diags, DiagTimesOut(d)
    PROVE  ProcessInv'
<1> USE RequestAssumption, ProcessAssumption DEF ProcessInv, EngineTyped, RequestTypeOK,
   DiagTimesOut, DiagStep, requestVars, diagFrame, childVars
<1>1. /\ SentIds' = SentIds /\ ChildPipe'
      /\ AnsweredIds' = AnsweredIds /\ ParentPipe'
      /\ ServedIds' = ServedIds
    BY Frames
<1>2. UnwrittenIds' \subseteq UnwrittenIds
    BY DEF UnwrittenIds
<1>3. EngineTyped'
    BY <1>1, <1>2 DEF NoneOr, ProcessClients, Leases, Contexts
<1>4. OneChildPlace'
    BY <1>1, <1>2 DEF OneChildPlace, InChild
<1>5. InTable'
    BY <1>1, <1>2 DEF InTable, InChild, OneChildPlace
<1>6. DiagsEnter'
    BY <1>1, <1>2 DEF DiagsEnter, Entries
<1>7. ExecutedOnce'
    BY <1>1, <1>2 DEF ExecutedOnce
<1>8. Deceased' /\ OneEntry' /\ Unfinished' /\ HandlerHolds'
    BY <1>1, <1>2 DEF Deceased, OneEntry, Unfinished, HandlerHolds, Entries, InChild
<1> QED  BY <1>1, <1>2, <1>3, <1>4, <1>5, <1>6, <1>7, <1>8 DEF ProcessInv

(* Its cancel is written; the entry stays.                                 *)
LEMMA DiagCancelKeeps ==
    ASSUME ProcessInv, NEW d \in Diags, DiagCancel(d)
    PROVE  ProcessInv'
<1> USE RequestAssumption, ProcessAssumption DEF ProcessInv, EngineTyped, RequestTypeOK,
   DiagCancel, DiagStep, Writable, requestVars, diagFrame, childVars
<1>1. /\ AnsweredIds' = AnsweredIds /\ ParentPipe'
      /\ ServedIds' = ServedIds
    BY Frames
<1>2. UnwrittenIds' \subseteq UnwrittenIds
    BY DEF UnwrittenIds
<1>3. SentIds' = SentIds /\ ChildPipe'
    <2>1. CASE Send("cancel", d)
        <3>1. d \in NoneOr(Ids) /\ "cancel" \in Commands /\ "cancel" \notin Asking
            BY DEF NoneOr, Ids, Commands, Asking
        <3> QED  BY <2>1, <3>1, SentAppend
    <2>2. CASE UNCHANGED toChild
        BY <2>2, Frames
    <2> QED  BY <2>1, <2>2
<1>4. EngineTyped'
    BY <1>1, <1>2, <1>3 DEF NoneOr, ProcessClients, Leases, Contexts
<1>5. OneChildPlace'
    BY <1>1, <1>2, <1>3 DEF OneChildPlace, InChild
<1>6. Deceased'
    BY <1>1, <1>2, <1>3 DEF Deceased
<1>7. InTable'
    BY <1>1, <1>2, <1>3 DEF InTable, InChild, OneChildPlace
<1>8. DiagsEnter'
    BY <1>1, <1>2, <1>3 DEF DiagsEnter, Entries
<1>9. HandlerHolds'
    BY <1>1, <1>2, <1>3 DEF HandlerHolds, InChild
<1>10. ExecutedOnce'
    BY <1>1, <1>2, <1>3 DEF ExecutedOnce
<1>11. OneEntry' /\ Unfinished'
    BY <1>1, <1>2, <1>3 DEF OneEntry, Unfinished, Entries
<1> QED  BY <1>1, <1>2, <1>3, <1>4, <1>5, <1>6, <1>7, <1>8, <1>9, <1>10, <1>11 DEF ProcessInv

-----------------------------------------------------------------------------
(* The constructor and close().                                            *)
LEMMA ProcessBuiltKeeps ==
    ASSUME ProcessInv, ProcessBuilt
    PROVE  ProcessInv'
<1> USE RequestAssumption, ProcessAssumption DEF ProcessInv, EngineTyped, RequestTypeOK,
   ProcessBuilt, constructorFrame, requestVars, childVars
<1>1. /\ SentIds' = SentIds /\ ChildPipe'
      /\ AnsweredIds' = AnsweredIds /\ ParentPipe'
      /\ ServedIds' = ServedIds
      /\ UnwrittenIds' = UnwrittenIds
    BY Frames
<1>2. EngineTyped' /\ OneChildPlace' /\ Deceased' /\ InTable' /\ OneEntry' /\ Unfinished' /\
   DiagsEnter' /\ HandlerHolds' /\ ExecutedOnce'
    BY <1>1 DEF OneChildPlace, Deceased, InTable, OneEntry, Unfinished, DiagsEnter,
       HandlerHolds, ExecutedOnce, InChild, Entries
<1> QED  BY <1>1, <1>2 DEF ProcessInv

(* The constructor gives up.                                               *)
LEMMA StartupFailsKeeps ==
    ASSUME ProcessInv, StartupFails
    PROVE  ProcessInv'
<1> USE RequestAssumption, ProcessAssumption DEF ProcessInv, EngineTyped, RequestTypeOK,
   StartupFails, constructorFrame, requestVars, childVars
<1>1. /\ SentIds' = SentIds /\ ChildPipe'
      /\ AnsweredIds' = AnsweredIds /\ ParentPipe'
      /\ ServedIds' = ServedIds
      /\ UnwrittenIds' = UnwrittenIds
    BY Frames
<1>2. EngineTyped' /\ OneChildPlace' /\ Deceased' /\ InTable' /\ OneEntry' /\ Unfinished' /\
   DiagsEnter' /\ HandlerHolds' /\ ExecutedOnce'
    BY <1>1 DEF OneChildPlace, Deceased, InTable, OneEntry, Unfinished, DiagsEnter,
       HandlerHolds, ExecutedOnce, InChild, Entries
<1> QED  BY <1>1, <1>2 DEF ProcessInv

(* close() begins.                                                         *)
LEMMA ProcessCloseStartKeeps ==
    ASSUME ProcessInv, ProcessCloseStart
    PROVE  ProcessInv'
<1> USE RequestAssumption, ProcessAssumption DEF ProcessInv, EngineTyped, RequestTypeOK,
   ProcessCloseStart, requestVars, closeFrame, childVars
<1>1. /\ SentIds' = SentIds /\ ChildPipe'
      /\ AnsweredIds' = AnsweredIds /\ ParentPipe'
      /\ ServedIds' = ServedIds
      /\ UnwrittenIds' = UnwrittenIds
    BY Frames
<1>2. EngineTyped'
    BY <1>1 DEF NoneOr, ProcessClients, Leases, Contexts
<1>3. Deceased'
    BY <1>1 DEF Deceased
<1>4. OneChildPlace' /\ InTable' /\ OneEntry' /\ Unfinished' /\ DiagsEnter' /\ HandlerHolds'
   /\ ExecutedOnce'
    BY <1>1 DEF OneChildPlace, InTable, OneEntry, Unfinished, DiagsEnter, HandlerHolds,
       ExecutedOnce, InChild, Entries
<1> QED  BY <1>1, <1>2, <1>3, <1>4 DEF ProcessInv

(* The shutdown command is written.                                        *)
LEMMA CloseWritesKeeps ==
    ASSUME ProcessInv, CloseWrites
    PROVE  ProcessInv'
<1> USE RequestAssumption, ProcessAssumption DEF ProcessInv, EngineTyped, RequestTypeOK,
   CloseWrites, requestVars, closeFrame, childVars
<1>1. /\ AnsweredIds' = AnsweredIds /\ ParentPipe'
      /\ ServedIds' = ServedIds
      /\ UnwrittenIds' = UnwrittenIds
    BY Frames
<1>2. SentIds' = SentIds /\ ChildPipe'
    <2>1. CASE Send("shutdown", None)
        <3>1. None \in NoneOr(Ids) /\ "shutdown" \in Commands /\ "shutdown" \notin Asking
            BY DEF NoneOr, Commands, Asking
        <3> QED  BY <2>1, <3>1, SentAppend
    <2>2. CASE UNCHANGED toChild
        BY <2>2, Frames
    <2> QED  BY <2>1, <2>2
<1>3. EngineTyped'
    BY <1>1, <1>2 DEF NoneOr, ProcessClients, Leases, Contexts
<1>4. OneChildPlace'
    BY <1>1, <1>2 DEF OneChildPlace, InChild
<1>5. Deceased'
    BY <1>1, <1>2 DEF Deceased
<1>6. InTable'
    BY <1>1, <1>2 DEF InTable, InChild, OneChildPlace
<1>7. HandlerHolds'
    BY <1>1, <1>2 DEF HandlerHolds, InChild
<1>8. ExecutedOnce'
    BY <1>1, <1>2 DEF ExecutedOnce
<1>9. OneEntry' /\ Unfinished' /\ DiagsEnter'
    BY <1>1, <1>2 DEF OneEntry, Unfinished, DiagsEnter, Entries
<1> QED  BY <1>1, <1>2, <1>3, <1>4, <1>5, <1>6, <1>7, <1>8, <1>9 DEF ProcessInv

(* The child exits or is killed.                                           *)
LEMMA CloseWaitsKeeps ==
    ASSUME ProcessInv, CloseWaits
    PROVE  ProcessInv'
<1> USE RequestAssumption, ProcessAssumption DEF ProcessInv, EngineTyped, RequestTypeOK,
   CloseWaits, Dead, childVars, requestVars, closeFrame
<1>1. UnwrittenIds' = UnwrittenIds
    BY Frames
<1>2. /\ SentIds' = {} /\ ServedIds' = {} /\ ChildPipe'
      /\ AnsweredIds' = AnsweredIds /\ ParentPipe'
    <2>1. CASE alive
        <3>1. Dead
            BY <2>1
        <3> QED  BY <3>1, DeadEffects DEF Dead
    <2>2. CASE ~alive
        <3>1. SentIds' = SentIds /\ ChildPipe' /\ AnsweredIds' = AnsweredIds /\ ParentPipe'
              /\ ServedIds' = ServedIds /\ alive' = alive
            BY <2>2, Frames DEF childVars
        <3>2. SentIds = {} /\ ServedIds = {}
            BY <2>2, DeadHoldsNothing DEF InChild
        <3> QED  BY <3>1, <3>2
    <2> QED  BY <2>1, <2>2
<1>3. ~alive' /\ cqueue' = {} /\ (main' = "dead")
    BY DEF Deceased
<1>4. EngineTyped'
    BY <1>1, <1>2, <1>3 DEF NoneOr, ProcessClients, Leases, Contexts
<1>5. OneChildPlace'
    BY <1>1, <1>2, <1>3 DEF OneChildPlace, InChild
<1>6. Deceased'
    BY <1>1, <1>2, <1>3 DEF Deceased
<1>7. InTable'
    BY <1>1, <1>2, <1>3 DEF InTable, InChild, OneChildPlace
<1>8. HandlerHolds'
    BY <1>1, <1>2, <1>3 DEF HandlerHolds, InChild
<1>9. ExecutedOnce'
    BY <1>1, <1>2, <1>3 DEF ExecutedOnce, Deceased
<1>10. OneEntry' /\ Unfinished' /\ DiagsEnter'
    BY <1>1, <1>2, <1>3 DEF OneEntry, Unfinished, DiagsEnter, Entries
<1> QED  BY <1>1, <1>2, <1>3, <1>4, <1>5, <1>6, <1>7, <1>8, <1>9, <1>10 DEF ProcessInv

(* close() takes the table.                                                *)
LEMMA CloseTakesPendingKeeps ==
    ASSUME ProcessInv, CloseTakesPending
    PROVE  ProcessInv'
<1> USE RequestAssumption, ProcessAssumption DEF ProcessInv, EngineTyped, RequestTypeOK,
   CloseTakesPending, requestVars, closeFrame, childVars
<1>1. /\ SentIds' = SentIds /\ ChildPipe'
      /\ AnsweredIds' = AnsweredIds /\ ParentPipe'
      /\ ServedIds' = ServedIds
      /\ UnwrittenIds' = UnwrittenIds
    BY Frames
<1>2. ~alive
    BY DEF Deceased
<1>3. EngineTyped'
    BY <1>1, <1>2 DEF NoneOr, ProcessClients, Leases, Contexts
<1>4. Deceased'
    BY <1>1, <1>2 DEF Deceased
<1>5. InTable'
    BY <1>1, <1>2 DEF InTable, InChild, OneChildPlace
<1>6. OneEntry'
    BY <1>1, <1>2 DEF OneEntry, Entries
<1>7. Unfinished'
    BY <1>1, <1>2 DEF Unfinished, Entries
<1>8. DiagsEnter'
    BY <1>1, <1>2 DEF DiagsEnter, Entries
<1>9. OneChildPlace' /\ HandlerHolds' /\ ExecutedOnce'
    BY <1>1, <1>2 DEF OneChildPlace, HandlerHolds, ExecutedOnce, InChild
<1> QED  BY <1>1, <1>2, <1>3, <1>4, <1>5, <1>6, <1>7, <1>8, <1>9 DEF ProcessInv

(* close() finishes an entry.                                              *)
LEMMA CloseFailsKeeps ==
    ASSUME ProcessInv, NEW x \in Ids, CloseFails(x)
    PROVE  ProcessInv'
<1> USE RequestAssumption, ProcessAssumption DEF ProcessInv, EngineTyped, RequestTypeOK,
   CloseFails, FinishEntry, Finish, requestVars, childVars
<1>1. /\ SentIds' = SentIds /\ ChildPipe'
      /\ AnsweredIds' = AnsweredIds /\ ParentPipe'
      /\ ServedIds' = ServedIds
      /\ UnwrittenIds' = UnwrittenIds
    BY Frames
<1>2. x \notin InChild /\ ~alive
    BY DeadHoldsNothing DEF Deceased
<1>3. x \in Requests => finished[x] = 0
    BY DEF Unfinished, Entries
<1>4. EngineTyped'
    BY <1>1, <1>2, <1>3 DEF NoneOr, ProcessClients, Leases, Contexts
<1>5. OneEntry'
    BY <1>1, <1>2, <1>3 DEF OneEntry, Entries
<1>6. Unfinished'
    BY <1>1, <1>2, <1>3 DEF Unfinished, Entries, OneEntry, HandlerHolds
<1>7. DiagsEnter'
    BY <1>1, <1>2, <1>3 DEF DiagsEnter, Entries
<1>8. HandlerHolds'
    BY <1>1, <1>2, <1>3 DEF HandlerHolds, InChild
<1>9. OneChildPlace' /\ Deceased' /\ InTable' /\ ExecutedOnce'
    BY <1>1, <1>2, <1>3 DEF OneChildPlace, Deceased, InTable, ExecutedOnce, InChild
<1> QED  BY <1>1, <1>2, <1>3, <1>4, <1>5, <1>6, <1>7, <1>8, <1>9 DEF ProcessInv

(* close() ends.                                                           *)
LEMMA ProcessCloseEndKeeps ==
    ASSUME ProcessInv, ProcessCloseEnd
    PROVE  ProcessInv'
<1> USE RequestAssumption, ProcessAssumption DEF ProcessInv, EngineTyped, RequestTypeOK,
   ProcessCloseEnd, requestVars, closeFrame, childVars
<1>1. /\ SentIds' = SentIds /\ ChildPipe'
      /\ AnsweredIds' = AnsweredIds /\ ParentPipe'
      /\ ServedIds' = ServedIds
      /\ UnwrittenIds' = UnwrittenIds
    BY Frames
<1>2. EngineTyped'
    BY <1>1 DEF NoneOr, ProcessClients, Leases, Contexts
<1>3. Deceased'
    BY <1>1 DEF Deceased
<1>4. OneChildPlace' /\ InTable' /\ OneEntry' /\ Unfinished' /\ DiagsEnter' /\ HandlerHolds'
   /\ ExecutedOnce'
    BY <1>1 DEF OneChildPlace, InTable, OneEntry, Unfinished, DiagsEnter, HandlerHolds,
       ExecutedOnce, InChild, Entries
<1> QED  BY <1>1, <1>2, <1>3, <1>4 DEF ProcessInv

-----------------------------------------------------------------------------
(* The parent's reader thread.                                             *)
LEMMA ReadReadyKeeps ==
    ASSUME ProcessInv, ReadReady
    PROVE  ProcessInv'
<1> USE RequestAssumption, ProcessAssumption DEF ProcessInv, EngineTyped, RequestTypeOK,
   ReadReady, Received, readerFrame, requestVars, childVars
<1>1. /\ SentIds' = SentIds /\ ChildPipe'
      /\ ServedIds' = ServedIds
      /\ UnwrittenIds' = UnwrittenIds
    BY Frames
<1>2. AnsweredIds' \subseteq AnsweredIds /\ ParentPipe'
    BY AnsweredTail
<1>3. OneChildPlace'
    BY <1>1, <1>2 DEF OneChildPlace, InChild
<1>4. OneEntry'
    BY <1>1, <1>2 DEF OneEntry, Entries
<1>5. EngineTyped' /\ Deceased' /\ InTable' /\ Unfinished' /\ DiagsEnter' /\ HandlerHolds'
   /\ ExecutedOnce'
    BY <1>1, <1>2 DEF Deceased, InTable, Unfinished, DiagsEnter, HandlerHolds, ExecutedOnce,
       InChild, Entries
<1> QED  BY <1>1, <1>2, <1>3, <1>4, <1>5 DEF ProcessInv

(* An answer is matched with its entry, or skipped.                        *)
LEMMA ReadAnswerKeeps ==
    ASSUME ProcessInv, ReadAnswer
    PROVE  ProcessInv'
<1> USE RequestAssumption, ProcessAssumption DEF ProcessInv, EngineTyped, RequestTypeOK,
   ReadAnswer, readerFrame, requestVars, childVars
<1>1. /\ SentIds' = SentIds /\ ChildPipe'
      /\ ServedIds' = ServedIds
      /\ UnwrittenIds' = UnwrittenIds
    BY Frames
<1>2. AnsweredIds' \subseteq AnsweredIds /\ ParentPipe'
    BY AnsweredTail, Frames
<1>3. Head(toParent).id \in pending => Head(toParent).id \in Ids /\ Head(toParent).id \in AnsweredIds
    BY AnsweredTail
<1>4. None \notin Ids
    BY DEF Ids
<1>5. Head(toParent).id \in pending => Head(toParent).id \notin InChild
    BY <1>3 DEF OneChildPlace, InChild
<1>6. EngineTyped'
    BY <1>1, <1>2, <1>3, <1>4, <1>5 DEF NoneOr, ProcessClients, Leases, Contexts
<1>7. OneChildPlace'
    BY <1>1, <1>2, <1>3, <1>4, <1>5 DEF OneChildPlace, InChild
<1>8. Deceased'
    BY <1>1, <1>2, <1>3, <1>4, <1>5 DEF Deceased
<1>9. InTable'
    <2>1. Head(toParent).id \in pending => Head(toParent).id \notin UnwrittenIds
        BY <1>3 DEF OneChildPlace
    <2>2. /\ \A r \in Requests : client[r] = "registered" => r \in UnwrittenIds
          /\ \A d \in Diags : diag[d] = "registered" => d \in UnwrittenIds
        BY DEF UnwrittenIds
    <2> QED  BY <1>1, <1>3, <1>5, <2>1, <2>2 DEF InTable, InChild
<1>10. OneEntry'
    BY <1>1, <1>2, <1>3, <1>4, <1>5 DEF OneEntry, Entries
<1>11. Unfinished'
    BY <1>1, <1>2, <1>3, <1>4, <1>5 DEF Unfinished, Entries, OneEntry
<1>12. DiagsEnter'
    BY <1>1, <1>2, <1>3, <1>4, <1>5 DEF DiagsEnter, Entries
<1>13. HandlerHolds' /\ ExecutedOnce'
    BY <1>1, <1>2, <1>3, <1>4, <1>5 DEF HandlerHolds, ExecutedOnce, InChild
<1> QED  BY <1>1, <1>2, <1>3, <1>4, <1>5, <1>6, <1>7, <1>8, <1>9, <1>10, <1>11, <1>12, <1>13
       DEF ProcessInv

(* The matched entry is finished.                                          *)
LEMMA FinishAnswerKeeps ==
    ASSUME ProcessInv, FinishAnswer
    PROVE  ProcessInv'
<1> USE RequestAssumption, ProcessAssumption DEF ProcessInv, EngineTyped, RequestTypeOK,
   FinishAnswer, FinishEntry, Finish, requestVars, childVars
<1>1. /\ SentIds' = SentIds /\ ChildPipe'
      /\ ServedIds' = ServedIds
      /\ UnwrittenIds' = UnwrittenIds
    BY Frames
<1>2. AnsweredIds' \subseteq AnsweredIds /\ ParentPipe'
    BY AnsweredTail DEF OneEntry
<1>3. answering \in Ids /\ None \notin Ids
    BY DEF OneEntry, Ids
<1>4. answering \notin InChild
    <2>1. CASE alive
        BY <2>1 DEF InTable, OneEntry
    <2>2. CASE ~alive
        BY <2>2, DeadHoldsNothing
    <2> QED  BY <2>1, <2>2
<1>5. answering \in Requests => finished[answering] = 0
    BY DEF Unfinished
<1>6. None \notin Requests /\ None \notin Diags
    OBVIOUS
<1>7. EngineTyped'
    <2>1. answering' \in NoneOr(Ids)
        BY DEF NoneOr
    <2>2. CASE answering \in Requests
        BY <2>1, <2>2 DEF Leases
    <2>3. CASE answering \notin Requests
        BY <2>1, <2>3
    <2> QED  BY <2>2, <2>3
<1>8. OneChildPlace'
    BY <1>1, <1>2, <1>3, <1>4, <1>5, <1>6 DEF OneChildPlace, InChild
<1>9. Deceased'
    BY <1>1, <1>2, <1>3, <1>4, <1>5, <1>6 DEF Deceased
<1>10. OneEntry'
    BY <1>1, <1>2, <1>3, <1>4, <1>5, <1>6 DEF OneEntry, Entries
<1>11. Unfinished'
    BY <1>1, <1>2, <1>3, <1>4, <1>5, <1>6 DEF Unfinished, Entries, OneEntry, HandlerHolds
<1>12. DiagsEnter'
    BY <1>1, <1>2, <1>3, <1>4, <1>5, <1>6 DEF DiagsEnter, Entries
<1>13. HandlerHolds'
    BY <1>1, <1>2, <1>3, <1>4, <1>5, <1>6 DEF HandlerHolds, InChild
<1>14. InTable' /\ ExecutedOnce'
    BY <1>1, <1>2, <1>3, <1>4, <1>5, <1>6 DEF InTable, ExecutedOnce, InChild
<1> QED  BY <1>1, <1>2, <1>3, <1>4, <1>5, <1>6, <1>7, <1>8, <1>9, <1>10, <1>11, <1>12,
   <1>13, <1>14 DEF ProcessInv

(* The end of the output, or a line that is no response.                   *)
LEMMA ReadEndsKeeps ==
    ASSUME ProcessInv, ReadEnds
    PROVE  ProcessInv'
<1> USE RequestAssumption, ProcessAssumption DEF ProcessInv, EngineTyped, RequestTypeOK,
   ReadEnds, Received, readerFrame, requestVars, childVars
<1>1. /\ SentIds' = SentIds /\ ChildPipe'
      /\ AnsweredIds' = AnsweredIds /\ ParentPipe'
      /\ ServedIds' = ServedIds
      /\ UnwrittenIds' = UnwrittenIds
    BY Frames
<1>2. EngineTyped'
    BY <1>1 DEF NoneOr, ProcessClients, Leases, Contexts
<1>3. Deceased'
    BY <1>1 DEF Deceased
<1>4. OneEntry'
    BY <1>1 DEF OneEntry, Entries
<1>5. OneChildPlace' /\ InTable' /\ Unfinished' /\ DiagsEnter' /\ HandlerHolds' /\
   ExecutedOnce'
    BY <1>1 DEF OneChildPlace, InTable, Unfinished, DiagsEnter, HandlerHolds, ExecutedOnce,
       InChild, Entries
<1> QED  BY <1>1, <1>2, <1>3, <1>4, <1>5 DEF ProcessInv

(* The child is reaped before anything is released.                        *)
LEMMA ReapKeeps ==
    ASSUME ProcessInv, Reap
    PROVE  ProcessInv'
<1> USE RequestAssumption, ProcessAssumption DEF ProcessInv, EngineTyped, RequestTypeOK,
   Reap, Dead, childVars, readerFrame, requestVars
<1>1. UnwrittenIds' = UnwrittenIds
    BY Frames
<1>2. /\ SentIds' = {} /\ ServedIds' = {} /\ ChildPipe'
      /\ AnsweredIds' = AnsweredIds /\ ParentPipe'
    <2>1. CASE alive
        <3>1. Dead
            BY <2>1
        <3> QED  BY <3>1, DeadEffects DEF Dead
    <2>2. CASE ~alive
        <3>1. SentIds' = SentIds /\ ChildPipe' /\ AnsweredIds' = AnsweredIds /\ ParentPipe'
              /\ ServedIds' = ServedIds /\ alive' = alive
            BY <2>2, Frames DEF childVars
        <3>2. SentIds = {} /\ ServedIds = {}
            BY <2>2, DeadHoldsNothing DEF InChild
        <3> QED  BY <3>1, <3>2
    <2> QED  BY <2>1, <2>2
<1>3. ~alive' /\ cqueue' = {} /\ (main' = "dead")
    BY DEF Deceased
<1>4. EngineTyped'
    BY <1>1, <1>2, <1>3 DEF NoneOr, ProcessClients, Leases, Contexts
<1>5. OneChildPlace'
    BY <1>1, <1>2, <1>3 DEF OneChildPlace, InChild
<1>6. Deceased'
    BY <1>1, <1>2, <1>3 DEF Deceased
<1>7. InTable'
    BY <1>1, <1>2, <1>3 DEF InTable, InChild, OneChildPlace
<1>8. OneEntry'
    BY <1>1, <1>2, <1>3 DEF OneEntry, Entries
<1>9. HandlerHolds'
    BY <1>1, <1>2, <1>3 DEF HandlerHolds, InChild
<1>10. ExecutedOnce'
    BY <1>1, <1>2, <1>3 DEF ExecutedOnce, Deceased
<1>11. Unfinished' /\ DiagsEnter'
    BY <1>1, <1>2, <1>3 DEF Unfinished, DiagsEnter, Entries
<1> QED  BY <1>1, <1>2, <1>3, <1>4, <1>5, <1>6, <1>7, <1>8, <1>9, <1>10, <1>11 DEF ProcessInv

(* The reader takes the table.                                             *)
LEMMA ReaderTakesPendingKeeps ==
    ASSUME ProcessInv, ReaderTakesPending
    PROVE  ProcessInv'
<1> USE RequestAssumption, ProcessAssumption DEF ProcessInv, EngineTyped, RequestTypeOK,
   ReaderTakesPending, readerFrame, requestVars, childVars
<1>1. /\ SentIds' = SentIds /\ ChildPipe'
      /\ AnsweredIds' = AnsweredIds /\ ParentPipe'
      /\ ServedIds' = ServedIds
      /\ UnwrittenIds' = UnwrittenIds
    BY Frames
<1>2. ~alive
    BY DEF Deceased
<1>3. EngineTyped'
    BY <1>1, <1>2 DEF NoneOr, ProcessClients, Leases, Contexts
<1>4. Deceased'
    BY <1>1, <1>2 DEF Deceased
<1>5. InTable'
    BY <1>1, <1>2 DEF InTable, InChild, OneChildPlace
<1>6. OneEntry'
    BY <1>1, <1>2 DEF OneEntry, Entries
<1>7. Unfinished'
    BY <1>1, <1>2 DEF Unfinished, Entries
<1>8. DiagsEnter'
    BY <1>1, <1>2 DEF DiagsEnter, Entries
<1>9. OneChildPlace' /\ HandlerHolds' /\ ExecutedOnce'
    BY <1>1, <1>2 DEF OneChildPlace, HandlerHolds, ExecutedOnce, InChild
<1> QED  BY <1>1, <1>2, <1>3, <1>4, <1>5, <1>6, <1>7, <1>8, <1>9 DEF ProcessInv

(* The reader finishes an entry.                                           *)
LEMMA ReaderFailsEntryKeeps ==
    ASSUME ProcessInv, NEW x \in Ids, ReaderFailsEntry(x)
    PROVE  ProcessInv'
<1> USE RequestAssumption, ProcessAssumption DEF ProcessInv, EngineTyped, RequestTypeOK,
   ReaderFailsEntry, FinishEntry, Finish, requestVars, childVars
<1>1. /\ SentIds' = SentIds /\ ChildPipe'
      /\ AnsweredIds' = AnsweredIds /\ ParentPipe'
      /\ ServedIds' = ServedIds
      /\ UnwrittenIds' = UnwrittenIds
    BY Frames
<1>2. x \notin InChild /\ ~alive
    BY DeadHoldsNothing DEF Deceased
<1>3. x \in Requests => finished[x] = 0
    BY DEF Unfinished, Entries
<1>4. EngineTyped'
    BY <1>1, <1>2, <1>3 DEF NoneOr, ProcessClients, Leases, Contexts
<1>5. OneEntry'
    BY <1>1, <1>2, <1>3 DEF OneEntry, Entries
<1>6. Unfinished'
    BY <1>1, <1>2, <1>3 DEF Unfinished, Entries, OneEntry, HandlerHolds
<1>7. DiagsEnter'
    BY <1>1, <1>2, <1>3 DEF DiagsEnter, Entries
<1>8. HandlerHolds'
    BY <1>1, <1>2, <1>3 DEF HandlerHolds, InChild
<1>9. OneChildPlace' /\ Deceased' /\ InTable' /\ ExecutedOnce'
    BY <1>1, <1>2, <1>3 DEF OneChildPlace, Deceased, InTable, ExecutedOnce, InChild
<1> QED  BY <1>1, <1>2, <1>3, <1>4, <1>5, <1>6, <1>7, <1>8, <1>9 DEF ProcessInv

(* The reader ends.                                                        *)
LEMMA ReaderEndsKeeps ==
    ASSUME ProcessInv, ReaderEnds
    PROVE  ProcessInv'
<1> USE RequestAssumption, ProcessAssumption DEF ProcessInv, EngineTyped, RequestTypeOK,
   ReaderEnds, readerFrame, requestVars, childVars
<1>1. /\ SentIds' = SentIds /\ ChildPipe'
      /\ AnsweredIds' = AnsweredIds /\ ParentPipe'
      /\ ServedIds' = ServedIds
      /\ UnwrittenIds' = UnwrittenIds
    BY Frames
<1>2. EngineTyped'
    BY <1>1 DEF NoneOr, ProcessClients, Leases, Contexts
<1>3. Deceased'
    BY <1>1 DEF Deceased
<1>4. OneEntry'
    BY <1>1 DEF OneEntry, Entries
<1>5. OneChildPlace' /\ InTable' /\ Unfinished' /\ DiagsEnter' /\ HandlerHolds' /\
   ExecutedOnce'
    BY <1>1 DEF OneChildPlace, InTable, Unfinished, DiagsEnter, HandlerHolds, ExecutedOnce,
       InChild, Entries
<1> QED  BY <1>1, <1>2, <1>3, <1>4, <1>5 DEF ProcessInv

-----------------------------------------------------------------------------
(* The child's reader thread.                                              *)
LEMMA IntakeInvalidKeeps ==
    ASSUME ProcessInv, IntakeInvalid
    PROVE  ProcessInv'
<1> USE RequestAssumption, ProcessAssumption DEF ProcessInv, EngineTyped, RequestTypeOK,
   IntakeInvalid, Incoming, intakeFrame, requestVars, parentVars
<1>1. /\ ServedIds' = ServedIds
      /\ UnwrittenIds' = UnwrittenIds
    BY Frames
<1>2. SentIds' = SentIds \ {Head(toChild).id} /\ Head(toChild).id \in SentIds /\ Head(toChild).id \in Ids /\ ChildPipe'
    BY SentTail DEF Asking, SentIds
<1>3. AnsweredIds' = AnsweredIds \cup {Head(toChild).id} /\ ParentPipe' /\ toParent' # <<>>
    BY <1>2, AnsweredAppend DEF Answers, Responses, NoneOr
<1>4. OneChildPlace'
    BY <1>1, <1>2, <1>3 DEF OneChildPlace, InChild
<1>5. Deceased'
    BY <1>1, <1>2, <1>3 DEF Deceased
<1>6. InTable'
    BY <1>1, <1>2, <1>3 DEF InTable, InChild, OneChildPlace
<1>7. OneEntry'
    BY <1>1, <1>2, <1>3 DEF OneEntry, Entries
<1>8. HandlerHolds'
    BY <1>1, <1>2, <1>3 DEF HandlerHolds, InChild
<1>9. ExecutedOnce'
    BY <1>1, <1>2, <1>3 DEF ExecutedOnce
<1>10. EngineTyped' /\ Unfinished' /\ DiagsEnter'
    BY <1>1, <1>2, <1>3 DEF Unfinished, DiagsEnter, Entries
<1> QED  BY <1>1, <1>2, <1>3, <1>4, <1>5, <1>6, <1>7, <1>8, <1>9, <1>10 DEF ProcessInv

(* A command is queued, or refused as busy.                                *)
LEMMA IntakeCommandKeeps ==
    ASSUME ProcessInv, IntakeCommand
    PROVE  ProcessInv'
<1> USE RequestAssumption, ProcessAssumption DEF ProcessInv, EngineTyped, RequestTypeOK,
   IntakeCommand, Incoming, intakeFrame, requestVars, parentVars
<1>1. /\ ServedIds' = ServedIds
      /\ UnwrittenIds' = UnwrittenIds
    BY Frames
<1>2. SentIds' = SentIds \ {Head(toChild).id} /\ Head(toChild).id \in SentIds /\ Head(toChild).id \in Ids /\ ChildPipe'
    BY SentTail DEF Asking, SentIds
<1>3. /\ (ChildFull /\ AnsweredIds' = AnsweredIds \cup {Head(toChild).id} /\ toParent' # <<>>)
            \/ (~ChildFull /\ AnsweredIds' = AnsweredIds)
      /\ ParentPipe'
    <2>1. CASE ChildFull
        BY <1>2, <2>1, AnsweredAppend DEF Answers, Responses, NoneOr
    <2>2. CASE ~ChildFull
        BY <2>2, Frames
    <2> QED  BY <2>1, <2>2
<1>4. EngineTyped'
    BY <1>1, <1>2, <1>3 DEF NoneOr, ProcessClients, Leases, Contexts
<1>5. OneChildPlace'
    BY <1>1, <1>2, <1>3 DEF OneChildPlace, InChild
<1>6. Deceased'
    BY <1>1, <1>2, <1>3 DEF Deceased
<1>7. InTable'
    BY <1>1, <1>2, <1>3 DEF InTable, InChild, OneChildPlace
<1>8. OneEntry'
    BY <1>1, <1>2, <1>3 DEF OneEntry, Entries
<1>9. HandlerHolds'
    BY <1>1, <1>2, <1>3 DEF HandlerHolds, InChild
<1>10. ExecutedOnce'
    BY <1>1, <1>2, <1>3 DEF ExecutedOnce
<1>11. Unfinished' /\ DiagsEnter'
    BY <1>1, <1>2, <1>3 DEF Unfinished, DiagsEnter, Entries
<1> QED  BY <1>1, <1>2, <1>3, <1>4, <1>5, <1>6, <1>7, <1>8, <1>9, <1>10, <1>11 DEF ProcessInv

(* A cancel of a command the child has sets its event.                     *)
LEMMA IntakeCancelKeeps ==
    ASSUME ProcessInv, IntakeCancel
    PROVE  ProcessInv'
<1> USE RequestAssumption, ProcessAssumption DEF ProcessInv, EngineTyped, RequestTypeOK,
   IntakeCancel, Incoming, intakeFrame, requestVars, parentVars
<1>1. /\ AnsweredIds' = AnsweredIds /\ ParentPipe'
      /\ ServedIds' = ServedIds
      /\ UnwrittenIds' = UnwrittenIds
    BY Frames
<1>2. SentIds' = SentIds /\ ChildPipe'
    BY SentTail DEF Asking
<1>3. OneChildPlace'
    BY <1>1, <1>2 DEF OneChildPlace, InChild
<1>4. Deceased'
    BY <1>1, <1>2 DEF Deceased
<1>5. InTable'
    BY <1>1, <1>2 DEF InTable, InChild, OneChildPlace
<1>6. HandlerHolds'
    BY <1>1, <1>2 DEF HandlerHolds, InChild
<1>7. ExecutedOnce'
    BY <1>1, <1>2 DEF ExecutedOnce
<1>8. EngineTyped' /\ OneEntry' /\ Unfinished' /\ DiagsEnter'
    BY <1>1, <1>2 DEF OneEntry, Unfinished, DiagsEnter, Entries
<1> QED  BY <1>1, <1>2, <1>3, <1>4, <1>5, <1>6, <1>7, <1>8 DEF ProcessInv

(* A cancelled command that still waits is answered.                       *)
LEMMA CancelWaitingKeeps ==
    ASSUME ProcessInv, CancelWaiting
    PROVE  ProcessInv'
<1> USE RequestAssumption, ProcessAssumption DEF ProcessInv, EngineTyped, RequestTypeOK,
   CancelWaiting, intakeFrame, requestVars, parentVars
<1>1. /\ SentIds' = SentIds /\ ChildPipe'
      /\ ServedIds' = ServedIds
      /\ UnwrittenIds' = UnwrittenIds
    BY Frames
<1>2. /\ (cancelId \in cqueue /\ AnsweredIds' = AnsweredIds \cup {cancelId} /\ toParent' # <<>>)
            \/ (cancelId \notin cqueue /\ AnsweredIds' = AnsweredIds)
      /\ ParentPipe'
    <2>1. CASE cancelId \in cqueue
        BY <2>1, AnsweredAppend DEF Answers, Responses, NoneOr
    <2>2. CASE cancelId \notin cqueue
        BY <2>2, Frames
    <2> QED  BY <2>1, <2>2
<1>3. EngineTyped'
    BY <1>1, <1>2 DEF NoneOr, ProcessClients, Leases, Contexts
<1>4. OneChildPlace'
    BY <1>1, <1>2 DEF OneChildPlace, InChild
<1>5. Deceased'
    BY <1>1, <1>2 DEF Deceased
<1>6. InTable'
    BY <1>1, <1>2 DEF InTable, InChild, OneChildPlace
<1>7. OneEntry'
    BY <1>1, <1>2 DEF OneEntry, Entries
<1>8. HandlerHolds'
    BY <1>1, <1>2 DEF HandlerHolds, InChild
<1>9. ExecutedOnce'
    BY <1>1, <1>2 DEF ExecutedOnce
<1>10. Unfinished' /\ DiagsEnter'
    BY <1>1, <1>2 DEF Unfinished, DiagsEnter, Entries
<1> QED  BY <1>1, <1>2, <1>3, <1>4, <1>5, <1>6, <1>7, <1>8, <1>9, <1>10 DEF ProcessInv

(* The shutdown command.                                                   *)
LEMMA IntakeShutdownKeeps ==
    ASSUME ProcessInv, IntakeShutdown
    PROVE  ProcessInv'
<1> USE RequestAssumption, ProcessAssumption DEF ProcessInv, EngineTyped, RequestTypeOK,
   IntakeShutdown, Incoming, intakeFrame, requestVars, parentVars
<1>1. /\ AnsweredIds' = AnsweredIds /\ ParentPipe'
      /\ ServedIds' = ServedIds
      /\ UnwrittenIds' = UnwrittenIds
    BY Frames
<1>2. SentIds' = SentIds /\ ChildPipe'
    BY SentTail DEF Asking
<1>3. OneChildPlace'
    BY <1>1, <1>2 DEF OneChildPlace, InChild
<1>4. Deceased'
    BY <1>1, <1>2 DEF Deceased
<1>5. InTable'
    BY <1>1, <1>2 DEF InTable, InChild, OneChildPlace
<1>6. HandlerHolds'
    BY <1>1, <1>2 DEF HandlerHolds, InChild
<1>7. ExecutedOnce'
    BY <1>1, <1>2 DEF ExecutedOnce
<1>8. EngineTyped' /\ OneEntry' /\ Unfinished' /\ DiagsEnter'
    BY <1>1, <1>2 DEF OneEntry, Unfinished, DiagsEnter, Entries
<1> QED  BY <1>1, <1>2, <1>3, <1>4, <1>5, <1>6, <1>7, <1>8 DEF ProcessInv

(* The end of the queue is put.                                            *)
LEMMA IntakeStopsKeeps ==
    ASSUME ProcessInv, IntakeStops
    PROVE  ProcessInv'
<1> USE RequestAssumption, ProcessAssumption DEF ProcessInv, EngineTyped, RequestTypeOK,
   IntakeStops, intakeFrame, requestVars, parentVars
<1>1. /\ SentIds' = SentIds /\ ChildPipe'
      /\ AnsweredIds' = AnsweredIds /\ ParentPipe'
      /\ ServedIds' = ServedIds
      /\ UnwrittenIds' = UnwrittenIds
    BY Frames
<1>2. EngineTyped' /\ OneChildPlace' /\ Deceased' /\ InTable' /\ OneEntry' /\ Unfinished' /\
   DiagsEnter' /\ HandlerHolds' /\ ExecutedOnce'
    BY <1>1 DEF OneChildPlace, Deceased, InTable, OneEntry, Unfinished, DiagsEnter,
       HandlerHolds, ExecutedOnce, InChild, Entries
<1> QED  BY <1>1, <1>2 DEF ProcessInv

-----------------------------------------------------------------------------
(* The child's main thread.                                                *)
LEMMA MainStartsKeeps ==
    ASSUME ProcessInv, MainStarts
    PROVE  ProcessInv'
<1> USE RequestAssumption, ProcessAssumption DEF ProcessInv, EngineTyped, RequestTypeOK,
   MainStarts, mainFrame, requestVars, parentVars, mainQueue
<1>1. /\ SentIds' = SentIds /\ ChildPipe'
      /\ UnwrittenIds' = UnwrittenIds
    BY Frames
<1>2. AnsweredIds' = AnsweredIds /\ ParentPipe' /\ toParent' # <<>>
    BY AnsweredAppend DEF Answers, Responses, NoneOr
<1>3. ServedIds' = {} /\ ServedIds = {}
    BY DEF ServedIds
<1>4. EngineTyped'
    BY <1>1, <1>2, <1>3 DEF NoneOr, ProcessClients, Leases, Contexts
<1>5. OneChildPlace'
    BY <1>1, <1>2, <1>3 DEF OneChildPlace, InChild
<1>6. Deceased'
    BY <1>1, <1>2, <1>3 DEF Deceased
<1>7. InTable'
    BY <1>1, <1>2, <1>3 DEF InTable, InChild, OneChildPlace
<1>8. OneEntry'
    BY <1>1, <1>2, <1>3 DEF OneEntry, Entries
<1>9. HandlerHolds'
    BY <1>1, <1>2, <1>3 DEF HandlerHolds, InChild
<1>10. ExecutedOnce'
    BY <1>1, <1>2, <1>3 DEF ExecutedOnce
<1>11. Unfinished' /\ DiagsEnter'
    BY <1>1, <1>2, <1>3 DEF Unfinished, DiagsEnter, Entries
<1> QED  BY <1>1, <1>2, <1>3, <1>4, <1>5, <1>6, <1>7, <1>8, <1>9, <1>10, <1>11 DEF ProcessInv

(* A command is taken from the queue.                                      *)
LEMMA MainTakesKeeps ==
    ASSUME ProcessInv, NEW x \in Ids, MainTakes(x)
    PROVE  ProcessInv'
<1> USE RequestAssumption, ProcessAssumption DEF ProcessInv, EngineTyped, RequestTypeOK,
   MainTakes, mainFrame, requestVars, parentVars
<1>1. /\ SentIds' = SentIds /\ ChildPipe'
      /\ AnsweredIds' = AnsweredIds /\ ParentPipe'
      /\ UnwrittenIds' = UnwrittenIds
    BY Frames
<1>2. ServedIds' = {x} /\ ServedIds = {} /\ x \in cqueue
    BY DEF ServedIds, IsNext
<1>3. EngineTyped'
    BY <1>1, <1>2 DEF NoneOr, ProcessClients, Leases, Contexts
<1>4. OneChildPlace'
    BY <1>1, <1>2 DEF OneChildPlace, InChild
<1>5. Deceased'
    BY <1>1, <1>2 DEF Deceased
<1>6. InTable'
    BY <1>1, <1>2 DEF InTable, InChild, OneChildPlace
<1>7. HandlerHolds'
    BY <1>1, <1>2 DEF HandlerHolds, InChild
<1>8. ExecutedOnce'
    BY <1>1, <1>2 DEF ExecutedOnce
<1>9. OneEntry' /\ Unfinished' /\ DiagsEnter'
    BY <1>1, <1>2 DEF OneEntry, Unfinished, DiagsEnter, Entries
<1> QED  BY <1>1, <1>2, <1>3, <1>4, <1>5, <1>6, <1>7, <1>8, <1>9 DEF ProcessInv

(* The end of the queue is taken.                                          *)
LEMMA MainTakesNoneKeeps ==
    ASSUME ProcessInv, MainTakesNone
    PROVE  ProcessInv'
<1> USE RequestAssumption, ProcessAssumption DEF ProcessInv, EngineTyped, RequestTypeOK,
   MainTakesNone, mainFrame, requestVars, parentVars, mainQueue
<1>1. /\ SentIds' = SentIds /\ ChildPipe'
      /\ AnsweredIds' = AnsweredIds /\ ParentPipe'
      /\ UnwrittenIds' = UnwrittenIds
    BY Frames
<1>2. ServedIds' = {} /\ ServedIds = {}
    BY DEF ServedIds
<1>3. EngineTyped'
    BY <1>1, <1>2 DEF NoneOr, ProcessClients, Leases, Contexts
<1>4. OneChildPlace'
    BY <1>1, <1>2 DEF OneChildPlace, InChild
<1>5. Deceased'
    BY <1>1, <1>2 DEF Deceased
<1>6. InTable'
    BY <1>1, <1>2 DEF InTable, InChild, OneChildPlace
<1>7. HandlerHolds'
    BY <1>1, <1>2 DEF HandlerHolds, InChild
<1>8. ExecutedOnce'
    BY <1>1, <1>2 DEF ExecutedOnce
<1>9. OneEntry' /\ Unfinished' /\ DiagsEnter'
    BY <1>1, <1>2 DEF OneEntry, Unfinished, DiagsEnter, Entries
<1> QED  BY <1>1, <1>2, <1>3, <1>4, <1>5, <1>6, <1>7, <1>8, <1>9 DEF ProcessInv

(* Diagnostics are answered.                                               *)
LEMMA MainDiagnosesKeeps ==
    ASSUME ProcessInv, MainDiagnoses
    PROVE  ProcessInv'
<1> USE RequestAssumption, ProcessAssumption DEF ProcessInv, EngineTyped, RequestTypeOK,
   MainDiagnoses, mainFrame, requestVars, parentVars, mainQueue
<1>1. /\ SentIds' = SentIds /\ ChildPipe'
      /\ UnwrittenIds' = UnwrittenIds
    BY Frames
<1>2. ServedIds' = {} /\ ServedIds = {serving} /\ serving \in Ids
    BY DEF ServedIds, Ids
<1>3. AnsweredIds' = AnsweredIds \cup {serving} /\ ParentPipe' /\ toParent' # <<>>
    BY <1>2, AnsweredAppend DEF Answers, Responses, NoneOr
<1>4. EngineTyped'
    BY <1>1, <1>2, <1>3 DEF NoneOr, ProcessClients, Leases, Contexts
<1>5. OneChildPlace'
    BY <1>1, <1>2, <1>3 DEF OneChildPlace, InChild
<1>6. Deceased'
    BY <1>1, <1>2, <1>3 DEF Deceased
<1>7. InTable'
    BY <1>1, <1>2, <1>3 DEF InTable, InChild, OneChildPlace
<1>8. OneEntry'
    BY <1>1, <1>2, <1>3 DEF OneEntry, Entries
<1>9. HandlerHolds'
    BY <1>1, <1>2, <1>3 DEF HandlerHolds, InChild
<1>10. ExecutedOnce'
    BY <1>1, <1>2, <1>3 DEF ExecutedOnce
<1>11. Unfinished' /\ DiagsEnter'
    BY <1>1, <1>2, <1>3 DEF Unfinished, DiagsEnter, Entries
<1> QED  BY <1>1, <1>2, <1>3, <1>4, <1>5, <1>6, <1>7, <1>8, <1>9, <1>10, <1>11 DEF ProcessInv

(* A cancelled request is answered without a call.                         *)
LEMMA MainRejectsKeeps ==
    ASSUME ProcessInv, MainRejects
    PROVE  ProcessInv'
<1> USE RequestAssumption, ProcessAssumption DEF ProcessInv, EngineTyped, RequestTypeOK,
   MainRejects, mainFrame, requestVars, parentVars, mainQueue
<1>1. /\ SentIds' = SentIds /\ ChildPipe'
      /\ UnwrittenIds' = UnwrittenIds
    BY Frames
<1>2. ServedIds' = {} /\ ServedIds = {serving} /\ serving \in Ids
    BY DEF ServedIds, Ids
<1>3. AnsweredIds' = AnsweredIds \cup {serving} /\ ParentPipe' /\ toParent' # <<>>
    BY <1>2, AnsweredAppend DEF Answers, Responses, NoneOr
<1>4. EngineTyped'
    BY <1>1, <1>2, <1>3 DEF NoneOr, ProcessClients, Leases, Contexts
<1>5. OneChildPlace'
    BY <1>1, <1>2, <1>3 DEF OneChildPlace, InChild
<1>6. Deceased'
    BY <1>1, <1>2, <1>3 DEF Deceased
<1>7. InTable'
    BY <1>1, <1>2, <1>3 DEF InTable, InChild, OneChildPlace
<1>8. OneEntry'
    BY <1>1, <1>2, <1>3 DEF OneEntry, Entries
<1>9. HandlerHolds'
    BY <1>1, <1>2, <1>3 DEF HandlerHolds, InChild
<1>10. ExecutedOnce'
    BY <1>1, <1>2, <1>3 DEF ExecutedOnce
<1>11. Unfinished' /\ DiagsEnter'
    BY <1>1, <1>2, <1>3 DEF Unfinished, DiagsEnter, Entries
<1> QED  BY <1>1, <1>2, <1>3, <1>4, <1>5, <1>6, <1>7, <1>8, <1>9, <1>10, <1>11 DEF ProcessInv

(* The native call begins.                                                 *)
LEMMA MainCallsKeeps ==
    ASSUME ProcessInv, MainCalls
    PROVE  ProcessInv'
<1> USE RequestAssumption, ProcessAssumption DEF ProcessInv, EngineTyped, RequestTypeOK,
   MainCalls, mainFrame, requestVars, parentVars, mainQueue
<1>1. /\ SentIds' = SentIds /\ ChildPipe'
      /\ AnsweredIds' = AnsweredIds /\ ParentPipe'
      /\ UnwrittenIds' = UnwrittenIds
    BY Frames
<1>2. ServedIds' = ServedIds /\ ServedIds = {serving} /\ serving \in Ids
    BY DEF ServedIds, Ids
<1>3. EngineTyped'
    BY <1>1, <1>2 DEF NoneOr, ProcessClients, Leases, Contexts
<1>4. OneChildPlace'
    BY <1>1, <1>2 DEF OneChildPlace, InChild
<1>5. Deceased'
    BY <1>1, <1>2 DEF Deceased
<1>6. InTable'
    BY <1>1, <1>2 DEF InTable, InChild, OneChildPlace
<1>7. HandlerHolds'
    BY <1>1, <1>2 DEF HandlerHolds, InChild
<1>8. ExecutedOnce'
    BY <1>1, <1>2 DEF ExecutedOnce, OneChildPlace, InChild
<1>9. OneEntry' /\ Unfinished' /\ DiagsEnter'
    BY <1>1, <1>2 DEF OneEntry, Unfinished, DiagsEnter, Entries
<1> QED  BY <1>1, <1>2, <1>3, <1>4, <1>5, <1>6, <1>7, <1>8, <1>9 DEF ProcessInv

(* The native call ends and is answered.                                   *)
LEMMA MainReturnsKeeps ==
    ASSUME ProcessInv, MainReturns
    PROVE  ProcessInv'
<1> USE RequestAssumption, ProcessAssumption DEF ProcessInv, EngineTyped, RequestTypeOK,
   MainReturns, mainFrame, requestVars, parentVars, mainQueue
<1>1. /\ SentIds' = SentIds /\ ChildPipe'
      /\ UnwrittenIds' = UnwrittenIds
    BY Frames
<1>2. ServedIds' = {} /\ ServedIds = {serving} /\ serving \in Ids
    BY DEF ServedIds, Ids, ExecutedOnce
<1>3. AnsweredIds' = AnsweredIds \cup {serving} /\ ParentPipe' /\ toParent' # <<>>
    BY <1>2, AnsweredAppend DEF Answers, Responses, NoneOr
<1>4. EngineTyped'
    BY <1>1, <1>2, <1>3 DEF NoneOr, ProcessClients, Leases, Contexts
<1>5. OneChildPlace'
    BY <1>1, <1>2, <1>3 DEF OneChildPlace, InChild
<1>6. Deceased'
    BY <1>1, <1>2, <1>3 DEF Deceased
<1>7. InTable'
    BY <1>1, <1>2, <1>3 DEF InTable, InChild, OneChildPlace
<1>8. OneEntry'
    BY <1>1, <1>2, <1>3 DEF OneEntry, Entries
<1>9. HandlerHolds'
    BY <1>1, <1>2, <1>3 DEF HandlerHolds, InChild
<1>10. ExecutedOnce'
    BY <1>1, <1>2, <1>3 DEF ExecutedOnce
<1>11. Unfinished' /\ DiagsEnter'
    BY <1>1, <1>2, <1>3 DEF Unfinished, DiagsEnter, Entries
<1> QED  BY <1>1, <1>2, <1>3, <1>4, <1>5, <1>6, <1>7, <1>8, <1>9, <1>10, <1>11 DEF ProcessInv

(* The command is forgotten.                                               *)
LEMMA MainCleansKeeps ==
    ASSUME ProcessInv, MainCleans
    PROVE  ProcessInv'
<1> USE RequestAssumption, ProcessAssumption DEF ProcessInv, EngineTyped, RequestTypeOK,
   MainCleans, mainFrame, requestVars, parentVars
<1>1. /\ SentIds' = SentIds /\ ChildPipe'
      /\ AnsweredIds' = AnsweredIds /\ ParentPipe'
      /\ UnwrittenIds' = UnwrittenIds
    BY Frames
<1>2. ServedIds' = {} /\ ServedIds = {}
    BY DEF ServedIds
<1>3. EngineTyped'
    BY <1>1, <1>2 DEF NoneOr, ProcessClients, Leases, Contexts
<1>4. OneChildPlace'
    BY <1>1, <1>2 DEF OneChildPlace, InChild
<1>5. Deceased'
    BY <1>1, <1>2 DEF Deceased
<1>6. InTable'
    BY <1>1, <1>2 DEF InTable, InChild, OneChildPlace
<1>7. HandlerHolds'
    BY <1>1, <1>2 DEF HandlerHolds, InChild
<1>8. ExecutedOnce'
    BY <1>1, <1>2 DEF ExecutedOnce
<1>9. OneEntry' /\ Unfinished' /\ DiagsEnter'
    BY <1>1, <1>2 DEF OneEntry, Unfinished, DiagsEnter, Entries
<1> QED  BY <1>1, <1>2, <1>3, <1>4, <1>5, <1>6, <1>7, <1>8, <1>9 DEF ProcessInv

(* The child exits.                                                        *)
LEMMA MainExitsKeeps ==
    ASSUME ProcessInv, MainExits
    PROVE  ProcessInv'
<1> USE RequestAssumption, ProcessAssumption DEF ProcessInv, EngineTyped, RequestTypeOK,
   MainExits, Dead, requestVars, parentVars
<1>1. UnwrittenIds' = UnwrittenIds
    BY Frames
<1>2. /\ SentIds' = {} /\ ServedIds' = {} /\ ChildPipe'
      /\ AnsweredIds' = AnsweredIds /\ ParentPipe'
    BY DeadEffects
<1>3. ~alive' /\ cqueue' = {} /\ (main' = "dead")
    BY DEF Deceased
<1>4. EngineTyped'
    BY <1>1, <1>2, <1>3 DEF NoneOr, ProcessClients, Leases, Contexts
<1>5. OneChildPlace'
    BY <1>1, <1>2, <1>3 DEF OneChildPlace, InChild
<1>6. Deceased'
    BY <1>1, <1>2, <1>3 DEF Deceased
<1>7. InTable'
    BY <1>1, <1>2, <1>3 DEF InTable, InChild, OneChildPlace
<1>8. HandlerHolds'
    BY <1>1, <1>2, <1>3 DEF HandlerHolds, InChild
<1>9. ExecutedOnce'
    BY <1>1, <1>2, <1>3 DEF ExecutedOnce
<1>10. OneEntry' /\ Unfinished' /\ DiagsEnter'
    BY <1>1, <1>2, <1>3 DEF OneEntry, Unfinished, DiagsEnter, Entries
<1> QED  BY <1>1, <1>2, <1>3, <1>4, <1>5, <1>6, <1>7, <1>8, <1>9, <1>10 DEF ProcessInv

(* The child dies.                                                         *)
LEMMA CrashKeeps ==
    ASSUME ProcessInv, Crash
    PROVE  ProcessInv'
<1> USE RequestAssumption, ProcessAssumption DEF ProcessInv, EngineTyped, RequestTypeOK,
   Crash, Dead, requestVars, parentVars
<1>1. UnwrittenIds' = UnwrittenIds
    BY Frames
<1>2. /\ SentIds' = {} /\ ServedIds' = {} /\ ChildPipe'
      /\ AnsweredIds' = AnsweredIds /\ ParentPipe'
    BY DeadEffects
<1>3. ~alive' /\ cqueue' = {} /\ (main' = "dead")
    BY DEF Deceased
<1>4. EngineTyped'
    BY <1>1, <1>2, <1>3 DEF NoneOr, ProcessClients, Leases, Contexts
<1>5. OneChildPlace'
    BY <1>1, <1>2, <1>3 DEF OneChildPlace, InChild
<1>6. Deceased'
    BY <1>1, <1>2, <1>3 DEF Deceased
<1>7. InTable'
    BY <1>1, <1>2, <1>3 DEF InTable, InChild, OneChildPlace
<1>8. HandlerHolds'
    BY <1>1, <1>2, <1>3 DEF HandlerHolds, InChild
<1>9. ExecutedOnce'
    BY <1>1, <1>2, <1>3 DEF ExecutedOnce
<1>10. OneEntry' /\ Unfinished' /\ DiagsEnter'
    BY <1>1, <1>2, <1>3 DEF OneEntry, Unfinished, DiagsEnter, Entries
<1> QED  BY <1>1, <1>2, <1>3, <1>4, <1>5, <1>6, <1>7, <1>8, <1>9, <1>10 DEF ProcessInv

(* A line that is no response is printed.                                  *)
LEMMA BreakProtocolKeeps ==
    ASSUME ProcessInv, BreakProtocol
    PROVE  ProcessInv'
<1> USE RequestAssumption, ProcessAssumption DEF ProcessInv, EngineTyped, RequestTypeOK,
   BreakProtocol, requestVars, parentVars, childVars
<1>1. /\ SentIds' = SentIds /\ ChildPipe'
      /\ ServedIds' = ServedIds
      /\ UnwrittenIds' = UnwrittenIds
    BY Frames
<1>2. AnsweredIds' = AnsweredIds /\ ParentPipe' /\ toParent' # <<>>
    BY AnsweredAppend DEF Answers, Responses, NoneOr
<1>3. OneChildPlace'
    BY <1>1, <1>2 DEF OneChildPlace, InChild
<1>4. OneEntry'
    BY <1>1, <1>2 DEF OneEntry, Entries
<1>5. EngineTyped' /\ Deceased' /\ InTable' /\ Unfinished' /\ DiagsEnter' /\ HandlerHolds'
   /\ ExecutedOnce'
    BY <1>1, <1>2 DEF Deceased, InTable, Unfinished, DiagsEnter, HandlerHolds, ExecutedOnce,
       InChild, Entries
<1> QED  BY <1>1, <1>2, <1>3, <1>4, <1>5 DEF ProcessInv
-----------------------------------------------------------------------------
(* Nothing has been sent and nobody has begun.                             *)
LEMMA EngineStarts ==
    ASSUME ProcessInit
    PROVE  ProcessInv
<1> USE RequestAssumption, ProcessAssumption DEF ProcessInit, RequestInit
<1>1. EngineTyped
    BY DEF EngineTyped, RequestTypeOK, Leases, Contexts, ProcessClients, NoneOr
<1>2. ChildPipe /\ ParentPipe
    BY DEF ChildPipe, ParentPipe
<1>3. SentIds = {} /\ AnsweredIds = {} /\ ServedIds = {}
    BY DEF SentIds, AnsweredIds, ServedIds
<1>4. OneChildPlace /\ Deceased /\ InTable
    BY <1>3 DEF OneChildPlace, Deceased, InTable, InChild
<1>5. OneEntry /\ Unfinished /\ DiagsEnter
    BY DEF OneEntry, Unfinished, DiagsEnter, Entries, Ids
<1>6. HandlerHolds /\ ExecutedOnce
    BY <1>3 DEF HandlerHolds, ExecutedOnce, InChild
<1> QED  BY <1>1, <1>2, <1>4, <1>5, <1>6 DEF ProcessInv

(* A step that changes nothing keeps the invariant.                        *)
LEMMA EngineStutters ==
    ASSUME ProcessInv, UNCHANGED procVars
    PROVE  ProcessInv'
<1> USE DEF ProcessInv, procVars, requestVars, processVars, parentVars, childVars
<1>1. /\ SentIds' = SentIds /\ ChildPipe' /\ AnsweredIds' = AnsweredIds /\ ParentPipe'
      /\ ServedIds' = ServedIds /\ UnwrittenIds' = UnwrittenIds
    BY Frames
<1>2. EngineTyped'
    BY DEF EngineTyped, RequestTypeOK
<1>3. OneChildPlace' /\ Deceased' /\ InTable' /\ HandlerHolds' /\ ExecutedOnce'
    BY <1>1 DEF OneChildPlace, Deceased, InTable, HandlerHolds, ExecutedOnce, InChild
<1>4. OneEntry' /\ Unfinished' /\ DiagsEnter'
    BY DEF OneEntry, Unfinished, DiagsEnter, Entries
<1> QED  BY <1>1, <1>2, <1>3, <1>4

(* Every step of both processes keeps it.                                  *)
LEMMA EngineKeeps ==
    ASSUME ProcessInv, [ProcessNext]_procVars
    PROVE  ProcessInv'
<1>1. ASSUME NEW r \in Requests, ProcessAdmit(r) \/ ProcessInterrupt(r) \/ HandlerStep(r)
      PROVE  ProcessInv'
    BY <1>1, ProcessAdmitKeeps, ProcessInterruptKeeps, RefuseRequestKeeps, EnterRequestKeeps,
       RegisterKeeps, WriteRequestKeeps, WriteBreaksKeeps, WriteRejectedKeeps,
       RaiseRejectedKeeps, ProcessAnsweredKeeps, ProcessObserveCancelledKeeps,
       CancelRequestKeeps
    DEF HandlerStep
<1>2. ASSUME NEW d \in Diags, DiagEnter(d) \/ DiagnosticsStep(d)
      PROVE  ProcessInv'
    BY <1>2, DiagEnterKeeps, DiagRegisterKeeps, DiagWriteKeeps, DiagAnsweredKeeps,
       DiagTimesOutKeeps, DiagCancelKeeps
    DEF DiagnosticsStep
<1>3. CASE ProcessBuilt \/ StartupFails \/ ProcessCloseStart \/ ProcessCloserStep
    BY <1>3, ProcessBuiltKeeps, StartupFailsKeeps, ProcessCloseStartKeeps, CloseWritesKeeps,
       CloseWaitsKeeps, CloseTakesPendingKeeps, CloseFailsKeeps, ProcessCloseEndKeeps
    DEF ProcessCloserStep
<1>4. CASE ReaderStep
    BY <1>4, ReadReadyKeeps, ReadAnswerKeeps, FinishAnswerKeeps, ReadEndsKeeps, ReapKeeps,
       ReaderTakesPendingKeeps, ReaderFailsEntryKeeps, ReaderEndsKeeps
    DEF ReaderStep
<1>5. CASE IntakeStep
    BY <1>5, IntakeInvalidKeeps, IntakeCommandKeeps, IntakeCancelKeeps, CancelWaitingKeeps,
       IntakeShutdownKeeps, IntakeStopsKeeps
    DEF IntakeStep
<1>6. CASE MainStep
    BY <1>6, MainStartsKeeps, MainTakesKeeps, MainTakesNoneKeeps, MainDiagnosesKeeps,
       MainRejectsKeeps, MainCallsKeeps, MainReturnsKeeps, MainCleansKeeps, MainExitsKeeps
    DEF MainStep
<1>7. CASE Crash \/ BreakProtocol
    BY <1>7, CrashKeeps, BreakProtocolKeeps
<1>8. CASE UNCHANGED procVars
    BY <1>8, EngineStutters
<1> QED  BY <1>1, <1>2, <1>3, <1>4, <1>5, <1>6, <1>7, <1>8 DEF ProcessNext

(* The inductive invariant of the child-process engine holds in every      *)
(* state, for any number of requests, diagnostics and table entries, and   *)
(* whenever the child dies.                                                *)
THEOREM ProcessSafety == ProcessSpec => []ProcessInv
<1>1. ProcessInit => ProcessInv
    BY EngineStarts
<1>2. ProcessInv /\ [ProcessNext]_procVars => ProcessInv'
    BY EngineKeeps
<1> QED  BY <1>1, <1>2, PTL DEF ProcessSpec

(* Whatever the living child has not answered is in the parent's table.    *)
THEOREM ProcessChildWithinTable == ProcessSpec => []ChildWithinTable
<1>1. ProcessInv => ChildWithinTable
    <2> SUFFICES ASSUME ProcessInv, alive
                 PROVE  /\ cqueue \subseteq pending
                        /\ main \in {"took", "executing"} => serving \in pending
                        /\ \A i \in 1 .. Len(toChild) :
                              toChild[i].kind \in {"request", "diagnostics"} =>
                                  toChild[i].id \in pending
        BY DEF ChildWithinTable
    <2>1. InChild \subseteq pending
        BY DEF ProcessInv, InTable
    <2>2. cqueue \subseteq pending
        BY <2>1 DEF InChild
    <2>3. ASSUME main \in {"took", "executing"} PROVE serving \in pending
        <3>1. serving \in Ids
            BY <2>3 DEF ProcessInv, EngineTyped, ExecutedOnce, Ids
        <3> QED  BY <2>1, <2>3, <3>1 DEF InChild, ServedIds
    <2>4. ASSUME NEW i \in 1 .. Len(toChild), toChild[i].kind \in {"request", "diagnostics"}
          PROVE  toChild[i].id \in pending
        <3>1. toChild[i].id \in SentIds
            BY <2>4 DEF ProcessInv, ChildPipe, SentIds, Asking
        <3> QED  BY <2>1, <3>1 DEF InChild
    <2> QED  BY <2>2, <2>3, <2>4
<1> QED  BY <1>1, ProcessSafety, PTL

(* A response, a dying child, close() and a rejected write never finish    *)
(* the same entry twice.                                                   *)
THEOREM ProcessFinishesOnce == ProcessSpec => []FinishedOnce
<1>1. ProcessInv => FinishedOnce
    BY DEF ProcessInv, Unfinished, FinishedOnce
<1> QED  BY <1>1, ProcessSafety, PTL

-----------------------------------------------------------------------------
(* The refinement.  A step is judged by what it does to the lease and to   *)
(* the execution of each request.                                          *)
LeaseStep == ProcessLease!LeaseNext \/ UNCHANGED <<lease, ProcessExecution>>

(* A step that leaves the main thread alone changes no execution, nor does *)
(* one outside a native call.                                              *)
LEMMA SameExecution ==
    ASSUME executed' = executed,
           \/ main' = main /\ serving' = serving
           \/ main # "executing" /\ main' # "executing"
    PROVE  ProcessExecution' = ProcessExecution
BY DEF ProcessExecution

(* A request that is not in the child is not running.                      *)
LEMMA OutsideNotRunning ==
    ASSUME ProcessInv, NEW r \in Requests, r \notin InChild
    PROVE  ProcessExecution[r] # "running"
BY DEF ProcessExecution, InChild, ServedIds, Ids

(* Giving back a lease outside a native call is a Return.                  *)
LEMMA ReturnSteps ==
    ASSUME NEW r \in Requests, lease[r] = "held", ProcessExecution[r] # "running",
           lease' = [lease EXCEPT ![r] = "released"], ProcessExecution' = ProcessExecution
    PROVE  LeaseStep
BY DEF LeaseStep, ProcessLease!LeaseNext, ProcessLease!Return

(* finish() of an entry outside the child gives back the lease of a        *)
(* request that left, and nothing otherwise.                               *)
LEMMA FinishSteps ==
    ASSUME ProcessInv, NEW x \in Ids, NEW outcome, FinishEntry(x, outcome), x \notin InChild,
           ProcessExecution' = ProcessExecution
    PROVE  LeaseStep
<1>1. CASE x \in Requests /\ x \in watching
    BY <1>1, OutsideNotRunning, ReturnSteps
    DEF ProcessInv, HandlerHolds, Finish, FinishEntry
<1>2. CASE ~(x \in Requests /\ x \in watching)
    BY <1>2 DEF Finish, FinishEntry, LeaseStep, requestVars
<1> QED  BY <1>1, <1>2

(* The death of the child ends the native call that ran in it.             *)
LEMMA DeathSteps ==
    ASSUME ProcessInv, Dead, lease' = lease
    PROVE  LeaseStep
<1>1. CASE main = "executing"
    <2>1. serving \in Requests /\ ProcessExecution[serving] = "running" /\ serving \in executed
        BY <1>1 DEF ProcessInv, EngineTyped, ExecutedOnce, ProcessExecution
    <2>2. ProcessExecution' = [ProcessExecution EXCEPT ![serving] = "over"]
        BY <1>1, <2>1 DEF Dead, ProcessExecution
    <2> QED  BY <2>1, <2>2 DEF LeaseStep, ProcessLease!LeaseNext, ProcessLease!End
<1>2. CASE main # "executing"
    BY <1>2, SameExecution DEF Dead, LeaseStep
<1> QED  BY <1>1, <1>2

(* The steps of the handlers: a lease is granted on admission and goes     *)
(* back when its request is refused, answered, or left after its finish(). *)
LEMMA HandlerRefines ==
    ASSUME ProcessInv, NEW r \in Requests,
           ProcessAdmit(r) \/ ProcessInterrupt(r) \/ HandlerStep(r)
    PROVE  LeaseStep
<1>1. ProcessExecution' = ProcessExecution
    BY SameExecution DEF ProcessAdmit, ProcessInterrupt, HandlerStep, RefuseRequest,
       EnterRequest, Register, WriteRequest, WriteBreaks, WriteRejected, RaiseRejected,
       ProcessAnswered, ProcessObserveCancelled, CancelRequest, processVars, childVars
<1>2. CASE ProcessAdmit(r)
    BY <1>1, <1>2 DEF ProcessAdmit, Admit, ProcessInv, HandlerHolds, LeaseStep,
       ProcessLease!LeaseNext, ProcessLease!Grant
<1>3. ASSUME client[r] \in {"admitted", "entered", "registered", "rejecting"}
      PROVE  r \notin InChild
    BY <1>3 DEF ProcessInv, OneChildPlace, UnwrittenIds
<1>4. ASSUME finished[r] # 0 PROVE r \notin InChild
    BY <1>4, FinishedOutside
<1>5. client[r] \notin {"idle", "left"} => lease[r] = "held"
    BY DEF ProcessInv, HandlerHolds
<1>6. ASSUME Leave(r), r \notin InChild, client[r] \notin {"idle", "left"}
      PROVE  LeaseStep
    BY <1>1, <1>5, <1>6, OutsideNotRunning, ReturnSteps DEF Leave
<1>7. ASSUME NEW pc, Step(r, pc)
      PROVE  LeaseStep
    BY <1>1, <1>7 DEF Step, LeaseStep
<1>8. CASE RefuseRequest(r) \/ EnterRequest(r) \/ Register(r) \/ WriteBreaks(r)
    BY <1>3, <1>6, <1>7, <1>8 DEF RefuseRequest, EnterRequest, Register, WriteBreaks
<1>9. CASE WriteRequest(r) \/ WriteRejected(r) \/ ProcessObserveCancelled(r)
    BY <1>3, <1>6, <1>7, <1>9 DEF WriteRequest, WriteRejected, ProcessObserveCancelled
<1>10. CASE RaiseRejected(r)
    BY <1>1, <1>3, <1>5, <1>10, OutsideNotRunning, ReturnSteps DEF RaiseRejected
<1>11. CASE ProcessAnswered(r)
    <2>1. finished[r] # 0
        BY <1>11 DEF ProcessAnswered, ProcessInv, EngineTyped, RequestTypeOK
    <2> QED  BY <1>4, <1>6, <1>7, <1>11, <2>1 DEF ProcessAnswered
<1>12. CASE CancelRequest(r)
    <2>1. CASE client[r] = "withdrawing" /\ Leave(r)
        BY <1>4, <1>6, <2>1 DEF ProcessInv, Unfinished
    <2>2. CASE client[r] = "cancelling" /\ LeaveOnCompletion(r)
        <3>1. CASE finished[r] > 0
            <4>1. finished[r] # 0
                BY <3>1 DEF ProcessInv, EngineTyped, RequestTypeOK
            <4> QED  BY <1>1, <1>4, <1>5, <2>2, <3>1, <4>1, OutsideNotRunning, ReturnSteps
                     DEF LeaveOnCompletion
        <3>2. CASE ~(finished[r] > 0)
            BY <1>1, <2>2, <3>2 DEF LeaveOnCompletion, LeaseStep
        <3> QED  BY <3>1, <3>2
    <2>3. CASE client[r] = "cancelling" /\ stdinClosed /\ Leave(r)
        BY <1>6, <2>3, DeadHoldsNothing DEF ProcessInv, Deceased
    <2> QED  BY <1>12, <2>1, <2>2, <2>3 DEF CancelRequest
<1>13. CASE ProcessInterrupt(r)
    BY <1>1, <1>13 DEF ProcessInterrupt, Interrupt, LeaseStep
<1> QED  BY <1>2, <1>8, <1>9, <1>10, <1>11, <1>12, <1>13 DEF HandlerStep

(* diagnostics() and the constructor touch no lease.                       *)
LEMMA CallersRefine ==
    ASSUME \/ \E d \in Diags : DiagEnter(d) \/ DiagnosticsStep(d)
           \/ ProcessBuilt \/ StartupFails
    PROVE  LeaseStep
<1>1. ProcessExecution' = ProcessExecution
    BY SameExecution DEF DiagEnter, DiagnosticsStep, DiagRegister, DiagWrite, DiagAnswered,
       DiagTimesOut, DiagCancel, ProcessBuilt, StartupFails, constructorFrame, childVars
<1>2. lease' = lease
    BY DEF DiagEnter, DiagnosticsStep, DiagRegister, DiagWrite, DiagAnswered,
       DiagTimesOut, DiagCancel, ProcessBuilt, StartupFails, constructorFrame, requestVars
<1> QED  BY <1>1, <1>2 DEF LeaseStep

(* close() gives leases back only after the child is dead.                 *)
LEMMA CloserRefines ==
    ASSUME ProcessInv, ProcessCloseStart \/ ProcessCloserStep
    PROVE  LeaseStep
<1>1. CASE \/ ProcessCloseStart \/ CloseWrites \/ CloseTakesPending \/ ProcessCloseEnd
           \/ (CloseWaits /\ ~alive)
    <2>1. ProcessExecution' = ProcessExecution /\ lease' = lease
        BY <1>1, SameExecution DEF ProcessCloseStart, CloseWrites, CloseTakesPending,
           ProcessCloseEnd, CloseWaits, requestVars, childVars
    <2> QED  BY <2>1 DEF LeaseStep
<1>2. CASE CloseWaits /\ alive
    BY <1>2, DeathSteps DEF CloseWaits, requestVars
<1>3. ASSUME NEW x \in Ids, CloseFails(x)
      PROVE  LeaseStep
    <2>1. x \notin InChild
        BY <1>3, DeadHoldsNothing DEF CloseFails, ProcessInv, Deceased
    <2>2. ProcessExecution' = ProcessExecution
        BY <1>3, SameExecution DEF CloseFails, childVars
    <2> QED  BY <1>3, <2>1, <2>2, FinishSteps DEF CloseFails
<1> QED  BY <1>1, <1>2, <1>3 DEF ProcessCloserStep

(* The reader gives a lease back for an answer of the child, or once the   *)
(* child is dead.                                                          *)
LEMMA ReaderRefines ==
    ASSUME ProcessInv, ReaderStep
    PROVE  LeaseStep
<1>1. CASE \/ ReadReady \/ ReadAnswer \/ ReadEnds \/ ReaderTakesPending \/ ReaderEnds
           \/ (Reap /\ ~alive)
    <2>1. ProcessExecution' = ProcessExecution /\ lease' = lease
        BY <1>1, SameExecution DEF ReadReady, ReadAnswer, ReadEnds, ReaderTakesPending,
           ReaderEnds, Reap, readerFrame, requestVars, childVars
    <2> QED  BY <2>1 DEF LeaseStep
<1>2. CASE Reap /\ alive
    BY <1>2, DeathSteps DEF Reap, readerFrame, requestVars
<1>3. CASE FinishAnswer
    <2>1. answering \in Ids /\ answering \notin InChild
        <3>1. answering \in Ids /\ answering \notin pending
            BY <1>3 DEF FinishAnswer, ProcessInv, OneEntry
        <3>2. CASE alive
            BY <3>1, <3>2 DEF ProcessInv, InTable
        <3>3. CASE ~alive
            BY <3>1, <3>3, DeadHoldsNothing
        <3> QED  BY <3>1, <3>2, <3>3
    <2>2. ProcessExecution' = ProcessExecution
        BY <1>3, SameExecution DEF FinishAnswer, childVars
    <2> QED  BY <1>3, <2>1, <2>2, FinishSteps DEF FinishAnswer
<1>4. ASSUME NEW x \in Ids, ReaderFailsEntry(x)
      PROVE  LeaseStep
    <2>1. x \notin InChild
        BY <1>4, DeadHoldsNothing DEF ReaderFailsEntry, ProcessInv, Deceased
    <2>2. ProcessExecution' = ProcessExecution
        BY <1>4, SameExecution DEF ReaderFailsEntry, childVars
    <2> QED  BY <1>4, <2>1, <2>2, FinishSteps DEF ReaderFailsEntry
<1> QED  BY <1>1, <1>2, <1>3, <1>4 DEF ReaderStep

(* The child: the call of the command it took is a Begin, the return of    *)
(* the call or the death of the process an End.                            *)
LEMMA ChildRefines ==
    ASSUME ProcessInv, IntakeStep \/ MainStep \/ Crash \/ BreakProtocol
    PROVE  LeaseStep
<1>1. CASE IntakeStep \/ BreakProtocol
    <2>1. ProcessExecution' = ProcessExecution /\ lease' = lease
        BY <1>1, SameExecution DEF IntakeStep, IntakeInvalid, IntakeCommand, IntakeCancel,
           CancelWaiting, IntakeShutdown, IntakeStops, BreakProtocol, intakeFrame, requestVars,
           childVars
    <2> QED  BY <2>1 DEF LeaseStep
<1>2. CASE \/ MainStarts \/ MainTakesNone \/ MainDiagnoses \/ MainRejects \/ MainCleans
           \/ \E x \in Ids : MainTakes(x)
    <2>1. ProcessExecution' = ProcessExecution /\ lease' = lease
        BY <1>2, SameExecution DEF MainStarts, MainTakesNone, MainDiagnoses, MainRejects,
           MainCleans, MainTakes, mainFrame, requestVars
    <2> QED  BY <2>1 DEF LeaseStep
<1>3. CASE MainCalls
    <2>1. serving \in Requests /\ serving \in InChild /\ serving \notin executed
        BY <1>3 DEF MainCalls, ProcessInv, ExecutedOnce, InChild, ServedIds, Ids
    <2>2. lease[serving] = "held"
        BY <2>1 DEF ProcessInv, HandlerHolds
    <2>3. ProcessExecution[serving] = "none"
        BY <1>3, <2>1 DEF MainCalls, ProcessExecution
    <2>4. ProcessExecution' = [ProcessExecution EXCEPT ![serving] = "running"]
        BY <1>3, <2>1 DEF MainCalls, ProcessExecution
    <2>5. lease' = lease
        BY <1>3 DEF MainCalls, mainFrame, requestVars
    <2> QED  BY <2>1, <2>2, <2>3, <2>4, <2>5
             DEF LeaseStep, ProcessLease!LeaseNext, ProcessLease!Begin
<1>4. CASE MainReturns
    <2>1. serving \in Requests /\ ProcessExecution[serving] = "running" /\ serving \in executed
        BY <1>4 DEF MainReturns, ProcessInv, EngineTyped, ExecutedOnce, ProcessExecution
    <2>2. ProcessExecution' = [ProcessExecution EXCEPT ![serving] = "over"]
        BY <1>4, <2>1 DEF MainReturns, ProcessExecution
    <2>3. lease' = lease
        BY <1>4 DEF MainReturns, mainFrame, requestVars
    <2> QED  BY <2>1, <2>2, <2>3 DEF LeaseStep, ProcessLease!LeaseNext, ProcessLease!End
<1>5. CASE MainExits \/ Crash
    BY <1>5, DeathSteps DEF MainExits, Crash, requestVars
<1> QED  BY <1>1, <1>2, <1>3, <1>4, <1>5 DEF MainStep

(* Every step of the engine is a step of the lease, or changes neither a   *)
(* lease nor an execution.                                                 *)
LEMMA EngineRefines ==
    ASSUME ProcessInv, [ProcessNext]_procVars
    PROVE  LeaseStep
<1>1. CASE UNCHANGED procVars
    BY <1>1, SameExecution DEF procVars, requestVars, processVars, childVars, LeaseStep
<1>2. CASE ProcessNext
    BY <1>2, HandlerRefines, CallersRefine, CloserRefines, ReaderRefines, ChildRefines
    DEF ProcessNext
<1> QED  BY <1>1, <1>2

(* The child-process engine implements the lease across two processes:     *)
(* whatever is cancelled, answered, lost with a dead child or failed by    *)
(* close(), a lease goes back once, never while the child may execute its  *)
(* request, and no call begins without one.                                *)
THEOREM ProcessRefinesLease == ProcessSpec => ProcessKeepsLease
<1>1. ProcessInit => ProcessLease!LeaseInit
    BY DEF ProcessInit, RequestInit, ProcessLease!LeaseInit, ProcessExecution
<1>2. ProcessInv /\ [ProcessNext]_procVars => [ProcessLease!LeaseNext]_(ProcessLease!leaseVars)
    BY EngineRefines DEF LeaseStep, ProcessLease!leaseVars
<1> QED  BY <1>1, <1>2, ProcessSafety, PTL DEF ProcessSpec, ProcessKeepsLease,
            ProcessLease!LeaseSpec
=============================================================================
