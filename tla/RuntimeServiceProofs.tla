------------------------- MODULE RuntimeServiceProofs -------------------------
(***************************************************************************)
(* What the service installs at safe points, for any number of requests,   *)
(* installers, readers and items.  Four layers, each inductive on top of   *)
(* the ones before: types and the place of each thread; the owner of the   *)
(* policy lock; the pinned tuning and the pending dispatcher; and, where   *)
(* no placement plan expires, the pending tuning.                          *)
(***************************************************************************)
EXTENDS RuntimeService, TLAPS

-----------------------------------------------------------------------------
(* Where each kind of thread can be, and what a completion has read.       *)
RequestStates == Applying \cup
    {"idle", "admitted", "opening", "headers", "serving", "released",
     "deferred", "done"}
Roles ==
    /\ \A r \in Requests : pc[r] \in RequestStates
    /\ \A x \in Installers : pc[x] \in {"idle", "announced", "installing", "done"}
    /\ \A m \in Monitors : pc[m] \in {"idle", "reported", "resizing", "deferring"}
    /\ \A x \in Readers : pc[x] \in {"idle", "holding"}
TakenOK ==
    \A r \in Requests : /\ pc[r] = "placement" => taken[r] \in Placements
                        /\ pc[r] = "elastic" => taken[r] \in Levels
ServicePlaces == TypeOK /\ Roles /\ TakenOK

(* Every step keeps the types and the threads where they belong.           *)
LEMMA PlacesStep == ServicePlaces /\ [Next]_vars => ServicePlaces'
<1> SUFFICES ASSUME ServicePlaces, [Next]_vars PROVE ServicePlaces'
  OBVIOUS
<1> USE ServiceAssumption DEF Go, ServicePlaces, TypeOK, Roles, TakenOK,
    RequestStates, Procs, Tasks, States, SafePoint, Applying, lockVars,
    requestVars, tuningVars, dispatchVars, placeVars, planVars, elasticVars,
    reportVars
<1>1. ASSUME NEW r \in Requests, Admit(r) PROVE ServicePlaces'
  BY <1>1 DEF Admit
<1>2. ASSUME NEW r \in Requests, Stamp(r) PROVE ServicePlaces'
  BY <1>2 DEF Stamp
<1>3. ASSUME NEW r \in Requests, OpenStream(r) PROVE ServicePlaces'
  BY <1>3 DEF OpenStream
<1>4. ASSUME NEW r \in Requests, SendHeaders(r) PROVE ServicePlaces'
  BY <1>4 DEF SendHeaders
<1>5. ASSUME NEW r \in Requests, HeadersFail(r) PROVE ServicePlaces'
  BY <1>5 DEF HeadersFail
<1>6. ASSUME NEW r \in Requests, Release(r) PROVE ServicePlaces'
  BY <1>6 DEF Release
<1>7. ASSUME NEW r \in Requests, Complete(r) PROVE ServicePlaces'
  BY <1>7 DEF Complete, EnterSafePoint
<1>8. ASSUME NEW r \in Requests, ApplyDispatcher(r) PROVE ServicePlaces'
  BY <1>8 DEF ApplyDispatcher
<1>9. ASSUME NEW r \in Requests, ReadPlacement(r) PROVE ServicePlaces'
  BY <1>9 DEF ReadPlacement
<1>10. ASSUME NEW r \in Requests, ApplyPlacement(r) PROVE ServicePlaces'
  BY <1>10 DEF ApplyPlacement
<1>11. ASSUME NEW r \in Requests, ApplyPlacementRaises(r) PROVE ServicePlaces'
  BY <1>11 DEF ApplyPlacementRaises
<1>12. ASSUME NEW r \in Requests, ApplyTuning(r) PROVE ServicePlaces'
  BY <1>12 DEF ApplyTuning
<1>13. ASSUME NEW r \in Requests, ReadElastic(r) PROVE ServicePlaces'
  BY <1>13 DEF ReadElastic
<1>14. ASSUME NEW r \in Requests, ApplyElastic(r) PROVE ServicePlaces'
  BY <1>14 DEF ApplyElastic
<1>15. ASSUME NEW r \in Requests, ApplyPlan(r) PROVE ServicePlaces'
  BY <1>15 DEF ApplyPlan, ActivatePending
<1>16. ASSUME NEW r \in Requests, DeferredPlan(r) PROVE ServicePlaces'
  BY <1>16 DEF DeferredPlan, ActivatePending
<1>17. ASSUME NEW x \in Installers, Announce(x) PROVE ServicePlaces'
  BY <1>17 DEF Announce, Pend
<1>18. ASSUME NEW x \in Installers, TryInstall(x) PROVE ServicePlaces'
  BY <1>18 DEF TryInstall, EnterSafePoint
<1>19. ASSUME NEW x \in Installers, Install(x) PROVE ServicePlaces'
  BY <1>19 DEF Install
<1>20. ASSUME NEW x \in Installers, InstallRaises(x) PROVE ServicePlaces'
  BY <1>20 DEF InstallRaises
<1>21. ASSUME NEW m \in Monitors, Report(m) PROVE ServicePlaces'
  BY <1>21 DEF Report
<1>22. ASSUME NEW m \in Monitors, TryResize(m) PROVE ServicePlaces'
  BY <1>22 DEF TryResize, EnterSafePoint
<1>23. ASSUME NEW m \in Monitors, Resize(m) PROVE ServicePlaces'
  BY <1>23 DEF Resize
<1>24. ASSUME NEW m \in Monitors, DeferPressure(m) PROVE ServicePlaces'
  BY <1>24 DEF DeferPressure
<1>25. ASSUME NEW x \in Readers, HoldService(x) PROVE ServicePlaces'
  BY <1>25 DEF HoldService
<1>26. ASSUME NEW x \in Readers, UseScheduler(x) PROVE ServicePlaces'
  BY <1>26 DEF UseScheduler
<1>27. ASSUME NEW p \in Placements, Expire(p) PROVE ServicePlaces'
  BY <1>27 DEF Expire
<1>28. ASSUME NEW p \in Plans, RequestPlan(p) PROVE ServicePlaces'
  BY <1>28 DEF RequestPlan
<1>29. CASE UNCHANGED vars
  BY <1>29 DEF vars
<1> QED
  BY <1>1, <1>2, <1>3, <1>4, <1>5, <1>6, <1>7, <1>8, <1>9, <1>10, <1>11, <1>12,
      <1>13, <1>14, <1>15, <1>16, <1>17, <1>18, <1>19, <1>20, <1>21, <1>22,
      <1>23, <1>24, <1>25, <1>26, <1>27, <1>28, <1>29
  DEF Next, RequestStep, InstallStep, MonitorStep

-----------------------------------------------------------------------------
(* The policy lock belongs to the thread that is at a safe point, and      *)
(* nothing is active while somebody has it.                                *)
SafePointGuarded ==
    /\ \A x \in Procs : pc[x] \in SafePoint <=> pol = x
    /\ pol # None => active = {}

(* The lock is taken only where nothing is active and admissions need it.  *)
LEMMA GuardStep ==
  ServicePlaces /\ SafePointGuarded /\ [Next]_vars => SafePointGuarded'
<1> SUFFICES ASSUME ServicePlaces, SafePointGuarded, [Next]_vars
             PROVE  SafePointGuarded'
  OBVIOUS
<1> USE ServiceAssumption DEF Go, SafePointGuarded, ServicePlaces, TypeOK,
    Roles, TakenOK, RequestStates, Procs, Tasks, States, SafePoint, Applying,
    lockVars, requestVars, tuningVars, dispatchVars, placeVars, planVars,
    elasticVars, reportVars
<1>1. ASSUME NEW r \in Requests, Admit(r) PROVE SafePointGuarded'
  BY <1>1 DEF Admit
<1>2. ASSUME NEW r \in Requests, Stamp(r) PROVE SafePointGuarded'
  BY <1>2 DEF Stamp
<1>3. ASSUME NEW r \in Requests, OpenStream(r) PROVE SafePointGuarded'
  BY <1>3 DEF OpenStream
<1>4. ASSUME NEW r \in Requests, SendHeaders(r) PROVE SafePointGuarded'
  BY <1>4 DEF SendHeaders
<1>5. ASSUME NEW r \in Requests, HeadersFail(r) PROVE SafePointGuarded'
  BY <1>5 DEF HeadersFail
<1>6. ASSUME NEW r \in Requests, Release(r) PROVE SafePointGuarded'
  BY <1>6 DEF Release
<1>7. ASSUME NEW r \in Requests, Complete(r) PROVE SafePointGuarded'
  BY <1>7 DEF Complete, EnterSafePoint
<1>8. ASSUME NEW r \in Requests, ApplyDispatcher(r) PROVE SafePointGuarded'
  BY <1>8 DEF ApplyDispatcher
<1>9. ASSUME NEW r \in Requests, ReadPlacement(r) PROVE SafePointGuarded'
  BY <1>9 DEF ReadPlacement
<1>10. ASSUME NEW r \in Requests, ApplyPlacement(r) PROVE SafePointGuarded'
  BY <1>10 DEF ApplyPlacement
<1>11. ASSUME NEW r \in Requests, ApplyPlacementRaises(r) PROVE SafePointGuarded'
  BY <1>11 DEF ApplyPlacementRaises
<1>12. ASSUME NEW r \in Requests, ApplyTuning(r) PROVE SafePointGuarded'
  BY <1>12 DEF ApplyTuning
<1>13. ASSUME NEW r \in Requests, ReadElastic(r) PROVE SafePointGuarded'
  BY <1>13 DEF ReadElastic
<1>14. ASSUME NEW r \in Requests, ApplyElastic(r) PROVE SafePointGuarded'
  BY <1>14 DEF ApplyElastic
<1>15. ASSUME NEW r \in Requests, ApplyPlan(r) PROVE SafePointGuarded'
  BY <1>15 DEF ApplyPlan, ActivatePending
<1>16. ASSUME NEW r \in Requests, DeferredPlan(r) PROVE SafePointGuarded'
  BY <1>16 DEF DeferredPlan, ActivatePending
<1>17. ASSUME NEW x \in Installers, Announce(x) PROVE SafePointGuarded'
  BY <1>17 DEF Announce, Pend
<1>18. ASSUME NEW x \in Installers, TryInstall(x) PROVE SafePointGuarded'
  BY <1>18 DEF TryInstall, EnterSafePoint
<1>19. ASSUME NEW x \in Installers, Install(x) PROVE SafePointGuarded'
  BY <1>19 DEF Install
<1>20. ASSUME NEW x \in Installers, InstallRaises(x) PROVE SafePointGuarded'
  BY <1>20 DEF InstallRaises
<1>21. ASSUME NEW m \in Monitors, Report(m) PROVE SafePointGuarded'
  BY <1>21 DEF Report
<1>22. ASSUME NEW m \in Monitors, TryResize(m) PROVE SafePointGuarded'
  BY <1>22 DEF TryResize, EnterSafePoint
<1>23. ASSUME NEW m \in Monitors, Resize(m) PROVE SafePointGuarded'
  BY <1>23 DEF Resize
<1>24. ASSUME NEW m \in Monitors, DeferPressure(m) PROVE SafePointGuarded'
  BY <1>24 DEF DeferPressure
<1>25. ASSUME NEW x \in Readers, HoldService(x) PROVE SafePointGuarded'
  BY <1>25 DEF HoldService
<1>26. ASSUME NEW x \in Readers, UseScheduler(x) PROVE SafePointGuarded'
  BY <1>26 DEF UseScheduler
<1>27. ASSUME NEW p \in Placements, Expire(p) PROVE SafePointGuarded'
  BY <1>27 DEF Expire
<1>28. ASSUME NEW p \in Plans, RequestPlan(p) PROVE SafePointGuarded'
  BY <1>28 DEF RequestPlan
<1>29. CASE UNCHANGED vars
  BY <1>29 DEF vars
<1> QED
  BY <1>1, <1>2, <1>3, <1>4, <1>5, <1>6, <1>7, <1>8, <1>9, <1>10, <1>11, <1>12,
      <1>13, <1>14, <1>15, <1>16, <1>17, <1>18, <1>19, <1>20, <1>21, <1>22,
      <1>23, <1>24, <1>25, <1>26, <1>27, <1>28, <1>29
  DEF Next, RequestStep, InstallStep, MonitorStep

(* A tuning changes only under the policy lock, when nothing is active.    *)
LEMMA PinnedStep ==
  ServicePlaces /\ SafePointGuarded /\ TuningPinned /\ [Next]_vars => TuningPinned'
<1> SUFFICES ASSUME ServicePlaces, SafePointGuarded, TuningPinned, [Next]_vars
             PROVE  TuningPinned'
  OBVIOUS
<1> USE ServiceAssumption DEF Go, SafePointGuarded, TuningPinned, ServicePlaces,
    TypeOK, Roles, TakenOK, RequestStates, Procs, Tasks, States, SafePoint,
    Applying, lockVars, requestVars, tuningVars, dispatchVars, placeVars,
    planVars, elasticVars, reportVars
<1>1. ASSUME NEW r \in Requests, Admit(r) PROVE TuningPinned'
  BY <1>1 DEF Admit
<1>2. ASSUME NEW r \in Requests, Stamp(r) PROVE TuningPinned'
  BY <1>2 DEF Stamp
<1>3. ASSUME NEW r \in Requests, OpenStream(r) PROVE TuningPinned'
  BY <1>3 DEF OpenStream
<1>4. ASSUME NEW r \in Requests, SendHeaders(r) PROVE TuningPinned'
  BY <1>4 DEF SendHeaders
<1>5. ASSUME NEW r \in Requests, HeadersFail(r) PROVE TuningPinned'
  BY <1>5 DEF HeadersFail
<1>6. ASSUME NEW r \in Requests, Release(r) PROVE TuningPinned'
  BY <1>6 DEF Release
<1>7. ASSUME NEW r \in Requests, Complete(r) PROVE TuningPinned'
  BY <1>7 DEF Complete, EnterSafePoint
<1>8. ASSUME NEW r \in Requests, ApplyDispatcher(r) PROVE TuningPinned'
  BY <1>8 DEF ApplyDispatcher
<1>9. ASSUME NEW r \in Requests, ReadPlacement(r) PROVE TuningPinned'
  BY <1>9 DEF ReadPlacement
<1>10. ASSUME NEW r \in Requests, ApplyPlacement(r) PROVE TuningPinned'
  BY <1>10 DEF ApplyPlacement
<1>11. ASSUME NEW r \in Requests, ApplyPlacementRaises(r) PROVE TuningPinned'
  BY <1>11 DEF ApplyPlacementRaises
<1>12. ASSUME NEW r \in Requests, ApplyTuning(r) PROVE TuningPinned'
  BY <1>12 DEF ApplyTuning
<1>13. ASSUME NEW r \in Requests, ReadElastic(r) PROVE TuningPinned'
  BY <1>13 DEF ReadElastic
<1>14. ASSUME NEW r \in Requests, ApplyElastic(r) PROVE TuningPinned'
  BY <1>14 DEF ApplyElastic
<1>15. ASSUME NEW r \in Requests, ApplyPlan(r) PROVE TuningPinned'
  BY <1>15 DEF ApplyPlan, ActivatePending
<1>16. ASSUME NEW r \in Requests, DeferredPlan(r) PROVE TuningPinned'
  BY <1>16 DEF DeferredPlan, ActivatePending
<1>17. ASSUME NEW x \in Installers, Announce(x) PROVE TuningPinned'
  BY <1>17 DEF Announce, Pend
<1>18. ASSUME NEW x \in Installers, TryInstall(x) PROVE TuningPinned'
  BY <1>18 DEF TryInstall, EnterSafePoint
<1>19. ASSUME NEW x \in Installers, Install(x) PROVE TuningPinned'
  BY <1>19 DEF Install
<1>20. ASSUME NEW x \in Installers, InstallRaises(x) PROVE TuningPinned'
  BY <1>20 DEF InstallRaises
<1>21. ASSUME NEW m \in Monitors, Report(m) PROVE TuningPinned'
  BY <1>21 DEF Report
<1>22. ASSUME NEW m \in Monitors, TryResize(m) PROVE TuningPinned'
  BY <1>22 DEF TryResize, EnterSafePoint
<1>23. ASSUME NEW m \in Monitors, Resize(m) PROVE TuningPinned'
  BY <1>23 DEF Resize
<1>24. ASSUME NEW m \in Monitors, DeferPressure(m) PROVE TuningPinned'
  BY <1>24 DEF DeferPressure
<1>25. ASSUME NEW x \in Readers, HoldService(x) PROVE TuningPinned'
  BY <1>25 DEF HoldService
<1>26. ASSUME NEW x \in Readers, UseScheduler(x) PROVE TuningPinned'
  BY <1>26 DEF UseScheduler
<1>27. ASSUME NEW p \in Placements, Expire(p) PROVE TuningPinned'
  BY <1>27 DEF Expire
<1>28. ASSUME NEW p \in Plans, RequestPlan(p) PROVE TuningPinned'
  BY <1>28 DEF RequestPlan
<1>29. CASE UNCHANGED vars
  BY <1>29 DEF vars
<1> QED
  BY <1>1, <1>2, <1>3, <1>4, <1>5, <1>6, <1>7, <1>8, <1>9, <1>10, <1>11, <1>12,
      <1>13, <1>14, <1>15, <1>16, <1>17, <1>18, <1>19, <1>20, <1>21, <1>22,
      <1>23, <1>24, <1>25, <1>26, <1>27, <1>28, <1>29
  DEF Next, RequestStep, InstallStep, MonitorStep

(* A step that takes away the last applier of a pending dispatcher applies *)
(* it.                                                                     *)
LEMMA DispatcherStep ==
  ServicePlaces /\ DispatcherHasApplier /\ [Next]_vars => DispatcherHasApplier'
<1> SUFFICES ASSUME ServicePlaces, DispatcherHasApplier, [Next]_vars
             PROVE  DispatcherHasApplier'
  OBVIOUS
<1> USE ServiceAssumption DEF Go, DispatcherHasApplier, ServicePlaces, TypeOK,
    Roles, TakenOK, RequestStates, Procs, Tasks, States, SafePoint, Applying,
    lockVars, requestVars, tuningVars, dispatchVars, placeVars, planVars,
    elasticVars, reportVars
<1>1. ASSUME NEW r \in Requests, Admit(r) PROVE DispatcherHasApplier'
  BY <1>1 DEF Admit
<1>2. ASSUME NEW r \in Requests, Stamp(r) PROVE DispatcherHasApplier'
  BY <1>2 DEF Stamp
<1>3. ASSUME NEW r \in Requests, OpenStream(r) PROVE DispatcherHasApplier'
  BY <1>3 DEF OpenStream
<1>4. ASSUME NEW r \in Requests, SendHeaders(r) PROVE DispatcherHasApplier'
  BY <1>4 DEF SendHeaders
<1>5. ASSUME NEW r \in Requests, HeadersFail(r) PROVE DispatcherHasApplier'
  BY <1>5 DEF HeadersFail
<1>6. ASSUME NEW r \in Requests, Release(r) PROVE DispatcherHasApplier'
  BY <1>6 DEF Release
<1>7. ASSUME NEW r \in Requests, Complete(r) PROVE DispatcherHasApplier'
  BY <1>7 DEF Complete, EnterSafePoint
<1>8. ASSUME NEW r \in Requests, ApplyDispatcher(r) PROVE DispatcherHasApplier'
  BY <1>8 DEF ApplyDispatcher
<1>9. ASSUME NEW r \in Requests, ReadPlacement(r) PROVE DispatcherHasApplier'
  BY <1>9 DEF ReadPlacement
<1>10. ASSUME NEW r \in Requests, ApplyPlacement(r) PROVE DispatcherHasApplier'
  BY <1>10 DEF ApplyPlacement
<1>11. ASSUME NEW r \in Requests, ApplyPlacementRaises(r) PROVE
    DispatcherHasApplier'
  BY <1>11 DEF ApplyPlacementRaises
<1>12. ASSUME NEW r \in Requests, ApplyTuning(r) PROVE DispatcherHasApplier'
  BY <1>12 DEF ApplyTuning
<1>13. ASSUME NEW r \in Requests, ReadElastic(r) PROVE DispatcherHasApplier'
  BY <1>13 DEF ReadElastic
<1>14. ASSUME NEW r \in Requests, ApplyElastic(r) PROVE DispatcherHasApplier'
  BY <1>14 DEF ApplyElastic
<1>15. ASSUME NEW r \in Requests, ApplyPlan(r) PROVE DispatcherHasApplier'
  BY <1>15 DEF ApplyPlan, ActivatePending
<1>16. ASSUME NEW r \in Requests, DeferredPlan(r) PROVE DispatcherHasApplier'
  BY <1>16 DEF DeferredPlan, ActivatePending
<1>17. ASSUME NEW x \in Installers, Announce(x) PROVE DispatcherHasApplier'
  BY <1>17 DEF Announce, Pend
<1>18. ASSUME NEW x \in Installers, TryInstall(x) PROVE DispatcherHasApplier'
  BY <1>18 DEF TryInstall, EnterSafePoint
<1>19. ASSUME NEW x \in Installers, Install(x) PROVE DispatcherHasApplier'
  BY <1>19 DEF Install
<1>20. ASSUME NEW x \in Installers, InstallRaises(x) PROVE DispatcherHasApplier'
  BY <1>20 DEF InstallRaises
<1>21. ASSUME NEW m \in Monitors, Report(m) PROVE DispatcherHasApplier'
  BY <1>21 DEF Report
<1>22. ASSUME NEW m \in Monitors, TryResize(m) PROVE DispatcherHasApplier'
  BY <1>22 DEF TryResize, EnterSafePoint
<1>23. ASSUME NEW m \in Monitors, Resize(m) PROVE DispatcherHasApplier'
  BY <1>23 DEF Resize
<1>24. ASSUME NEW m \in Monitors, DeferPressure(m) PROVE DispatcherHasApplier'
  BY <1>24 DEF DeferPressure
<1>25. ASSUME NEW x \in Readers, HoldService(x) PROVE DispatcherHasApplier'
  BY <1>25 DEF HoldService
<1>26. ASSUME NEW x \in Readers, UseScheduler(x) PROVE DispatcherHasApplier'
  BY <1>26 DEF UseScheduler
<1>27. ASSUME NEW p \in Placements, Expire(p) PROVE DispatcherHasApplier'
  BY <1>27 DEF Expire
<1>28. ASSUME NEW p \in Plans, RequestPlan(p) PROVE DispatcherHasApplier'
  BY <1>28 DEF RequestPlan
<1>29. CASE UNCHANGED vars
  BY <1>29 DEF vars
<1> QED
  BY <1>1, <1>2, <1>3, <1>4, <1>5, <1>6, <1>7, <1>8, <1>9, <1>10, <1>11, <1>12,
      <1>13, <1>14, <1>15, <1>16, <1>17, <1>18, <1>19, <1>20, <1>21, <1>22,
      <1>23, <1>24, <1>25, <1>26, <1>27, <1>28, <1>29
  DEF Next, RequestStep, InstallStep, MonitorStep

-----------------------------------------------------------------------------
(* Where no placement plan expires before it is applied, applying one      *)
(* never raises: a plan is loaded only after a dispatcher was offered, and *)
(* a completion installs the dispatcher before it looks at the plan.       *)
Offered == dispatcher # None \/ pendDispatcher # None
PlacementReady ==
    /\ expired \subseteq MayExpire
    /\ \A x \in Installers :
          Task[x] \in Dispatchers /\ pc[x] # "idle" => Offered
    /\ \A r \in Requests :
          pc[r] \in Applying \ {"dispatcher"} /\ Probed => dispatcher # None
    /\ pendPlacement # None => Probed
    /\ \A r \in Requests : pc[r] = "placement" => Probed

(* Dispatchers are offered before, and installed ahead of, placements.     *)
LEMMA PlacementStep ==
  ServicePlaces /\ SafePointGuarded /\ PlacementReady /\ [Next]_vars =>
      PlacementReady'
<1> SUFFICES ASSUME ServicePlaces, SafePointGuarded, PlacementReady, [Next]_vars
             PROVE  PlacementReady'
  OBVIOUS
<1> USE ServiceAssumption DEF Go, SafePointGuarded, PlacementReady, Offered,
    Probed, ServicePlaces, TypeOK, Roles, TakenOK, RequestStates, Procs, Tasks,
    States, SafePoint, Applying, lockVars, requestVars, tuningVars,
    dispatchVars, placeVars, planVars, elasticVars, reportVars
<1>1. ASSUME NEW r \in Requests, Admit(r) PROVE PlacementReady'
  BY <1>1 DEF Admit
<1>2. ASSUME NEW r \in Requests, Stamp(r) PROVE PlacementReady'
  BY <1>2 DEF Stamp
<1>3. ASSUME NEW r \in Requests, OpenStream(r) PROVE PlacementReady'
  BY <1>3 DEF OpenStream
<1>4. ASSUME NEW r \in Requests, SendHeaders(r) PROVE PlacementReady'
  BY <1>4 DEF SendHeaders
<1>5. ASSUME NEW r \in Requests, HeadersFail(r) PROVE PlacementReady'
  BY <1>5 DEF HeadersFail
<1>6. ASSUME NEW r \in Requests, Release(r) PROVE PlacementReady'
  BY <1>6 DEF Release
<1>7. ASSUME NEW r \in Requests, Complete(r) PROVE PlacementReady'
  BY <1>7 DEF Complete, EnterSafePoint
<1>8. ASSUME NEW r \in Requests, ApplyDispatcher(r) PROVE PlacementReady'
  BY <1>8 DEF ApplyDispatcher
<1>9. ASSUME NEW r \in Requests, ReadPlacement(r) PROVE PlacementReady'
  BY <1>9 DEF ReadPlacement
<1>10. ASSUME NEW r \in Requests, ApplyPlacement(r) PROVE PlacementReady'
  BY <1>10 DEF ApplyPlacement
<1>11. ASSUME NEW r \in Requests, ApplyPlacementRaises(r) PROVE PlacementReady'
  BY <1>11 DEF ApplyPlacementRaises
<1>12. ASSUME NEW r \in Requests, ApplyTuning(r) PROVE PlacementReady'
  BY <1>12 DEF ApplyTuning
<1>13. ASSUME NEW r \in Requests, ReadElastic(r) PROVE PlacementReady'
  BY <1>13 DEF ReadElastic
<1>14. ASSUME NEW r \in Requests, ApplyElastic(r) PROVE PlacementReady'
  BY <1>14 DEF ApplyElastic
<1>15. ASSUME NEW r \in Requests, ApplyPlan(r) PROVE PlacementReady'
  BY <1>15 DEF ApplyPlan, ActivatePending
<1>16. ASSUME NEW r \in Requests, DeferredPlan(r) PROVE PlacementReady'
  BY <1>16 DEF DeferredPlan, ActivatePending
<1>17. ASSUME NEW x \in Installers, Announce(x) PROVE PlacementReady'
  BY <1>17 DEF Announce, Pend
<1>18. ASSUME NEW x \in Installers, TryInstall(x) PROVE PlacementReady'
  BY <1>18 DEF TryInstall, EnterSafePoint
<1>19. ASSUME NEW x \in Installers, Install(x) PROVE PlacementReady'
  BY <1>19 DEF Install
<1>20. ASSUME NEW x \in Installers, InstallRaises(x) PROVE PlacementReady'
  BY <1>20 DEF InstallRaises
<1>21. ASSUME NEW m \in Monitors, Report(m) PROVE PlacementReady'
  BY <1>21 DEF Report
<1>22. ASSUME NEW m \in Monitors, TryResize(m) PROVE PlacementReady'
  BY <1>22 DEF TryResize, EnterSafePoint
<1>23. ASSUME NEW m \in Monitors, Resize(m) PROVE PlacementReady'
  BY <1>23 DEF Resize
<1>24. ASSUME NEW m \in Monitors, DeferPressure(m) PROVE PlacementReady'
  BY <1>24 DEF DeferPressure
<1>25. ASSUME NEW x \in Readers, HoldService(x) PROVE PlacementReady'
  BY <1>25 DEF HoldService
<1>26. ASSUME NEW x \in Readers, UseScheduler(x) PROVE PlacementReady'
  BY <1>26 DEF UseScheduler
<1>27. ASSUME NEW p \in Placements, Expire(p) PROVE PlacementReady'
  BY <1>27 DEF Expire
<1>28. ASSUME NEW p \in Plans, RequestPlan(p) PROVE PlacementReady'
  BY <1>28 DEF RequestPlan
<1>29. CASE UNCHANGED vars
  BY <1>29 DEF vars
<1> QED
  BY <1>1, <1>2, <1>3, <1>4, <1>5, <1>6, <1>7, <1>8, <1>9, <1>10, <1>11, <1>12,
      <1>13, <1>14, <1>15, <1>16, <1>17, <1>18, <1>19, <1>20, <1>21, <1>22,
      <1>23, <1>24, <1>25, <1>26, <1>27, <1>28, <1>29
  DEF Next, RequestStep, InstallStep, MonitorStep

(* No step strands a pending tuning when applying a placement cannot raise.*)
LEMMA TuningStep ==
  ASSUME MayExpire = {}
  PROVE  ServicePlaces /\ PlacementReady /\ TuningHasApplier /\ [Next]_vars
           => TuningHasApplier'
<1> SUFFICES ASSUME ServicePlaces, PlacementReady, TuningHasApplier, [Next]_vars
             PROVE  TuningHasApplier'
  OBVIOUS
<1> USE ServiceAssumption DEF Go, TuningHasApplier, ServicePlaces, TypeOK,
    Roles, TakenOK, RequestStates, Procs, Tasks, States, SafePoint, Applying,
    lockVars, requestVars, tuningVars, dispatchVars, placeVars, planVars,
    elasticVars, reportVars
<1>1. ASSUME NEW r \in Requests, Admit(r) PROVE TuningHasApplier'
  BY <1>1 DEF Admit
<1>2. ASSUME NEW r \in Requests, Stamp(r) PROVE TuningHasApplier'
  BY <1>2 DEF Stamp
<1>3. ASSUME NEW r \in Requests, OpenStream(r) PROVE TuningHasApplier'
  BY <1>3 DEF OpenStream
<1>4. ASSUME NEW r \in Requests, SendHeaders(r) PROVE TuningHasApplier'
  BY <1>4 DEF SendHeaders
<1>5. ASSUME NEW r \in Requests, HeadersFail(r) PROVE TuningHasApplier'
  BY <1>5 DEF HeadersFail
<1>6. ASSUME NEW r \in Requests, Release(r) PROVE TuningHasApplier'
  BY <1>6 DEF Release
<1>7. ASSUME NEW r \in Requests, Complete(r) PROVE TuningHasApplier'
  BY <1>7 DEF Complete, EnterSafePoint
<1>8. ASSUME NEW r \in Requests, ApplyDispatcher(r) PROVE TuningHasApplier'
  BY <1>8 DEF ApplyDispatcher
<1>9. ASSUME NEW r \in Requests, ReadPlacement(r) PROVE TuningHasApplier'
  BY <1>9 DEF ReadPlacement
<1>10. ASSUME NEW r \in Requests, ApplyPlacement(r) PROVE TuningHasApplier'
  BY <1>10 DEF ApplyPlacement
<1>11. ASSUME NEW r \in Requests, ApplyPlacementRaises(r) PROVE TuningHasApplier'
  <2>1. dispatcher # None /\ expired = {}
    BY <1>11 DEF ApplyPlacementRaises, PlacementReady
  <2>2. ~Accepts(taken[r])
    BY <1>11 DEF ApplyPlacementRaises
  <2> QED
    BY <2>1, <2>2 DEF Accepts
<1>12. ASSUME NEW r \in Requests, ApplyTuning(r) PROVE TuningHasApplier'
  BY <1>12 DEF ApplyTuning
<1>13. ASSUME NEW r \in Requests, ReadElastic(r) PROVE TuningHasApplier'
  BY <1>13 DEF ReadElastic
<1>14. ASSUME NEW r \in Requests, ApplyElastic(r) PROVE TuningHasApplier'
  BY <1>14 DEF ApplyElastic
<1>15. ASSUME NEW r \in Requests, ApplyPlan(r) PROVE TuningHasApplier'
  BY <1>15 DEF ApplyPlan, ActivatePending
<1>16. ASSUME NEW r \in Requests, DeferredPlan(r) PROVE TuningHasApplier'
  BY <1>16 DEF DeferredPlan, ActivatePending
<1>17. ASSUME NEW x \in Installers, Announce(x) PROVE TuningHasApplier'
  BY <1>17 DEF Announce, Pend
<1>18. ASSUME NEW x \in Installers, TryInstall(x) PROVE TuningHasApplier'
  BY <1>18 DEF TryInstall, EnterSafePoint
<1>19. ASSUME NEW x \in Installers, Install(x) PROVE TuningHasApplier'
  BY <1>19 DEF Install
<1>20. ASSUME NEW x \in Installers, InstallRaises(x) PROVE TuningHasApplier'
  BY <1>20 DEF InstallRaises
<1>21. ASSUME NEW m \in Monitors, Report(m) PROVE TuningHasApplier'
  BY <1>21 DEF Report
<1>22. ASSUME NEW m \in Monitors, TryResize(m) PROVE TuningHasApplier'
  BY <1>22 DEF TryResize, EnterSafePoint
<1>23. ASSUME NEW m \in Monitors, Resize(m) PROVE TuningHasApplier'
  BY <1>23 DEF Resize
<1>24. ASSUME NEW m \in Monitors, DeferPressure(m) PROVE TuningHasApplier'
  BY <1>24 DEF DeferPressure
<1>25. ASSUME NEW x \in Readers, HoldService(x) PROVE TuningHasApplier'
  BY <1>25 DEF HoldService
<1>26. ASSUME NEW x \in Readers, UseScheduler(x) PROVE TuningHasApplier'
  BY <1>26 DEF UseScheduler
<1>27. ASSUME NEW p \in Placements, Expire(p) PROVE TuningHasApplier'
  BY <1>27 DEF Expire
<1>28. ASSUME NEW p \in Plans, RequestPlan(p) PROVE TuningHasApplier'
  BY <1>28 DEF RequestPlan
<1>29. CASE UNCHANGED vars
  BY <1>29 DEF vars
<1> QED
  BY <1>1, <1>2, <1>3, <1>4, <1>5, <1>6, <1>7, <1>8, <1>9, <1>10, <1>11, <1>12,
      <1>13, <1>14, <1>15, <1>16, <1>17, <1>18, <1>19, <1>20, <1>21, <1>22,
      <1>23, <1>24, <1>25, <1>26, <1>27, <1>28, <1>29
  DEF Next, RequestStep, InstallStep, MonitorStep

-----------------------------------------------------------------------------
(* A step that installs something is a step of the owner of the policy     *)
(* lock, or has just tested that nothing is active.                        *)
AtSafePoint == installed' # installed => active = {}

LEMMA ChangeStep ==
  ServicePlaces /\ SafePointGuarded /\ [Next]_vars => [AtSafePoint]_vars
<1> SUFFICES ASSUME ServicePlaces, SafePointGuarded, [Next]_vars
             PROVE  AtSafePoint
  OBVIOUS
<1> USE ServiceAssumption DEF Go, SafePointGuarded, AtSafePoint, installed,
    ServicePlaces, TypeOK, Roles, TakenOK, RequestStates, Procs, Tasks, States,
    SafePoint, Applying, lockVars, requestVars, tuningVars, dispatchVars,
    placeVars, planVars, elasticVars, reportVars
<1>1. ASSUME NEW r \in Requests, Admit(r) PROVE AtSafePoint
  BY <1>1 DEF Admit
<1>2. ASSUME NEW r \in Requests, Stamp(r) PROVE AtSafePoint
  BY <1>2 DEF Stamp
<1>3. ASSUME NEW r \in Requests, OpenStream(r) PROVE AtSafePoint
  BY <1>3 DEF OpenStream
<1>4. ASSUME NEW r \in Requests, SendHeaders(r) PROVE AtSafePoint
  BY <1>4 DEF SendHeaders
<1>5. ASSUME NEW r \in Requests, HeadersFail(r) PROVE AtSafePoint
  BY <1>5 DEF HeadersFail
<1>6. ASSUME NEW r \in Requests, Release(r) PROVE AtSafePoint
  BY <1>6 DEF Release
<1>7. ASSUME NEW r \in Requests, Complete(r) PROVE AtSafePoint
  BY <1>7 DEF Complete, EnterSafePoint
<1>8. ASSUME NEW r \in Requests, ApplyDispatcher(r) PROVE AtSafePoint
  BY <1>8 DEF ApplyDispatcher
<1>9. ASSUME NEW r \in Requests, ReadPlacement(r) PROVE AtSafePoint
  BY <1>9 DEF ReadPlacement
<1>10. ASSUME NEW r \in Requests, ApplyPlacement(r) PROVE AtSafePoint
  BY <1>10 DEF ApplyPlacement
<1>11. ASSUME NEW r \in Requests, ApplyPlacementRaises(r) PROVE AtSafePoint
  BY <1>11 DEF ApplyPlacementRaises
<1>12. ASSUME NEW r \in Requests, ApplyTuning(r) PROVE AtSafePoint
  BY <1>12 DEF ApplyTuning
<1>13. ASSUME NEW r \in Requests, ReadElastic(r) PROVE AtSafePoint
  BY <1>13 DEF ReadElastic
<1>14. ASSUME NEW r \in Requests, ApplyElastic(r) PROVE AtSafePoint
  BY <1>14 DEF ApplyElastic
<1>15. ASSUME NEW r \in Requests, ApplyPlan(r) PROVE AtSafePoint
  BY <1>15 DEF ApplyPlan, ActivatePending
<1>16. ASSUME NEW r \in Requests, DeferredPlan(r) PROVE AtSafePoint
  BY <1>16 DEF DeferredPlan, ActivatePending
<1>17. ASSUME NEW x \in Installers, Announce(x) PROVE AtSafePoint
  BY <1>17 DEF Announce, Pend
<1>18. ASSUME NEW x \in Installers, TryInstall(x) PROVE AtSafePoint
  BY <1>18 DEF TryInstall, EnterSafePoint
<1>19. ASSUME NEW x \in Installers, Install(x) PROVE AtSafePoint
  BY <1>19 DEF Install
<1>20. ASSUME NEW x \in Installers, InstallRaises(x) PROVE AtSafePoint
  BY <1>20 DEF InstallRaises
<1>21. ASSUME NEW m \in Monitors, Report(m) PROVE AtSafePoint
  BY <1>21 DEF Report
<1>22. ASSUME NEW m \in Monitors, TryResize(m) PROVE AtSafePoint
  BY <1>22 DEF TryResize, EnterSafePoint
<1>23. ASSUME NEW m \in Monitors, Resize(m) PROVE AtSafePoint
  BY <1>23 DEF Resize
<1>24. ASSUME NEW m \in Monitors, DeferPressure(m) PROVE AtSafePoint
  BY <1>24 DEF DeferPressure
<1>25. ASSUME NEW x \in Readers, HoldService(x) PROVE AtSafePoint
  BY <1>25 DEF HoldService
<1>26. ASSUME NEW x \in Readers, UseScheduler(x) PROVE AtSafePoint
  BY <1>26 DEF UseScheduler
<1>27. ASSUME NEW p \in Placements, Expire(p) PROVE AtSafePoint
  BY <1>27 DEF Expire
<1>28. ASSUME NEW p \in Plans, RequestPlan(p) PROVE AtSafePoint
  BY <1>28 DEF RequestPlan
<1>29. CASE UNCHANGED vars
  BY <1>29 DEF vars
<1> QED
  BY <1>1, <1>2, <1>3, <1>4, <1>5, <1>6, <1>7, <1>8, <1>9, <1>10, <1>11, <1>12,
      <1>13, <1>14, <1>15, <1>16, <1>17, <1>18, <1>19, <1>20, <1>21, <1>22,
      <1>23, <1>24, <1>25, <1>26, <1>27, <1>28, <1>29
  DEF Next, RequestStep, InstallStep, MonitorStep

-----------------------------------------------------------------------------
(* The inductive invariant.                                                *)
ServiceInv == /\ ServicePlaces
              /\ SafePointGuarded
              /\ TuningPinned
              /\ DispatcherHasApplier
              /\ PlacementReady

(* It holds when the service has been constructed.                         *)
LEMMA ServiceInit == Init => ServiceInv
<1> SUFFICES ASSUME Init PROVE ServiceInv
  OBVIOUS
<1> USE ServiceAssumption DEF Init, Procs
<1>1. ServicePlaces
  BY DEF ServicePlaces, TypeOK, Roles, TakenOK, RequestStates, States, SafePoint
<1>2. SafePointGuarded
  BY DEF SafePointGuarded, SafePoint, Applying
<1>3. TuningPinned /\ DispatcherHasApplier
  BY DEF TuningPinned, DispatcherHasApplier
<1>4. PlacementReady
  BY DEF PlacementReady, Offered, Applying
<1> QED
  BY <1>1, <1>2, <1>3, <1>4 DEF ServiceInv

(* The service's inductive invariant holds in every reachable state.       *)
THEOREM ServiceSafety == Spec => []ServiceInv
<1>1. ServiceInv /\ [Next]_vars => ServiceInv'
  BY PlacesStep, GuardStep, PinnedStep, DispatcherStep, PlacementStep DEF ServiceInv
<1> QED
  BY <1>1, ServiceInit, PTL DEF Spec

(* Every variable of the service keeps its type.                           *)
THEOREM ServiceTypeCorrect == Spec => []TypeOK
<1>1. ServiceInv => TypeOK
  BY DEF ServiceInv, ServicePlaces
<1> QED
  BY <1>1, ServiceSafety, PTL

(* at_safe_point: from the first to the last section of the operation that *)
(* runs there, its thread has the policy lock and no request is active.    *)
THEOREM ServiceSafePoints == Spec => []SafePointIsIdle
<1>1. ServiceInv => SafePointIsIdle
  <2> SUFFICES ASSUME ServiceInv, NEW x \in Procs, pc[x] \in SafePoint
               PROVE  pol = x /\ active = {}
    BY DEF SafePointIsIdle
  <2>1. pol = x
    BY DEF ServiceInv, SafePointGuarded
  <2>2. x # None
    BY ServiceAssumption
  <2> QED
    BY <2>1, <2>2 DEF ServiceInv, SafePointGuarded
<1> QED
  BY <1>1, ServiceSafety, PTL

(* admit_schedule: the tuning a reservation is stamped with stays the      *)
(* active one until the reservation is completed, although the stamp is    *)
(* taken after the admission and under another lock.                       *)
THEOREM ServicePinsTuning == Spec => []TuningPinned
<1>1. ServiceInv => TuningPinned
  BY DEF ServiceInv
<1> QED
  BY <1>1, ServiceSafety, PTL

(* install_operator_dispatcher: a dispatcher made pending is never left    *)
(* behind, whatever completions and other installers do in between.        *)
THEOREM ServiceAppliesDispatchers == Spec => []DispatcherHasApplier
<1>1. ServiceInv => DispatcherHasApplier
  BY DEF ServiceInv
<1> QED
  BY <1>1, ServiceSafety, PTL

(* install_metal_tuning: the same of a tuning, as long as no placement     *)
(* plan expires.  The expiry is the only way a pending tuning is stranded. *)
THEOREM ServiceAppliesTunings ==
  ASSUME MayExpire = {}
  PROVE  Spec => []TuningHasApplier
<1>1. Init => TuningHasApplier
  BY DEF Init, TuningHasApplier
<1>2. ServiceInv /\ TuningHasApplier /\ [Next]_vars => TuningHasApplier'
  BY TuningStep DEF ServiceInv
<1> QED
  BY <1>1, <1>2, ServiceSafety, PTL DEF Spec

(* Dispatcher, placement plan, tuning, cache size and execution plan       *)
(* change only when no request is active.                                  *)
THEOREM ServiceInstallsWhenIdle == Spec => ChangesAtSafePoints
<1>1. ServiceInv /\ [Next]_vars => [AtSafePoint]_vars
  BY ChangeStep DEF ServiceInv
<1> QED
  BY <1>1, ServiceSafety, PTL DEF Spec, ChangesAtSafePoints, AtSafePoint

=============================================================================
