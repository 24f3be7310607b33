---------------------------- MODULE RuntimeService ----------------------------
(***************************************************************************)
(* RuntimeService of vllm_apple/service.py over its scheduler: what is     *)
(* installed at scheduler safe points (dispatcher, placement plan, Metal   *)
(* tuning, execution plan, cache size) while requests of the API server    *)
(* come and go.                                                            *)
(*                                                                         *)
(* svc is the owner of the service's _lock, pol the owner of the           *)
(* scheduler's _policy_lock, each between two actions of one thread; both  *)
(* are re-entrant.  A section that takes one lock, shares nothing outside  *)
(* it and takes no other is one action.  The scheduler is seen through     *)
(* what the service uses of it: the active reservations and what is        *)
(* installed (module BasicScheduler has the rest).                         *)
(*                                                                         *)
(* Threads: Requests are handler threads of the API server, one request    *)
(* each; Installers call one install method each; Monitors report memory   *)
(* pressure; Readers are all calls that use the scheduler while they hold  *)
(* the service lock.                                                       *)
(***************************************************************************)
EXTENDS Integers, FiniteSets

CONSTANTS
    Requests,     \* requests; a request thread ends with its request
    Streams,      \* the requests that stream their answer
    Installers,   \* threads that install something
    Task,         \* what each of them installs
    Monitors,     \* pressure monitor threads
    Readers,      \* threads in snapshot, apply_operating_state, ...
    Tunings, Dispatchers, Placements, Plans,
    MayExpire,    \* placement plans whose valid_until may pass
    Levels,       \* memory pressure levels
    MaxReports,   \* bound on pressure events
    None          \* nothing installed, nothing pending, lock free

Procs == Requests \cup Installers \cup Monitors \cup Readers
Tasks == Tunings \cup Dispatchers \cup Placements

ASSUME ServiceAssumption ==
    /\ Streams \subseteq Requests
    /\ Requests \cap Installers = {} /\ Requests \cap Monitors = {}
    /\ Requests \cap Readers = {} /\ Installers \cap Monitors = {}
    /\ Installers \cap Readers = {} /\ Monitors \cap Readers = {}
    /\ Tunings \cap Dispatchers = {} /\ Tunings \cap Placements = {}
    /\ Dispatchers \cap Placements = {}
    /\ Task \in [Installers -> Tasks]
    /\ MayExpire \subseteq Placements
    /\ \A m, n \in Monitors : m = n     \* the daemon starts one monitor
    /\ "normal" \in Levels
    /\ MaxReports \in Nat
    /\ None \notin Procs \cup Tasks \cup Plans \cup Levels

VARIABLES
    svc, pol,
    active,                        \* keys of scheduler.memory._reservations
    kernelTuning,                  \* kernel_tuning_id of a reservation
    tuning, pendTuning,            \* _active_metal_tuning, _pending_metal_tuning
    dispatcher, pendDispatcher,    \* the scheduler's, the service's pending one
    placement, pendPlacement,
    expired,                       \* placement plans past valid_until
    plan, pendPlan,                \* the scheduler's execution plans
    elastic, pendElastic,          \* ElasticMemoryController: current, pending
    latest, reports,               \* last pressure reported, and how many
    taken,                         \* what a completion has read and not yet used
    pc

lockVars == <<svc, pol>>
requestVars == <<active, kernelTuning>>
tuningVars == <<tuning, pendTuning>>
dispatchVars == <<dispatcher, pendDispatcher>>
placeVars == <<placement, pendPlacement>>
planVars == <<plan, pendPlan>>
elasticVars == <<elastic, pendElastic>>
reportVars == <<latest, reports>>
vars == <<svc, pol, active, kernelTuning, tuning, pendTuning, dispatcher,
          pendDispatcher, placement, pendPlacement, expired, plan, pendPlan,
          elastic, pendElastic, latest, reports, taken, pc>>

(* Where a thread holds the policy lock from one action to the next.       *)
Applying == {"dispatcher", "placement?", "placement", "tuning", "elastic?",
             "elastic", "plan"}
SafePoint == Applying \cup {"installing", "resizing"}
States == SafePoint \cup
    {"idle", "admitted", "opening", "headers", "serving", "released",
     "deferred", "announced", "reported", "deferring", "holding", "done"}

TypeOK ==
    /\ svc \in Procs \cup {None} /\ pol \in Procs \cup {None}
    /\ active \subseteq Requests
    /\ kernelTuning \in [Requests -> Tunings \cup {None}]
    /\ tuning \in Tunings \cup {None} /\ pendTuning \in Tunings \cup {None}
    /\ dispatcher \in Dispatchers \cup {None}
    /\ pendDispatcher \in Dispatchers \cup {None}
    /\ placement \in Placements \cup {None}
    /\ pendPlacement \in Placements \cup {None}
    /\ expired \subseteq Placements
    /\ plan \in Plans \cup {None} /\ pendPlan \in Plans \cup {None}
    /\ elastic \in Levels /\ pendElastic \in Levels \cup {None}
    /\ latest \in Levels /\ reports \in 0..MaxReports
    /\ taken \in [Requests -> Placements \cup Levels \cup {None}]
    /\ pc \in [Procs -> States]

Init ==
    /\ svc = None /\ pol = None
    /\ active = {}
    /\ kernelTuning = [r \in Requests |-> None]
    /\ tuning = None /\ pendTuning = None
    /\ dispatcher = None /\ pendDispatcher = None
    /\ placement = None /\ pendPlacement = None
    /\ expired = {}
    /\ plan = None /\ pendPlan = None
    /\ elastic = "normal" /\ pendElastic = None
    /\ latest = "normal" /\ reports = 0
    /\ taken = [r \in Requests |-> None]
    /\ pc = [x \in Procs |-> "idle"]

Go(x, state) == pc' = [pc EXCEPT ![x] = state]
(* at_safe_point: under the policy lock, and only if nothing is active.    *)
EnterSafePoint(x, state, otherwise) ==
    /\ pol = None
    /\ IF active # {}
       THEN Go(x, otherwise) /\ UNCHANGED pol
       ELSE Go(x, state) /\ pol' = x
(* request_device_placement_plan raises otherwise.  Plans are loaded for   *)
(* the fingerprints of the dispatcher the daemon has probed.               *)
Accepts(p) == dispatcher # None /\ p \notin expired

-----------------------------------------------------------------------------
(* admit_schedule: the scheduler admits (a refusal changes nothing) ...    *)
AdmitAtSafePoint(r) ==
    /\ pc[r] = "idle"
    /\ active' = active \cup {r}
    /\ Go(r, "admitted")
    /\ UNCHANGED <<lockVars, kernelTuning, tuningVars, dispatchVars, placeVars,
                   expired, planVars, elasticVars, reportVars, taken>>
Admit(r) ==
    /\ pc[r] = "idle" /\ pol = None
    /\ active' = active \cup {r}
    /\ Go(r, "admitted")
    /\ UNCHANGED <<lockVars, kernelTuning, tuningVars, dispatchVars, placeVars,
                   expired, planVars, elasticVars, reportVars, taken>>
(* ... and the reservation is stamped with the active tuning.              *)
Stamp(r) ==
    /\ pc[r] = "admitted" /\ svc = None
    /\ kernelTuning' = [kernelTuning EXCEPT ![r] = tuning]
    /\ Go(r, IF r \in Streams THEN "opening" ELSE "serving")
    /\ UNCHANGED <<lockVars, active, tuningVars, dispatchVars, placeVars,
                   expired, planVars, elasticVars, reportVars, taken>>

(* _stream_chat: open the upstream; a failure completes the reservation.   *)
OpenStream(r) ==
    /\ pc[r] = "opening"
    /\ \E next \in {"headers", "serving"} : Go(r, next)
    /\ UNCHANGED <<lockVars, requestVars, tuningVars, dispatchVars, placeVars,
                   expired, planVars, elasticVars, reportVars, taken>>
(* The headers are written to the client's socket before the try block.    *)
SendHeaders(r) ==
    /\ pc[r] = "headers"
    /\ Go(r, "serving")
    /\ UNCHANGED <<lockVars, requestVars, tuningVars, dispatchVars, placeVars,
                   expired, planVars, elasticVars, reportVars, taken>>
HeadersFail(r) ==
    /\ pc[r] = "headers"
    /\ Go(r, "done")
    /\ UNCHANGED <<lockVars, requestVars, tuningVars, dispatchVars, placeVars,
                   expired, planVars, elasticVars, reportVars, taken>>

(* complete_schedule: scheduler.complete, once the answer is over ...      *)
ReleaseOnly(r) ==
    /\ pc[r] = "serving" /\ pol = None
    /\ active' = active \ {r}
    /\ Go(r, "done")
    /\ UNCHANGED <<lockVars, kernelTuning, tuningVars, dispatchVars, placeVars,
                   expired, planVars, elasticVars, reportVars, taken>>
Release(r) ==
    /\ pc[r] = "serving" /\ pol = None
    /\ active' = active \ {r}
    /\ Go(r, "released")
    /\ UNCHANGED <<lockVars, kernelTuning, tuningVars, dispatchVars, placeVars,
                   expired, planVars, elasticVars, reportVars, taken>>
(* ... then apply_pending_runtime_policy, at a safe point if it is one.    *)
Complete(r) ==
    /\ pc[r] = "released"
    /\ EnterSafePoint(r, "dispatcher", "deferred")
    /\ UNCHANGED <<svc, requestVars, tuningVars, dispatchVars, placeVars,
                   expired, planVars, elasticVars, reportVars, taken>>
ApplyDispatcher(r) ==
    /\ pc[r] = "dispatcher" /\ svc = None
    /\ dispatcher' = IF pendDispatcher = None THEN dispatcher ELSE pendDispatcher
    /\ pendDispatcher' = None
    /\ Go(r, "placement?")
    /\ UNCHANGED <<lockVars, requestVars, tuningVars, placeVars, expired,
                   planVars, elasticVars, reportVars, taken>>
ReadPlacement(r) ==
    /\ pc[r] = "placement?" /\ svc = None
    /\ taken' = [taken EXCEPT ![r] = pendPlacement]
    /\ Go(r, IF pendPlacement = None THEN "tuning" ELSE "placement")
    /\ UNCHANGED <<lockVars, requestVars, tuningVars, dispatchVars, placeVars,
                   expired, planVars, elasticVars, reportVars>>
ApplyPlacement(r) ==
    /\ pc[r] = "placement" /\ svc = None
    /\ Accepts(taken[r])
    /\ placement' = taken[r]
    /\ pendPlacement' = IF pendPlacement = taken[r] THEN None ELSE pendPlacement
    /\ Go(r, "tuning")
    /\ UNCHANGED <<lockVars, requestVars, tuningVars, dispatchVars, expired,
                   planVars, elasticVars, reportVars, taken>>
(* The exception leaves at_safe_point and complete_schedule; the plan      *)
(* stays pending.                                                          *)
ApplyPlacementRaises(r) ==
    /\ pc[r] = "placement"
    /\ ~Accepts(taken[r])
    /\ pol' = None
    /\ Go(r, "done")
    /\ UNCHANGED <<svc, requestVars, tuningVars, dispatchVars, placeVars,
                   expired, planVars, elasticVars, reportVars, taken>>
ApplyTuningKeepsPending(r) ==
    /\ pc[r] = "tuning" /\ svc = None
    /\ Go(r, "elastic?")
    /\ UNCHANGED <<lockVars, requestVars, tuningVars, dispatchVars, placeVars,
                   expired, planVars, elasticVars, reportVars, taken>>
ApplyTuning(r) ==
    /\ pc[r] = "tuning" /\ svc = None
    /\ tuning' = IF pendTuning = None THEN tuning ELSE pendTuning
    /\ pendTuning' = None
    /\ Go(r, "elastic?")
    /\ UNCHANGED <<lockVars, requestVars, dispatchVars, placeVars, expired,
                   planVars, elasticVars, reportVars, taken>>
(* ElasticMemoryController.apply_pending reads the pending pressure under  *)
(* its own lock, and request clears it under that lock after the resize.   *)
ReadElasticAlways(r) ==
    /\ pc[r] = "elastic?"
    /\ taken' = [taken EXCEPT ![r] = pendElastic]
    /\ Go(r, "elastic")
    /\ UNCHANGED <<lockVars, requestVars, tuningVars, dispatchVars, placeVars,
                   expired, planVars, elasticVars, reportVars>>
ReadElastic(r) ==
    /\ pc[r] = "elastic?"
    /\ taken' = [taken EXCEPT ![r] = pendElastic]
    /\ Go(r, IF pendElastic = None THEN "plan" ELSE "elastic")
    /\ UNCHANGED <<lockVars, requestVars, tuningVars, dispatchVars, placeVars,
                   expired, planVars, elasticVars, reportVars>>
ApplyElastic(r) ==
    /\ pc[r] = "elastic"
    /\ elastic' = taken[r]
    /\ pendElastic' = None
    /\ Go(r, "plan")
    /\ UNCHANGED <<lockVars, requestVars, tuningVars, dispatchVars, placeVars,
                   expired, planVars, reportVars, taken>>
(* apply_pending_execution_plan, at the end of the safe point ...          *)
ActivatePendingUnchecked ==
    /\ plan' = IF pendPlan # None THEN pendPlan ELSE plan
    /\ pendPlan' = None
ActivatePending ==
    /\ plan' = IF pendPlan # None /\ active = {} THEN pendPlan ELSE plan
    /\ pendPlan' = IF active = {} THEN None ELSE pendPlan
ApplyPlanNotReentrant(r) ==
    /\ pc[r] = "plan" /\ pol = None
    /\ ActivatePending
    /\ Go(r, "done")
    /\ UNCHANGED <<lockVars, requestVars, tuningVars, dispatchVars, placeVars,
                   expired, elasticVars, reportVars, taken>>
ApplyPlan(r) ==
    /\ pc[r] = "plan"
    /\ ActivatePending
    /\ pol' = None
    /\ Go(r, "done")
    /\ UNCHANGED <<svc, requestVars, tuningVars, dispatchVars, placeVars,
                   expired, elasticVars, reportVars, taken>>
(* ... or, when it was none, in a critical section of its own.             *)
DeferredPlan(r) ==
    /\ pc[r] = "deferred" /\ pol = None
    /\ ActivatePending
    /\ Go(r, "done")
    /\ UNCHANGED <<lockVars, requestVars, tuningVars, dispatchVars, placeVars,
                   expired, elasticVars, reportVars, taken>>

-----------------------------------------------------------------------------
(* install_operator_dispatcher, install_device_placement_plan and          *)
(* install_metal_tuning: first the item is made pending ...                *)
Pend(item) ==
    /\ pendTuning' = IF item \in Tunings THEN item ELSE pendTuning
    /\ pendDispatcher' = IF item \in Dispatchers THEN item ELSE pendDispatcher
    /\ pendPlacement' = IF item \in Placements THEN item ELSE pendPlacement
(* The daemon loads placement plans only once probe_and_install returned.  *)
Probed == \E y \in Installers : Task[y] \in Dispatchers /\ pc[y] = "done"
Announce(x) ==
    /\ pc[x] = "idle" /\ svc = None
    /\ Task[x] \in Placements => Probed
    /\ Pend(Task[x])
    /\ Go(x, "announced")
    /\ UNCHANGED <<lockVars, requestVars, tuning, dispatcher, placement, expired,
                   planVars, elasticVars, reportVars, taken>>
(* ... then it is tried at a safe point ...                                *)
TryInstall(x) ==
    /\ pc[x] = "announced"
    /\ EnterSafePoint(x, "installing", "done")
    /\ UNCHANGED <<svc, requestVars, tuningVars, dispatchVars, placeVars,
                   expired, planVars, elasticVars, reportVars, taken>>
(* ... and no longer pending, unless another one has taken its place.      *)
Install(x) ==
    LET item == Task[x] IN
    /\ pc[x] = "installing" /\ svc = None
    /\ item \in Placements => Accepts(item)
    /\ tuning' = IF item \in Tunings THEN item ELSE tuning
    /\ dispatcher' = IF item \in Dispatchers THEN item ELSE dispatcher
    /\ placement' = IF item \in Placements THEN item ELSE placement
    /\ pendTuning' = IF pendTuning = item THEN None ELSE pendTuning
    /\ pendDispatcher' = IF pendDispatcher = item THEN None ELSE pendDispatcher
    /\ pendPlacement' = IF pendPlacement = item THEN None ELSE pendPlacement
    /\ pol' = None
    /\ Go(x, "done")
    /\ UNCHANGED <<svc, requestVars, expired, planVars, elasticVars, reportVars, taken>>
InstallRaises(x) ==
    /\ pc[x] = "installing"
    /\ Task[x] \in Placements /\ ~Accepts(Task[x])
    /\ pol' = None
    /\ Go(x, "done")
    /\ UNCHANGED <<svc, requestVars, tuningVars, dispatchVars, placeVars,
                   expired, planVars, elasticVars, reportVars, taken>>
Expire(p) ==
    /\ p \in MayExpire \ expired
    /\ expired' = expired \cup {p}
    /\ UNCHANGED <<lockVars, requestVars, tuningVars, dispatchVars, placeVars,
                   planVars, elasticVars, reportVars, taken, pc>>
(* request_execution_plan, in one critical section of the scheduler.       *)
RequestPlan(p) ==
    /\ pol = None
    /\ plan' = IF active = {} THEN p ELSE plan
    /\ pendPlan' = IF active = {} \/ p = plan THEN None ELSE p
    /\ UNCHANGED <<lockVars, requestVars, tuningVars, dispatchVars, placeVars,
                   expired, elasticVars, reportVars, taken, pc>>

-----------------------------------------------------------------------------
(* apply_memory_pressure: telemetry and adaptive inputs first ...          *)
Report(m) ==
    /\ pc[m] = "idle" /\ pol = None
    /\ reports < MaxReports
    /\ reports' = reports + 1
    /\ latest' \in Levels \ {latest}
    /\ Go(m, "reported")
    /\ UNCHANGED <<lockVars, requestVars, tuningVars, dispatchVars, placeVars,
                   expired, planVars, elasticVars, taken>>
(* ... then the caches are resized at a safe point ...                     *)
TryResize(m) ==
    /\ pc[m] = "reported"
    /\ EnterSafePoint(m, "resizing", "deferring")
    /\ UNCHANGED <<svc, requestVars, tuningVars, dispatchVars, placeVars,
                   expired, planVars, elasticVars, reportVars, taken>>
Resize(m) ==
    /\ pc[m] = "resizing"
    /\ elastic' = latest
    /\ pendElastic' = None
    /\ pol' = None
    /\ Go(m, "idle")
    /\ UNCHANGED <<svc, requestVars, tuningVars, dispatchVars, placeVars,
                   expired, planVars, reportVars, taken>>
(* ... or the request is made pending, after the policy lock is released.  *)
DeferPressure(m) ==
    /\ pc[m] = "deferring"
    /\ pendElastic' = latest
    /\ Go(m, "idle")
    /\ UNCHANGED <<lockVars, requestVars, tuningVars, dispatchVars, placeVars,
                   expired, planVars, elastic, reportVars, taken>>

(* snapshot, apply_operating_state, control_ and configure_scheduling_     *)
(* preference take the service lock and call the scheduler under it.       *)
HoldService(x) ==
    /\ pc[x] = "idle" /\ svc = None
    /\ svc' = x
    /\ Go(x, "holding")
    /\ UNCHANGED <<pol, requestVars, tuningVars, dispatchVars, placeVars,
                   expired, planVars, elasticVars, reportVars, taken>>
UseScheduler(x) ==
    /\ pc[x] = "holding" /\ pol = None
    /\ svc' = None
    /\ Go(x, "idle")
    /\ UNCHANGED <<pol, requestVars, tuningVars, dispatchVars, placeVars,
                   expired, planVars, elasticVars, reportVars, taken>>

-----------------------------------------------------------------------------
RequestStep(r) ==
    \/ Stamp(r) \/ OpenStream(r) \/ SendHeaders(r) \/ HeadersFail(r)
    \/ Release(r) \/ Complete(r)
    \/ ApplyDispatcher(r) \/ ReadPlacement(r) \/ ApplyPlacement(r)
    \/ ApplyPlacementRaises(r) \/ ApplyTuning(r) \/ ReadElastic(r)
    \/ ApplyElastic(r) \/ ApplyPlan(r) \/ DeferredPlan(r)
InstallStep(x) == TryInstall(x) \/ Install(x) \/ InstallRaises(x)
MonitorStep(m) == TryResize(m) \/ Resize(m) \/ DeferPressure(m)

Next ==
    \/ \E r \in Requests : Admit(r) \/ RequestStep(r)
    \/ \E x \in Installers : Announce(x) \/ InstallStep(x)
    \/ \E m \in Monitors : Report(m) \/ MonitorStep(m)
    \/ \E x \in Readers : HoldService(x) \/ UseScheduler(x)
    \/ \E p \in Placements : Expire(p)
    \/ \E p \in Plans : RequestPlan(p)

Spec == Init /\ [][Next]_vars

(* A thread inside a call keeps running; a lock that is free again and     *)
(* again is obtained in the end.  Requests and installs need not arrive.   *)
FairSpec ==
    /\ Spec
    /\ \A r \in Requests : SF_vars(RequestStep(r))
    /\ \A x \in Installers : SF_vars(InstallStep(x))
    /\ \A m \in Monitors : SF_vars(MonitorStep(m))
    /\ \A x \in Readers : SF_vars(UseScheduler(x))

-----------------------------------------------------------------------------
(* at_safe_point: "Run an operation while new admissions are blocked and   *)
(* no work is active", through all the sections the operation consists of. *)
SafePointIsIdle == \A x \in Procs : pc[x] \in SafePoint => pol = x /\ active = {}

(* "Each reservation fixes its starting tuning_id": for the whole life of  *)
(* a request the tuning it was stamped with is the active one, so that     *)
(* inference_kernel_context never loses it.                                *)
TuningPinned ==
    \A r \in active : pc[r] # "admitted" => kernelTuning[r] = tuning

(* No deferred dispatcher is forgotten: while one is pending, a request is *)
(* active or some thread is still going to install it.                     *)
DispatcherHasApplier ==
    pendDispatcher # None =>
        \/ active # {}
        \/ \E r \in Requests : pc[r] \in {"released", "dispatcher"}
        \/ \E x \in Installers : /\ pc[x] \in {"announced", "installing"}
                                 /\ Task[x] = pendDispatcher

(* The same of a Metal tuning: "switching winners only at a scheduler safe *)
(* point after the final active request completes".                        *)
TuningHasApplier ==
    pendTuning # None =>
        \/ active # {}
        \/ \E r \in Requests :
              pc[r] \in {"released", "dispatcher", "placement?", "placement", "tuning"}
        \/ \E x \in Installers : /\ pc[x] \in {"announced", "installing"}
                                 /\ Task[x] = pendTuning

(* A pending tuning is switched to, or replaced by another, in the end.    *)
TuningSwitches == \A t \in Tunings : (pendTuning = t) ~> (pendTuning # t)

(* A request that has given its reservation back gets out of               *)
(* complete_schedule: the safe point is always reached and left again.     *)
CompletionEnds == \A r \in Requests : (pc[r] = "released") ~> (pc[r] = "done")

(* Every reservation ends with its request.                                *)
ReservationReleased == \A r \in Requests : pc[r] = "done" => r \notin active

(* Whatever the service installs changes under no request: "Applies cache  *)
(* budget changes only at scheduler safe points", and the same of plans,   *)
(* dispatchers, placements and tunings, on the deferred path too.          *)
installed == <<dispatcher, placement, tuning, elastic, plan>>
ChangesAtSafePoints == [][installed' # installed => active = {}]_vars
=============================================================================
