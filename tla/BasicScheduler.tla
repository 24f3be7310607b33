---------------------------- MODULE BasicScheduler ----------------------------
(***************************************************************************)
(* BasicScheduler of vllm_apple/scheduler.py with the two components it    *)
(* owns: the schedule queue and the device ledger (whose modules this one  *)
(* extends), the memory admission controller, adaptive scheduling, the     *)
(* execution and placement plans and the maintenance lease.                *)
(*                                                                         *)
(* _policy_lock is the variable lock.  A critical section that touches     *)
(* nothing shared outside the lock is one action; the sections that use    *)
(* the queue or the ledger more than once (both have locks of their own,   *)
(* and cancel, dequeue, transfer and pipelines use them without the policy *)
(* lock) hold the lock over several actions.                               *)
(*                                                                         *)
(* Processes: Clients call admit and complete directly (the API server     *)
(* through RuntimeService); Workers run steal_next, admit_next and         *)
(* complete_queued; Cancellers run cancel; Pipelines run                   *)
(* execute_device_pipeline; the remaining actions are the monitor and the  *)
(* planner threads, which hold no state between calls.                     *)
(***************************************************************************)
EXTENDS ScheduleQueue, DeviceLedger, Sequences

CONSTANTS
    Clients, Workers, Cancellers, Pipelines,
    Bytes,        \* estimated_memory_bytes of a job
    Batch,        \* batch_size of a job
    Phase,        \* "prefill", "decode" or "auxiliary"
    Rank,         \* priority rank of a token
    Chain,        \* _dispatch_candidates of a job's operator
    FallbackJobs, \* jobs whose holder runs execute_with_fallback
    Stages,       \* stages of a pipeline: a set of backends
    StageBytes,   \* unified_memory_bytes of a pipeline stage
    Pressures, Thermals, LowPowers, Preferences,   \* adaptive inputs
    Plans,        \* execution plan ids
    PlanBatch,    \* batch limits of a plan, per phase
    Placements,   \* device placement plan ids
    PlacedOn,     \* the backend a placement plan gives a job, or NoBackend
    Dispatchers,  \* installable dispatchers: the backends whose probe passed
    Owners,       \* maintenance owners
    AppleSilicon, \* hardware.is_apple_silicon
    None          \* no process, plan, dispatcher, policy or owner

Jobs == Clients \cup Tokens
Procs == Clients \cup Workers \cup Cancellers \cup Pipelines
StageIds(p) == {<<p, b>> : b \in Stages[p]}
MemoryCapacity == Capacity["memory"]

ASSUME SchedulerAssumption ==
    /\ Jobs \cup UNION {StageIds(p) : p \in Pipelines} \subseteq ResIds
    /\ Clients \cap Tokens = {}
    /\ Clients \cap Workers = {} /\ Clients \cap Cancellers = {}
    /\ Clients \cap Pipelines = {} /\ Workers \cap Cancellers = {}
    /\ Workers \cap Pipelines = {} /\ Cancellers \cap Pipelines = {}
    /\ \A p \in Pipelines : StageIds(p) \cap Jobs = {}
    /\ Bytes \in [Jobs -> 0..MaxBytes]
    /\ Batch \in [Jobs -> Nat \ {0}]
    /\ Phase \in [Jobs -> {"prefill", "decode", "auxiliary"}]
    /\ Rank \in [Tokens -> Ranks]
    /\ Chain \in [Jobs -> Seq(Backends)]
    /\ \A j \in Jobs : \E k \in 1..Len(Chain[j]) : Chain[j][k] = CPU
    /\ FallbackJobs \subseteq Jobs
    /\ Stages \in [Pipelines -> SUBSET Backends]
    /\ StageBytes \in 0..MaxBytes
    /\ Pressures \subseteq 0..2 /\ Thermals \subseteq 0..2 /\ LowPowers \subseteq BOOLEAN
    /\ Preferences \subseteq {"automatic", "low_power", "high_performance"}
    /\ PlanBatch \in [Plans -> [prefill : Nat, decode : Nat]]
    /\ PlacedOn \in [Placements -> [Jobs -> Backends \cup {None}]]
    /\ Dispatchers \subseteq SUBSET (Backends \ {CPU})
    /\ None \notin Procs \cup Tokens \cup Plans \cup Placements \cup Owners \cup Backends
    /\ None \notin Dispatchers
    /\ None \notin [pressure : 0..2, thermal : 0..2, low : BOOLEAN, level : 0..2]
    /\ AppleSilicon \in BOOLEAN

VARIABLES
    memReserved,       \* MemoryAdmissionController._reserved
    memHeld,           \* keys of MemoryAdmissionController._reservations
    planOf,            \* execution_plan_id of a job's reservation
    placementOf,       \* device_placement_plan_id of a job's reservation
    lock,              \* owner of _policy_lock between two actions
    policy, pending,   \* _adaptive_policy, _pending_adaptive_policy
    preference,        \* _scheduling_preference
    activePlan, pendingPlan,
    activePlacement, pendingPlacement,
    dispatcher,        \* _operator_dispatcher: the probed backends
    maintenance,       \* _maintenance_owner
    queuedActive,      \* keys of _queued_active
    pc, token,         \* where each process is, and the token it works on
    target,            \* steal_next's target backend
    chain              \* backends a holder's fallback has still to try

memVars == <<memReserved, memHeld, planOf, placementOf>>
adaptiveVars == <<policy, pending, preference>>
planVars == <<activePlan, pendingPlan, activePlacement, pendingPlacement, dispatcher>>
procVars == <<pc, token, target, chain>>
schedVars == <<memReserved, memHeld, planOf, placementOf, lock, policy, pending,
               preference, activePlan, pendingPlan, activePlacement,
               pendingPlacement, dispatcher, maintenance, queuedActive,
               pc, token, target, chain>>
vars == <<queueVars, ledgerVars, schedVars>>

Max3(a, b, c) == CHOOSE m \in {a, b, c} : m >= a /\ m >= b /\ m >= c

(* AdaptiveSchedulingPolicy.from_inputs.  UNKNOWN inputs keep the latest   *)
(* value, which the caller may also pass; FAIR counts as NOMINAL.          *)
FromInputs(pressure, thermal, low, pref) ==
    [pressure |-> pressure, thermal |-> thermal, low |-> low,
     level |-> Max3(pressure, thermal,
                    IF pref = "low_power" \/ (pref = "automatic" /\ low)
                    THEN 1 ELSE 0)]
MaxActive(level) == CASE level = 0 -> 1024 [] level = 1 -> 2 [] OTHER -> 1
MaxBatch(level) == CASE level = 0 -> 2147483647 [] level = 1 -> 4 [] OTHER -> 1

Policies == [pressure : 0..2, thermal : 0..2, low : BOOLEAN, level : 0..2]
States == {"idle", "held", "applying", "dequeued", "failing", "admitted",
           "running", "peeked", "stealing", "stolen", "cancelling", "checked",
           "piping", "finally"}

SchedTypeOK ==
    /\ memReserved \in Int
    /\ memHeld \subseteq Jobs
    /\ planOf \in [Jobs -> Plans \cup {None}]
    /\ placementOf \in [Jobs -> Placements \cup {None}]
    /\ lock \in Procs \cup {None}
    /\ policy \in Policies
    /\ pending \in Policies \cup {None}
    /\ preference \in {"automatic", "low_power", "high_performance"}
    /\ activePlan \in Plans \cup {None} /\ pendingPlan \in Plans \cup {None}
    /\ activePlacement \in Placements \cup {None}
    /\ pendingPlacement \in Placements \cup {None}
    /\ dispatcher \in Dispatchers \cup {None}
    /\ maintenance \in Owners \cup {None}
    /\ queuedActive \subseteq Tokens
    /\ pc \in [Procs -> States]
    /\ token \in [Workers \cup Cancellers -> Tokens \cup {None}]
    /\ target \in [Workers -> Backends \cup {None}]
    /\ chain \in [Jobs -> Seq(Backends)]

TypeOK == QueueTypeOK /\ LedgerTypeOK /\ SchedTypeOK

SchedInit ==
    /\ memReserved = 0
    /\ memHeld = {}
    /\ planOf = [j \in Jobs |-> None]
    /\ placementOf = [j \in Jobs |-> None]
    /\ lock = None
    /\ preference = "automatic"
    /\ \E p \in Pressures, t \in Thermals, l \in LowPowers :
           policy = FromInputs(p, t, l, "automatic")
    /\ pending = None
    /\ activePlan = None /\ pendingPlan = None
    /\ activePlacement = None /\ pendingPlacement = None
    /\ dispatcher \in Dispatchers \cup {None}
    /\ maintenance = None
    /\ queuedActive = {}
    /\ pc = [x \in Procs |-> "idle"]
    /\ token = [x \in Workers \cup Cancellers |-> None]
    /\ target = [w \in Workers |-> None]
    /\ chain = [j \in Jobs |-> <<>>]

Init == QueueInit /\ LedgerInit /\ SchedInit

-----------------------------------------------------------------------------
(* dispatch_decision: the selected backend followed by its fallbacks.      *)
Placed(j) == IF activePlacement = None THEN None ELSE PlacedOn[activePlacement][j]
Candidates(j) ==
    IF policy.level = 2 THEN <<CPU>>
    ELSE IF Placed(j) = None THEN Chain[j]
    ELSE <<Placed(j)>> \o SelectSeq(Chain[j], LAMBDA b : b # Placed(j))
Decision(j) ==
    IF dispatcher # None
    THEN SelectSeq(Candidates(j), LAMBDA b : b = CPU \/ b \in dispatcher)
    ELSE IF AppleSilicon THEN Candidates(j) ELSE <<CPU>>
Selected(j) == Head(Decision(j))
Fallbacks(j) == {Decision(j)[k] : k \in 2..Len(Decision(j))}

Unlocked == lock = None
Go(x, state) == pc' = [pc EXCEPT ![x] = state]
HasActiveWork == memHeld # {} \/ live # {}

(* _validate_plan_admission: auxiliary work has no batch limit.            *)
WithinPlan(j) ==
    (activePlan # None /\ Phase[j] # "auxiliary") => Batch[j] <= PlanBatch[activePlan][Phase[j]]

(* The checks of _admit_selected before any reservation is made ...        *)
AdmissibleInMaintenance(j) ==
    /\ WithinPlan(j)
    /\ Batch[j] <= MaxBatch(policy.level)
    /\ Cardinality(memHeld) < MaxActive(policy.level)
Admissible(j) ==
    /\ maintenance = None
    /\ WithinPlan(j)
    /\ Batch[j] <= MaxBatch(policy.level)
    /\ Cardinality(memHeld) < MaxActive(policy.level)
(* ... and the two capacity checks, of the memory controller and of the    *)
(* ledger.  A ledger refusal releases the memory reservation again.        *)
HasCapacity(j, b) ==
    /\ Bytes[j] <= MemoryCapacity - memReserved
    /\ CanReserve(ForBackend(b, Bytes[j]))

AdmitSelected(j, b) ==
    /\ b \in Backends
    /\ Admissible(j)
    /\ HasCapacity(j, b)
    /\ Reserve(j, ForBackend(b, Bytes[j]))
    /\ memReserved' = memReserved + Bytes[j]
    /\ memHeld' = memHeld \cup {j}
    /\ planOf' = [planOf EXCEPT ![j] = activePlan]
    /\ placementOf' = [placementOf EXCEPT ![j] = activePlacement]

(* memory.release and device_resources.release of one reservation; each    *)
(* ignores an id it does not know.                                         *)
ReleaseMemoryOnly(j) ==
    /\ IF j \in memHeld
       THEN memReserved' = memReserved - Bytes[j] /\ memHeld' = memHeld \ {j}
       ELSE UNCHANGED <<memReserved, memHeld>>
    /\ UNCHANGED <<planOf, placementOf>>
    /\ UNCHANGED ledgerVars
ReleaseJob(j) ==
    /\ IF j \in memHeld
       THEN memReserved' = memReserved - Bytes[j] /\ memHeld' = memHeld \ {j}
       ELSE UNCHANGED <<memReserved, memHeld>>
    /\ planOf' = [planOf EXCEPT ![j] = None]
    /\ placementOf' = [placementOf EXCEPT ![j] = None]
    /\ IF j \in live THEN Release(j) ELSE UNCHANGED ledgerVars

(* apply_pending_adaptive_policy, with the policy lock held.               *)
ApplyPending ==
    IF pending # None /\ ~HasActiveWork
    THEN policy' = pending /\ pending' = None
    ELSE UNCHANGED <<policy, pending>>

(* finish_claim whose result the caller ignores.                           *)
FinishIfClaimed(t) == IF t \in claimed THEN FinishClaim(t) ELSE UNCHANGED queueVars

-----------------------------------------------------------------------------
(* Clients: admit ... complete(reservation).  A refused admit raises and   *)
(* changes nothing.                                                        *)
ClientAdmit(c) ==
    /\ pc[c] = "idle" /\ Unlocked
    /\ AdmitSelected(c, Selected(c))
    /\ Go(c, "held")
    /\ UNCHANGED <<queueVars, lock, adaptiveVars, planVars, maintenance,
                   queuedActive, token, target, chain>>

ClientCompleteOnly(c) ==
    /\ pc[c] = "held" /\ chain[c] = <<>> /\ Unlocked
    /\ ReleaseJob(c)
    /\ Go(c, "idle")
    /\ UNCHANGED <<queueVars, lock, adaptiveVars, planVars, maintenance,
                   queuedActive, token, target, chain>>
ClientComplete(c) ==
    /\ pc[c] = "held" /\ chain[c] = <<>> /\ Unlocked
    /\ ReleaseJob(c)
    /\ lock' = c
    /\ Go(c, "applying")
    /\ UNCHANGED <<queueVars, adaptiveVars, planVars, maintenance,
                   queuedActive, token, target, chain>>

(* The end of complete and complete_queued: apply_pending_adaptive_policy, *)
(* then the policy lock is released.                                       *)
ApplyAndUnlock(x) ==
    /\ pc[x] = "applying" /\ lock = x
    /\ ApplyPending
    /\ lock' = None
    /\ Go(x, "idle")
    /\ UNCHANGED <<queueVars, ledgerVars, memVars, preference, planVars,
                   maintenance, queuedActive, token, target, chain>>

-----------------------------------------------------------------------------
(* submit: the application thread enqueues a request.                      *)
Submit(t) ==
    /\ Enqueue(t, Rank[t])
    /\ UNCHANGED <<ledgerVars, schedVars>>

(* admit_next, step by step: dequeue ...                                   *)
Dequeue(w) ==
    /\ pc[w] = "idle"
    /\ \E t \in Tokens :
          /\ ClaimHead(t)
          /\ token' = [token EXCEPT ![w] = t]
    /\ Go(w, "dequeued")
    /\ UNCHANGED <<ledgerVars, memVars, lock, adaptiveVars, planVars,
                   maintenance, queuedActive, target, chain>>
(* ... which pops every tombstone when no request is waiting ...           *)
DequeueNothing(w) ==
    /\ pc[w] = "idle"
    /\ queued = {} /\ heap # {}
    /\ TrimHeap
    /\ UNCHANGED <<ledgerVars, schedVars>>
(* ... admit, under the policy lock ...                                    *)
AdmitDequeued(w) ==
    /\ pc[w] = "dequeued" /\ Unlocked
    /\ AdmitSelected(token[w], Selected(token[w]))
    /\ Go(w, "admitted")
    /\ UNCHANGED <<queueVars, lock, adaptiveVars, planVars, maintenance,
                   queuedActive, token, target, chain>>
AdmitDequeuedFails(w) ==
    /\ pc[w] = "dequeued" /\ Unlocked
    /\ ~(Admissible(token[w]) /\ HasCapacity(token[w], Selected(token[w])))
    /\ Go(w, "failing")
    /\ UNCHANGED <<queueVars, ledgerVars, memVars, lock, adaptiveVars, planVars,
                   maintenance, queuedActive, token, target, chain>>
(* ... and after a failure finish_claim, outside the lock: the request is  *)
(* dropped and QueuedAdmissionError reported.                              *)
DropFailedKeepsClaim(w) ==
    /\ pc[w] = "failing"
    /\ Go(w, "idle")
    /\ token' = [token EXCEPT ![w] = None]
    /\ UNCHANGED <<queueVars, ledgerVars, memVars, lock, adaptiveVars, planVars,
                   maintenance, queuedActive, target, chain>>
DropFailed(w) ==
    /\ pc[w] = "failing"
    /\ FinishIfClaimed(token[w])
    /\ Go(w, "idle")
    /\ token' = [token EXCEPT ![w] = None]
    /\ UNCHANGED <<ledgerVars, memVars, lock, adaptiveVars, planVars,
                   maintenance, queuedActive, target, chain>>
(* The second critical section of admit_next: the token becomes active,    *)
(* or, when it was cancelled since the dequeue, its reservation is undone. *)
ActivateAdmitted(w) ==
    /\ pc[w] = "admitted" /\ Unlocked
    /\ FinishClaim(token[w])
    /\ queuedActive' = queuedActive \cup {token[w]}
    /\ Go(w, "running")
    /\ UNCHANGED <<ledgerVars, memVars, lock, adaptiveVars, planVars,
                   maintenance, token, target, chain>>
RollBackLeaks(w) ==
    /\ pc[w] = "admitted" /\ Unlocked
    /\ token[w] \notin claimed
    /\ Go(w, "idle")
    /\ token' = [token EXCEPT ![w] = None]
    /\ UNCHANGED <<queueVars, ledgerVars, memVars, lock, adaptiveVars, planVars,
                   maintenance, queuedActive, target, chain>>
RollBackAdmitted(w) ==
    /\ pc[w] = "admitted" /\ Unlocked
    /\ token[w] \notin claimed
    /\ ReleaseJob(token[w])
    /\ Go(w, "idle")
    /\ token' = [token EXCEPT ![w] = None]
    /\ UNCHANGED <<queueVars, lock, adaptiveVars, planVars, maintenance,
                   queuedActive, target, chain>>

(* complete_queued by the worker, once the operation is over.  It finds    *)
(* nothing to do when a cancel has already released the token.             *)
CompleteQueued(w) ==
    /\ pc[w] = "running" /\ chain[token[w]] = <<>> /\ Unlocked
    /\ IF token[w] \in queuedActive
       THEN /\ queuedActive' = queuedActive \ {token[w]}
            /\ ReleaseJob(token[w])
            /\ lock' = w
            /\ Go(w, "applying")
       ELSE /\ Go(w, "idle")
            /\ UNCHANGED <<ledgerVars, memVars, lock, queuedActive>>
    /\ token' = [token EXCEPT ![w] = None]
    /\ UNCHANGED <<queueVars, adaptiveVars, planVars, maintenance, target, chain>>

-----------------------------------------------------------------------------
(* steal_next holds the policy lock from its first test to its return.     *)
MaySteal == maintenance = None /\ dispatcher # None /\ policy.level = 0

(* peek that leads to no steal: only dead heap entries are dropped.        *)
StealNothing(w) ==
    /\ pc[w] = "idle" /\ Unlocked /\ MaySteal
    /\ TrimHeap
    /\ UNCHANGED <<ledgerVars, schedVars>>
(* The head may run on b, an idle fallback of the busy backend selected    *)
(* for it ...                                                              *)
StealPeek(w, b) ==
    /\ pc[w] = "idle" /\ Unlocked /\ MaySteal
    /\ \E t \in queued :
          /\ AtHead(t)
          /\ b # Selected(t) /\ b \in Fallbacks(t)
          /\ CanSteal(Selected(t), b)
          /\ token' = [token EXCEPT ![w] = t]
    /\ TrimHeap
    /\ target' = [target EXCEPT ![w] = b]
    /\ lock' = w
    /\ Go(w, "peeked")
    /\ UNCHANGED <<ledgerVars, memVars, adaptiveVars, planVars, maintenance,
                   queuedActive, chain>>
(* ... and claim_head takes it if it is still the head: the queue is also  *)
(* used without the policy lock.                                           *)
StealClaimUnchecked(w) ==
    /\ pc[w] = "peeked"
    /\ claimed' = claimed \cup {token[w]}
    /\ queued' = queued \ {token[w]}
    /\ entry' = [entry EXCEPT ![token[w]] = arrival[token[w]]]
    /\ heap' = {e \in Trimmed : e.token # token[w]}
    /\ Go(w, "stealing")
    /\ UNCHANGED <<stamped, sequence, arrival, ledgerVars, memVars, lock, adaptiveVars,
                   planVars, maintenance, queuedActive, token, target, chain>>
StealClaim(w) ==
    /\ pc[w] = "peeked"
    /\ ClaimHead(token[w])
    /\ Go(w, "stealing")
    /\ UNCHANGED <<ledgerVars, memVars, lock, adaptiveVars, planVars, maintenance,
                   queuedActive, token, target, chain>>
(* _admit_selected(steal_from): the ledger tests the pair again.           *)
StealAdmit(w) ==
    /\ pc[w] = "stealing"
    /\ CanSteal(Selected(token[w]), target[w])
    /\ AdmitSelected(token[w], target[w])
    /\ Go(w, "stolen")
    /\ UNCHANGED <<queueVars, lock, adaptiveVars, planVars, maintenance,
                   queuedActive, token, target, chain>>
EndSteal(w, state) ==
    /\ Go(w, state)
    /\ lock' = None
    /\ target' = [target EXCEPT ![w] = None]
(* Another worker or a cancel has taken the head, or a better one came.    *)
StealMisses(w) ==
    /\ pc[w] = "peeked"
    /\ ~AtHead(token[w])
    /\ TrimHeap
    /\ EndSteal(w, "idle")
    /\ token' = [token EXCEPT ![w] = None]
    /\ UNCHANGED <<ledgerVars, memVars, adaptiveVars, planVars, maintenance,
                   queuedActive, chain>>
(* A capacity failure restores the claim (restore_claim returns False when *)
(* the token was cancelled meanwhile) ...                                  *)
StealRestore(w) ==
    LET t == token[w] IN
    /\ pc[w] = "stealing"
    /\ Admissible(t)
    /\ ~(CanSteal(Selected(t), target[w]) /\ HasCapacity(t, target[w]))
    /\ IF t \in claimed THEN RestoreClaim(t) ELSE UNCHANGED queueVars
    /\ EndSteal(w, "idle")
    /\ token' = [token EXCEPT ![w] = None]
    /\ UNCHANGED <<ledgerVars, memVars, adaptiveVars, planVars, maintenance,
                   queuedActive, chain>>
(* ... any other refusal drops the request and reports it.                 *)
StealRefused(w) ==
    /\ pc[w] = "stealing"
    /\ ~Admissible(token[w])
    /\ FinishIfClaimed(token[w])
    /\ EndSteal(w, "idle")
    /\ token' = [token EXCEPT ![w] = None]
    /\ UNCHANGED <<ledgerVars, memVars, adaptiveVars, planVars, maintenance,
                   queuedActive, chain>>
StealActivate(w) ==
    /\ pc[w] = "stolen"
    /\ FinishClaim(token[w])
    /\ queuedActive' = queuedActive \cup {token[w]}
    /\ EndSteal(w, "running")
    /\ UNCHANGED <<ledgerVars, memVars, adaptiveVars, planVars, maintenance,
                   token, chain>>
(* The stolen token was cancelled: complete(reservation).                  *)
StealUndo(w) ==
    /\ pc[w] = "stolen"
    /\ token[w] \notin claimed
    /\ ReleaseJob(token[w])
    /\ Go(w, "applying")
    /\ target' = [target EXCEPT ![w] = None]
    /\ token' = [token EXCEPT ![w] = None]
    /\ UNCHANGED <<queueVars, lock, adaptiveVars, planVars, maintenance,
                   queuedActive, chain>>

-----------------------------------------------------------------------------
(* cancel(token): the queue first, without the policy lock ...             *)
CancelWaiting(x, t) ==
    /\ pc[x] = "idle" /\ ~Fresh(t)
    /\ QueueCancel(t)
    /\ UNCHANGED <<ledgerVars, schedVars>>
CancelMisses(x, t) ==
    /\ pc[x] = "idle" /\ ~Fresh(t)
    /\ QueueCancelFails(t)
    /\ token' = [token EXCEPT ![x] = t]
    /\ Go(x, "cancelling")
    /\ UNCHANGED <<queueVars, ledgerVars, memVars, lock, adaptiveVars, planVars,
                   maintenance, queuedActive, target, chain>>
(* ... then complete_queued, which may find the token active or gone.      *)
CancelActive(x) ==
    /\ pc[x] = "cancelling" /\ Unlocked
    /\ IF token[x] \in queuedActive
       THEN /\ queuedActive' = queuedActive \ {token[x]}
            /\ ReleaseJob(token[x])
            /\ lock' = x
            /\ Go(x, "applying")
       ELSE /\ Go(x, "idle")
            /\ UNCHANGED <<ledgerVars, memVars, lock, queuedActive>>
    /\ token' = [token EXCEPT ![x] = None]
    /\ UNCHANGED <<queueVars, adaptiveVars, planVars, maintenance, target, chain>>

-----------------------------------------------------------------------------
(* execute_with_fallback by the holder of a reservation (a client, or the  *)
(* worker running a token): the chain is decided once, without the lock.   *)
Holds(x, j) == \/ x = j /\ pc[x] = "held"
               \/ x \in Workers /\ pc[x] = "running" /\ token[x] = j
StartFallback(x, j) ==
    /\ j \in FallbackJobs
    /\ Holds(x, j) /\ chain[j] = <<>>
    /\ Decision(j) \in Seq(Backends) \ {<<>>}
    /\ chain' = [chain EXCEPT ![j] = Decision(j)]
    /\ UNCHANGED <<queueVars, ledgerVars, memVars, lock, adaptiveVars, planVars,
                   maintenance, queuedActive, pc, token, target>>
(* prepare moves the device reservation to the next backend of the chain;  *)
(* then the attempt succeeds (or fails for good), or the next one is due.  *)
AttemptBackend(x, j) ==
    /\ Holds(x, j) /\ chain[j] # <<>>
    /\ Transfer(j, ForBackend(Head(chain[j]), Bytes[j]))
    /\ \E rest \in {<<>>, Tail(chain[j])} : chain' = [chain EXCEPT ![j] = rest]
    /\ UNCHANGED <<queueVars, memVars, lock, adaptiveVars, planVars,
                   maintenance, queuedActive, pc, token, target>>
(* A backend without capacity is skipped; a reservation that a cancel has  *)
(* released in the meantime ends the execution with a ValueError.          *)
AttemptRefusedReleases(x, j) ==
    /\ Holds(x, j) /\ chain[j] # <<>>
    /\ j \in live => ~CanTransfer(j, ForBackend(Head(chain[j]), Bytes[j]))
    /\ chain' = [chain EXCEPT ![j] = IF j \in live THEN Tail(@) ELSE <<>>]
    /\ IF j \in live THEN Release(j) ELSE UNCHANGED ledgerVars
    /\ UNCHANGED <<queueVars, memVars, lock, adaptiveVars, planVars,
                   maintenance, queuedActive, pc, token, target>>
AttemptRefused(x, j) ==
    /\ Holds(x, j) /\ chain[j] # <<>>
    /\ j \in live => ~CanTransfer(j, ForBackend(Head(chain[j]), Bytes[j]))
    /\ chain' = [chain EXCEPT ![j] = IF j \in live THEN Tail(@) ELSE <<>>]
    /\ UNCHANGED <<queueVars, ledgerVars, memVars, lock, adaptiveVars, planVars,
                   maintenance, queuedActive, pc, token, target>>

-----------------------------------------------------------------------------
(* execute_device_pipeline: the level is tested under the policy lock, the *)
(* pipeline runs without it.                                               *)
StageRequests(p) ==
    [i \in StageIds(p) |-> ForBackend(i[2], StageBytes)]
PipelineStart(p) ==
    /\ pc[p] = "idle" /\ Unlocked
    /\ policy.level = 0
    /\ Go(p, "checked")
    /\ UNCHANGED <<queueVars, ledgerVars, memVars, lock, adaptiveVars, planVars,
                   maintenance, queuedActive, token, target, chain>>
PipelineReserve(p) ==
    /\ pc[p] = "checked"
    /\ IF CanReserveMany(StageRequests(p))
       THEN ReserveMany(StageRequests(p)) /\ Go(p, "piping")
       ELSE UNCHANGED ledgerVars /\ Go(p, "finally")
    /\ UNCHANGED <<queueVars, memVars, lock, adaptiveVars, planVars,
                   maintenance, queuedActive, token, target, chain>>
(* The stages end, in success or failure; one release per reservation.     *)
PipelineRelease(p) ==
    /\ pc[p] = "piping"
    /\ \E i \in StageIds(p) :
          /\ Release(i)
          /\ IF StageIds(p) \cap live = {i} THEN Go(p, "finally") ELSE UNCHANGED pc
    /\ UNCHANGED <<queueVars, memVars, lock, adaptiveVars, planVars,
                   maintenance, queuedActive, token, target, chain>>
PipelineApply(p) ==
    /\ pc[p] = "finally" /\ Unlocked
    /\ ApplyPending
    /\ Go(p, "idle")
    /\ UNCHANGED <<queueVars, ledgerVars, memVars, lock, preference, planVars,
                   maintenance, queuedActive, token, target, chain>>

-----------------------------------------------------------------------------
(* update_adaptive_inputs, with the preference the call computes with.     *)
ProposeDefersEqual(proposed) ==
    IF proposed = policy
    THEN pending' = None /\ UNCHANGED policy
    ELSE IF proposed.level <= policy.level /\ HasActiveWork
         THEN pending' = proposed /\ UNCHANGED policy
         ELSE policy' = proposed /\ pending' = None
Propose(proposed) ==
    IF proposed = policy
    THEN pending' = None /\ UNCHANGED policy
    ELSE IF proposed.level < policy.level /\ HasActiveWork
         THEN pending' = proposed /\ UNCHANGED policy
         ELSE policy' = proposed /\ pending' = None
Latest == IF pending = None THEN policy ELSE pending
UpdateAdaptiveInputs ==
    /\ Unlocked
    /\ \E p \in Pressures, t \in Thermals, l \in LowPowers :
           Propose(FromInputs(p, t, l, preference))
    /\ UNCHANGED <<queueVars, ledgerVars, memVars, lock, preference, planVars,
                   maintenance, queuedActive, procVars>>
SetSchedulingPreference ==
    /\ Unlocked
    /\ \E f \in Preferences :
          /\ preference' = f
          /\ Propose(FromInputs(Latest.pressure, Latest.thermal, Latest.low, f))
    /\ UNCHANGED <<queueVars, ledgerVars, memVars, lock, planVars,
                   maintenance, queuedActive, procVars>>

(* request_execution_plan and apply_pending_execution_plan.                *)
RequestPlan(p) ==
    /\ Unlocked
    /\ IF p = activePlan THEN pendingPlan' = None /\ UNCHANGED activePlan
       ELSE IF memHeld # {} THEN pendingPlan' = p /\ UNCHANGED activePlan
       ELSE activePlan' = p /\ pendingPlan' = None
    /\ UNCHANGED <<queueVars, ledgerVars, memVars, lock, adaptiveVars,
                   activePlacement, pendingPlacement, dispatcher, maintenance,
                   queuedActive, procVars>>
ApplyPendingPlan ==
    /\ Unlocked
    /\ pendingPlan # None /\ memHeld = {}
    /\ activePlan' = pendingPlan
    /\ pendingPlan' = None
    /\ UNCHANGED <<queueVars, ledgerVars, memVars, lock, adaptiveVars,
                   activePlacement, pendingPlacement, dispatcher, maintenance,
                   queuedActive, procVars>>

(* request_device_placement_plan: needs a probe-gated dispatcher whose     *)
(* profile the plan matches.                                               *)
RequestPlacement(p) ==
    /\ Unlocked
    /\ dispatcher # None
    /\ IF p = activePlacement THEN pendingPlacement' = None /\ UNCHANGED activePlacement
       ELSE IF memHeld # {} THEN pendingPlacement' = p /\ UNCHANGED activePlacement
       ELSE activePlacement' = p /\ pendingPlacement' = None
    /\ UNCHANGED <<queueVars, ledgerVars, memVars, lock, adaptiveVars,
                   activePlan, pendingPlan, dispatcher, maintenance,
                   queuedActive, procVars>>
ApplyPendingPlacement ==
    /\ Unlocked
    /\ pendingPlacement # None /\ memHeld = {}
    /\ activePlacement' = pendingPlacement
    /\ pendingPlacement' = None
    /\ UNCHANGED <<queueVars, ledgerVars, memVars, lock, adaptiveVars,
                   activePlan, pendingPlan, dispatcher, maintenance,
                   queuedActive, procVars>>

(* install_operator_dispatcher.                                            *)
InstallDispatcher(d) ==
    /\ Unlocked
    /\ memHeld = {}
    /\ dispatcher' = d
    /\ UNCHANGED <<queueVars, ledgerVars, memVars, lock, adaptiveVars,
                   activePlan, pendingPlan, activePlacement, pendingPlacement,
                   maintenance, queuedActive, procVars>>

(* RuntimeService.install_contention_profile: replace the evidence inside  *)
(* at_safe_point, which looks at memory reservations only.                 *)
InstallContention(pairs) ==
    /\ Unlocked
    /\ memHeld = {}
    /\ ReplaceEvidence(pairs)
    /\ UNCHANGED <<queueVars, schedVars>>

BeginMaintenanceBusy(o) ==
    /\ Unlocked
    /\ maintenance = None
    /\ maintenance' = o
    /\ UNCHANGED <<queueVars, ledgerVars, memVars, lock, adaptiveVars, planVars,
                   queuedActive, procVars>>
BeginMaintenance(o) ==
    /\ Unlocked
    /\ maintenance = None /\ memHeld = {}
    /\ maintenance' = o
    /\ UNCHANGED <<queueVars, ledgerVars, memVars, lock, adaptiveVars, planVars,
                   queuedActive, procVars>>
EndMaintenance(o) ==
    /\ Unlocked
    /\ maintenance = o
    /\ maintenance' = None
    /\ UNCHANGED <<queueVars, ledgerVars, memVars, lock, adaptiveVars, planVars,
                   queuedActive, procVars>>

-----------------------------------------------------------------------------
ClientNext == \E c \in Clients : ClientAdmit(c) \/ ClientComplete(c)
WorkerNext ==
    \E w \in Workers :
       \/ Dequeue(w) \/ DequeueNothing(w)
       \/ AdmitDequeued(w) \/ AdmitDequeuedFails(w) \/ DropFailed(w)
       \/ ActivateAdmitted(w) \/ RollBackAdmitted(w) \/ CompleteQueued(w)
       \/ StealNothing(w) \/ (\E b \in Backends : StealPeek(w, b))
       \/ StealClaim(w) \/ StealMisses(w) \/ StealAdmit(w) \/ StealRestore(w) \/ StealRefused(w)
       \/ StealActivate(w) \/ StealUndo(w)
CancelNext ==
    \E x \in Cancellers :
       \/ \E t \in Tokens : CancelWaiting(x, t) \/ CancelMisses(x, t)
       \/ CancelActive(x)
FallbackNext ==
    \E x \in Clients \cup Workers, j \in Jobs :
       StartFallback(x, j) \/ AttemptBackend(x, j) \/ AttemptRefused(x, j)
PipelineNext ==
    \E p \in Pipelines :
       \/ PipelineStart(p) \/ PipelineReserve(p)
       \/ PipelineRelease(p) \/ PipelineApply(p)
ControlNext ==
    \/ UpdateAdaptiveInputs \/ SetSchedulingPreference
    \/ (\E p \in Plans : RequestPlan(p)) \/ ApplyPendingPlan
    \/ (\E p \in Placements : RequestPlacement(p)) \/ ApplyPendingPlacement
    \/ \E d \in Dispatchers : InstallDispatcher(d)
    \/ \E ps \in SUBSET Pairs : InstallContention(ps)
    \/ \E o \in Owners : BeginMaintenance(o) \/ EndMaintenance(o)

Next ==
    \/ ClientNext
    \/ \E t \in Tokens : Submit(t)
    \/ WorkerNext
    \/ CancelNext
    \/ FallbackNext
    \/ PipelineNext
    \/ \E x \in Procs : ApplyAndUnlock(x)
    \/ ControlNext

Spec == Init /\ [][Next]_vars

-----------------------------------------------------------------------------
(* Who will release a memory reservation.                                  *)
Admitting == {w \in Workers : pc[w] \in {"admitted", "stolen"}}
Owned ==
    {c \in Clients : pc[c] = "held"} \cup queuedActive \cup {token[w] : w \in Admitting}

(* No reservation leaks and none is released under its owner: the memory   *)
(* controller holds exactly the reservations that a client, an active      *)
(* queued token or a worker about to activate one answers for, through     *)
(* every race of admit_next, steal_next and cancel.                        *)
ReservationsOwned == memHeld = Owned

(* Both books agree: a job has a device reservation exactly while it has a *)
(* memory reservation, for the same bytes, whatever fallback transferred   *)
(* it to.                                                                  *)
Paired ==
    /\ live \cap Jobs = memHeld
    /\ \A j \in memHeld : request[j].bytes = Bytes[j]

(* _reserved is the sum of the live reservations and within the budget.    *)
MemoryExact ==
    /\ memReserved = SumOver(memHeld, Bytes, MaxBytes)
    /\ memReserved <= MemoryCapacity

(* A claim belongs to one worker, and an active token has left the queue:  *)
(* no request is ever admitted twice.                                      *)
Claimers == {w \in Workers : pc[w] \in {"dequeued", "failing", "admitted", "stealing", "stolen"}}
OneClaimer ==
    /\ \A v, w \in Claimers : v # w => token[v] # token[w]
    /\ claimed \subseteq {token[w] : w \in Claimers}
    /\ queuedActive \cap (queued \cup {token[w] : w \in Claimers}) = {}

(* Plans switch only at a safe point: every live reservation was made      *)
(* under the plans that are active now.                                    *)
PlanPinned ==
    \A j \in memHeld : planOf[j] = activePlan /\ placementOf[j] = activePlacement

(* The maintenance lease excludes admitted requests.                       *)
MaintenanceExcludesRequests == maintenance # None => memHeld = {}

(* Only relaxations are ever deferred, and a policy is relaxed only when   *)
(* nothing is running: "Restrict new work immediately; relax only after    *)
(* active work drains".                                                    *)
PendingIsRelaxation == pending # None => pending.level < policy.level
RelaxesOnlyWhenIdle ==
    [][policy'.level < policy.level => ~HasActiveWork]_vars

(* A deferred relaxation is stranded when nobody is left to apply it: no   *)
(* running work that will complete, no completion about to apply it.       *)
Stranded ==
    /\ pending # None
    /\ ~HasActiveWork
    /\ \A x \in Procs : pc[x] \notin {"applying", "piping", "finally"}
(* One release path strands one, and no other: the rollback of admit_next, *)
(* of a request cancelled while it was being admitted.  Completions,       *)
(* steals that are undone, pipelines and other cancels all apply what is   *)
(* pending, and so does the next of them after a rollback.                 *)
StrandedByRollbackOnly ==
    [][Stranded' => Stranded \/ \E w \in Workers : RollBackAdmitted(w)]_vars
=============================================================================
