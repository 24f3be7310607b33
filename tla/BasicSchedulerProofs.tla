------------------------- MODULE BasicSchedulerProofs -------------------------
(***************************************************************************)
(* The scheduler keeps its books for any number of clients, workers,       *)
(* cancellers, pipelines and jobs.  The argument goes in five steps: types *)
(* and the place of each process; every step is a step of the queue and of *)
(* the ledger, so their theorems carry over; every step changes the memory *)
(* and the device book in one of seven ways (BookNext), from which the     *)
(* properties of the books follow; ownership of claims and reservations,   *)
(* process by process; and that only one of the ways to give a reservation *)
(* back leaves a deferred relaxation with nobody to apply it.              *)
(***************************************************************************)
EXTENDS BasicScheduler, QueueLedgerProofs

-----------------------------------------------------------------------------
(* Where each kind of process can be, and that it has a token there.       *)
WorkerStates == {"idle", "dequeued", "failing", "admitted", "running",
                 "peeked", "stealing", "stolen", "applying"}
Busy == {"dequeued", "failing", "admitted", "running", "peeked", "stealing", "stolen"}
Roles ==
    /\ \A c \in Clients : pc[c] \in {"idle", "held", "applying"}
    /\ \A w \in Workers : pc[w] \in WorkerStates
    /\ \A x \in Cancellers : pc[x] \in {"idle", "cancelling", "applying"}
    /\ \A p \in Pipelines : pc[p] \in {"idle", "checked", "piping", "finally"}
WorksOnToken ==
    /\ \A w \in Workers : pc[w] \in Busy => token[w] \in Tokens
    /\ \A x \in Cancellers : pc[x] = "cancelling" => token[x] \in Tokens
SchedType == SchedTypeOK /\ Roles /\ WorksOnToken

(* The policies the adaptive inputs lead to.                               *)
LEMMA FromInputsType ==
  ASSUME NEW p \in 0..2, NEW t \in 0..2, NEW l \in BOOLEAN, NEW f
  PROVE  FromInputs(p, t, l, f) \in Policies
<1> DEFINE q == IF f = "low_power" \/ (f = "automatic" /\ l) THEN 1 ELSE 0
<1>1. q \in 0..2
  OBVIOUS
<1> HIDE DEF q
<1>2. \E m \in {p, t, q} : m >= p /\ m >= t /\ m >= q
  BY <1>1
<1>3. Max3(p, t, q) \in 0..2
  BY <1>1, <1>2 DEF Max3
<1>4. FromInputs(p, t, l, f) = [pressure |-> p, thermal |-> t, low |-> l, level |-> Max3(p, t, q)]
  BY DEF FromInputs, q
<1> QED
  BY <1>3, <1>4 DEF Policies

LEMMA SchedTypeInit == Init => SchedType
<1> SUFFICES ASSUME Init PROVE SchedType
  OBVIOUS
<1>1. policy \in Policies
  <2>1. PICK p \in Pressures, t \in Thermals, l \in LowPowers :
           policy = FromInputs(p, t, l, "automatic")
    BY DEF Init, SchedInit
  <2>2. p \in 0..2 /\ t \in 0..2 /\ l \in BOOLEAN
    BY SchedulerAssumption
  <2> QED
    BY <2>1, <2>2, FromInputsType
<1>2. SchedTypeOK
  BY <1>1 DEF Init, SchedInit, SchedTypeOK, States
<1>3. Roles /\ WorksOnToken
  BY DEF Init, SchedInit, Roles, WorksOnToken, WorkerStates, Busy, Procs
<1> QED
  BY <1>2, <1>3 DEF SchedType

LEMMA ProcsDisjoint ==
  /\ Clients \cap Workers = {} /\ Clients \cap Cancellers = {}
  /\ Clients \cap Pipelines = {} /\ Workers \cap Cancellers = {}
  /\ Workers \cap Pipelines = {} /\ Cancellers \cap Pipelines = {}
BY SchedulerAssumption

LEMMA BytesType == Bytes \in [Jobs -> 0..MaxBytes] /\ MaxBytes \in Nat
BY SchedulerAssumption, LedgerAssumption

LEMMA NoneNotPolicy == None \notin Policies
BY SchedulerAssumption DEF Policies

LEMMA LatestType ==
  ASSUME SchedTypeOK
  PROVE  Latest \in Policies
BY DEF SchedTypeOK, Latest

LEMMA ReleaseJobType ==
  ASSUME SchedTypeOK, NEW j \in Jobs, ReleaseJob(j)
  PROVE  /\ memReserved' \in Int /\ memHeld' \subseteq Jobs
         /\ planOf' \in [Jobs -> Plans \cup {None}]
         /\ placementOf' \in [Jobs -> Placements \cup {None}]
<1>1. Bytes[j] \in Int
  BY BytesType
<1>2. CASE j \in memHeld
  <2>1. memReserved' = memReserved - Bytes[j] /\ memHeld' = memHeld \ {j}
    BY <1>2, Zenon DEF ReleaseJob
  <2> QED
    BY <1>1, <2>1 DEF SchedTypeOK, ReleaseJob
<1>3. CASE j \notin memHeld
  <2>1. UNCHANGED <<memReserved, memHeld>>
    BY <1>3, Zenon DEF ReleaseJob
  <2> QED
    BY <2>1 DEF SchedTypeOK, ReleaseJob
<1> QED
  BY <1>2, <1>3

LEMMA SchedTypeNext == SchedType /\ QueueTypeOK /\ [Next]_vars => SchedType'
<1> SUFFICES ASSUME SchedType, QueueTypeOK, [Next]_vars PROVE SchedType'
  OBVIOUS
<1> USE DEF SchedType, SchedTypeOK, Roles, WorksOnToken, Procs, States, WorkerStates,
            Busy, Go, memVars, adaptiveVars, planVars, procVars
<1>1. ASSUME NEW c \in Clients, ClientAdmit(c) PROVE SchedType'
  BY <1>1, ProcsDisjoint, BytesType DEF ClientAdmit, AdmitSelected, Jobs
<1>2. ASSUME NEW c \in Clients, ClientComplete(c) PROVE SchedType'
  BY <1>2, ProcsDisjoint, ReleaseJobType DEF ClientComplete, Jobs
<1>3. ASSUME NEW x \in Procs, ApplyAndUnlock(x) PROVE SchedType'
  BY <1>3, ProcsDisjoint, NoneNotPolicy DEF ApplyAndUnlock, ApplyPending
<1>4. ASSUME NEW t \in Tokens, Submit(t) PROVE SchedType'
  BY <1>4 DEF Submit, schedVars
<1>5. ASSUME NEW w \in Workers, Dequeue(w) PROVE SchedType'
  BY <1>5, ProcsDisjoint DEF Dequeue
<1>6. ASSUME NEW w \in Workers, DequeueNothing(w) PROVE SchedType'
  BY <1>6 DEF DequeueNothing, schedVars
<1>7. ASSUME NEW w \in Workers, AdmitDequeued(w) PROVE SchedType'
  BY <1>7, ProcsDisjoint, BytesType DEF AdmitDequeued, AdmitSelected, Jobs
<1>8. ASSUME NEW w \in Workers, AdmitDequeuedFails(w) PROVE SchedType'
  BY <1>8, ProcsDisjoint DEF AdmitDequeuedFails
<1>9. ASSUME NEW w \in Workers, DropFailed(w) PROVE SchedType'
  BY <1>9, ProcsDisjoint DEF DropFailed
<1>10. ASSUME NEW w \in Workers, ActivateAdmitted(w) PROVE SchedType'
  BY <1>10, ProcsDisjoint DEF ActivateAdmitted
<1>11. ASSUME NEW w \in Workers, RollBackAdmitted(w) PROVE SchedType'
  BY <1>11, ProcsDisjoint, ReleaseJobType DEF RollBackAdmitted, Jobs
<1>12. ASSUME NEW w \in Workers, CompleteQueued(w) PROVE SchedType'
  <2>1. token[w] \in Tokens /\ token[w] \in Jobs
    BY <1>12 DEF CompleteQueued, Jobs
  <2>2. token' = [token EXCEPT ![w] = None] /\ UNCHANGED <<adaptiveVars, planVars, maintenance, target, chain>>
    BY <1>12 DEF CompleteQueued
  <2>3. CASE token[w] \in queuedActive
    <3>1. queuedActive' = queuedActive \ {token[w]} /\ lock' = w /\ pc' = [pc EXCEPT ![w] = "applying"]
      BY <1>12, <2>3, Zenon DEF CompleteQueued
    <3>2. ReleaseJob(token[w])
      BY <1>12, <2>3, Zenon DEF CompleteQueued
    <3>3. /\ memReserved' \in Int /\ memHeld' \subseteq Jobs
          /\ planOf' \in [Jobs -> Plans \cup {None}]
          /\ placementOf' \in [Jobs -> Placements \cup {None}]
      BY <2>1, <3>2, ReleaseJobType, Zenon
    <3> QED
      BY <2>1, <2>2, <3>1, <3>3, ProcsDisjoint
  <2>4. CASE token[w] \notin queuedActive
    <3>1. pc' = [pc EXCEPT ![w] = "idle"] /\ UNCHANGED <<memVars, lock, queuedActive>>
      BY <1>12, <2>4, Zenon DEF CompleteQueued
    <3> QED
      BY <2>1, <2>2, <3>1, ProcsDisjoint
  <2> QED
    BY <2>3, <2>4
<1>13. ASSUME NEW w \in Workers, StealNothing(w) PROVE SchedType'
  BY <1>13 DEF StealNothing, schedVars
<1>14. ASSUME NEW w \in Workers, NEW b \in Backends, StealPeek(w, b) PROVE SchedType'
  BY <1>14, ProcsDisjoint DEF StealPeek, QueueTypeOK
<1>14c. ASSUME NEW w \in Workers, StealClaim(w) PROVE SchedType'
  BY <1>14c, ProcsDisjoint DEF StealClaim
<1>14m. ASSUME NEW w \in Workers, StealMisses(w) PROVE SchedType'
  BY <1>14m, ProcsDisjoint DEF StealMisses, EndSteal
<1>15. ASSUME NEW w \in Workers, StealAdmit(w) PROVE SchedType'
  BY <1>15, ProcsDisjoint, BytesType DEF StealAdmit, AdmitSelected, Jobs
<1>16. ASSUME NEW w \in Workers, StealRestore(w) PROVE SchedType'
  BY <1>16, ProcsDisjoint DEF StealRestore, EndSteal
<1>17. ASSUME NEW w \in Workers, StealRefused(w) PROVE SchedType'
  BY <1>17, ProcsDisjoint DEF StealRefused, EndSteal
<1>18. ASSUME NEW w \in Workers, StealActivate(w) PROVE SchedType'
  BY <1>18, ProcsDisjoint DEF StealActivate, EndSteal
<1>19. ASSUME NEW w \in Workers, StealUndo(w) PROVE SchedType'
  BY <1>19, ProcsDisjoint, ReleaseJobType DEF StealUndo, Jobs
<1>20. ASSUME NEW x \in Cancellers, NEW t \in Tokens, CancelWaiting(x, t) PROVE SchedType'
  BY <1>20 DEF CancelWaiting, schedVars
<1>21. ASSUME NEW x \in Cancellers, NEW t \in Tokens, CancelMisses(x, t) PROVE SchedType'
  BY <1>21, ProcsDisjoint DEF CancelMisses
<1>22. ASSUME NEW x \in Cancellers, CancelActive(x) PROVE SchedType'
  <2>1. token[x] \in Tokens /\ token[x] \in Jobs
    BY <1>22 DEF CancelActive, Jobs
  <2>2. token' = [token EXCEPT ![x] = None] /\ UNCHANGED <<adaptiveVars, planVars, maintenance, target, chain>>
    BY <1>22 DEF CancelActive
  <2>3. CASE token[x] \in queuedActive
    <3>1. queuedActive' = queuedActive \ {token[x]} /\ lock' = x /\ pc' = [pc EXCEPT ![x] = "applying"]
      BY <1>22, <2>3, Zenon DEF CancelActive
    <3>2. ReleaseJob(token[x])
      BY <1>22, <2>3, Zenon DEF CancelActive
    <3>3. /\ memReserved' \in Int /\ memHeld' \subseteq Jobs
          /\ planOf' \in [Jobs -> Plans \cup {None}]
          /\ placementOf' \in [Jobs -> Placements \cup {None}]
      BY <2>1, <3>2, ReleaseJobType, Zenon
    <3> QED
      BY <2>1, <2>2, <3>1, <3>3, ProcsDisjoint
  <2>4. CASE token[x] \notin queuedActive
    <3>1. pc' = [pc EXCEPT ![x] = "idle"] /\ UNCHANGED <<memVars, lock, queuedActive>>
      BY <1>22, <2>4, Zenon DEF CancelActive
    <3> QED
      BY <2>1, <2>2, <3>1, ProcsDisjoint
  <2> QED
    BY <2>3, <2>4
<1>23. ASSUME NEW x \in Clients \cup Workers, NEW j \in Jobs, StartFallback(x, j) PROVE SchedType'
  BY <1>23 DEF StartFallback
<1>24. ASSUME NEW x \in Clients \cup Workers, NEW j \in Jobs, AttemptBackend(x, j) PROVE SchedType'
  <2>1. chain[j] \in Seq(Backends) /\ chain[j] # <<>>
    BY <1>24 DEF AttemptBackend
  <2>2. Tail(chain[j]) \in Seq(Backends) /\ <<>> \in Seq(Backends)
    BY <2>1
  <2>3. PICK rest \in {<<>>, Tail(chain[j])} : chain' = [chain EXCEPT ![j] = rest]
    BY <1>24, Zenon DEF AttemptBackend
  <2>4. rest \in Seq(Backends)
    BY <2>2
  <2>5. chain' \in [Jobs -> Seq(Backends)]
    BY <2>3, <2>4
  <2> QED
    BY <1>24, <2>5 DEF AttemptBackend
<1>25. ASSUME NEW x \in Clients \cup Workers, NEW j \in Jobs, AttemptRefused(x, j) PROVE SchedType'
  BY <1>25 DEF AttemptRefused
<1>26. ASSUME NEW p \in Pipelines, PipelineStart(p) PROVE SchedType'
  BY <1>26, ProcsDisjoint DEF PipelineStart
<1>27. ASSUME NEW p \in Pipelines, PipelineReserve(p) PROVE SchedType'
  <2>1. PICK s \in {"piping", "finally"} : pc' = [pc EXCEPT ![p] = s]
    BY <1>27, Zenon DEF PipelineReserve
  <2>2. UNCHANGED <<memVars, lock, adaptiveVars, planVars, maintenance, queuedActive, token, target, chain>>
    BY <1>27 DEF PipelineReserve
  <2> QED
    BY <2>1, <2>2, ProcsDisjoint
<1>28. ASSUME NEW p \in Pipelines, PipelineRelease(p) PROVE SchedType'
  <2>1. pc' = [pc EXCEPT ![p] = "finally"] \/ pc' = pc
    BY <1>28, Zenon DEF PipelineRelease
  <2>2. UNCHANGED <<memVars, lock, adaptiveVars, planVars, maintenance, queuedActive, token, target, chain>>
    BY <1>28 DEF PipelineRelease
  <2>3. CASE pc' = pc
    BY <2>2, <2>3
  <2>4. CASE pc' = [pc EXCEPT ![p] = "finally"]
    BY <2>2, <2>4, ProcsDisjoint
  <2> QED
    BY <2>1, <2>3, <2>4
<1>29. ASSUME NEW p \in Pipelines, PipelineApply(p) PROVE SchedType'
  BY <1>29, ProcsDisjoint, NoneNotPolicy DEF PipelineApply, ApplyPending
<1>30. CASE UpdateAdaptiveInputs
  <2>1. PICK p \in Pressures, t \in Thermals, l \in LowPowers :
           Propose(FromInputs(p, t, l, preference))
    BY <1>30 DEF UpdateAdaptiveInputs
  <2>2. FromInputs(p, t, l, preference) \in Policies
    BY SchedulerAssumption, FromInputsType
  <2> QED
    BY <1>30, <2>1, <2>2 DEF UpdateAdaptiveInputs, Propose
<1>31. CASE SetSchedulingPreference
  <2>1. PICK f \in Preferences :
          /\ preference' = f
          /\ Propose(FromInputs(Latest.pressure, Latest.thermal, Latest.low, f))
    BY <1>31 DEF SetSchedulingPreference
  <2>2. Latest.pressure \in 0..2 /\ Latest.thermal \in 0..2 /\ Latest.low \in BOOLEAN
    BY LatestType DEF Policies
  <2>3. FromInputs(Latest.pressure, Latest.thermal, Latest.low, f) \in Policies
    BY <2>2, FromInputsType
  <2>4. f \in {"automatic", "low_power", "high_performance"}
    BY SchedulerAssumption
  <2> QED
    BY <1>31, <2>1, <2>3, <2>4 DEF SetSchedulingPreference, Propose
<1>32. ASSUME NEW q \in Plans, RequestPlan(q) PROVE SchedType'
  BY <1>32 DEF RequestPlan
<1>33. CASE ApplyPendingPlan
  BY <1>33 DEF ApplyPendingPlan
<1>34. ASSUME NEW q \in Placements, RequestPlacement(q) PROVE SchedType'
  BY <1>34 DEF RequestPlacement
<1>35. CASE ApplyPendingPlacement
  BY <1>35 DEF ApplyPendingPlacement
<1>36. ASSUME NEW d \in Dispatchers, InstallDispatcher(d) PROVE SchedType'
  BY <1>36 DEF InstallDispatcher
<1>37. ASSUME NEW ps \in SUBSET Pairs, InstallContention(ps) PROVE SchedType'
  BY <1>37 DEF InstallContention, schedVars
<1>38. ASSUME NEW o \in Owners, BeginMaintenance(o) PROVE SchedType'
  BY <1>38 DEF BeginMaintenance
<1>39. ASSUME NEW o \in Owners, EndMaintenance(o) PROVE SchedType'
  BY <1>39 DEF EndMaintenance
<1>40. CASE UNCHANGED vars
  BY <1>40 DEF vars, schedVars
<1> QED
  BY <1>1, <1>2, <1>3, <1>4, <1>5, <1>6, <1>7, <1>8, <1>9, <1>10, <1>11, <1>12, <1>13,
     <1>14, <1>14c, <1>14m, <1>15, <1>16, <1>17, <1>18, <1>19, <1>20, <1>21, <1>22, <1>23, <1>24, <1>25,
     <1>26, <1>27, <1>28, <1>29, <1>30, <1>31, <1>32, <1>33, <1>34, <1>35, <1>36, <1>37,
     <1>38, <1>39, <1>40
     DEF Next, ClientNext, WorkerNext, CancelNext, FallbackNext, PipelineNext, ControlNext

-----------------------------------------------------------------------------
(* Every step of the scheduler is a step of its queue, or leaves it alone. *)
LEMMA QueueStep ==
  ASSUME QueueTypeOK, [Next]_vars
  PROVE  [QueueNext]_queueVars
<1>0. claimed \subseteq Tokens /\ queued \subseteq Tokens /\ Rank \in [Tokens -> Ranks]
  BY SchedulerAssumption DEF QueueTypeOK
<1> USE DEF QueueNext
<1>1. ASSUME NEW c \in Clients, ClientAdmit(c) PROVE [QueueNext]_queueVars
  BY <1>1 DEF ClientAdmit
<1>2. ASSUME NEW c \in Clients, ClientComplete(c) PROVE [QueueNext]_queueVars
  BY <1>2 DEF ClientComplete
<1>3. ASSUME NEW x \in Procs, ApplyAndUnlock(x) PROVE [QueueNext]_queueVars
  BY <1>3 DEF ApplyAndUnlock
<1>4. ASSUME NEW t \in Tokens, Submit(t) PROVE [QueueNext]_queueVars
  BY <1>4, <1>0 DEF Submit
<1>5. ASSUME NEW w \in Workers, Dequeue(w) PROVE [QueueNext]_queueVars
  BY <1>5 DEF Dequeue
<1>6. ASSUME NEW w \in Workers, DequeueNothing(w) PROVE [QueueNext]_queueVars
  BY <1>6 DEF DequeueNothing
<1>7. ASSUME NEW w \in Workers, AdmitDequeued(w) PROVE [QueueNext]_queueVars
  BY <1>7 DEF AdmitDequeued
<1>8. ASSUME NEW w \in Workers, AdmitDequeuedFails(w) PROVE [QueueNext]_queueVars
  BY <1>8 DEF AdmitDequeuedFails
<1>9. ASSUME NEW w \in Workers, DropFailed(w) PROVE [QueueNext]_queueVars
  <2>1. CASE token[w] \in claimed
    BY <1>9, <1>0, <2>1 DEF DropFailed, FinishIfClaimed
  <2>2. CASE token[w] \notin claimed
    BY <1>9, <2>2 DEF DropFailed, FinishIfClaimed
  <2> QED
    BY <2>1, <2>2
<1>10. ASSUME NEW w \in Workers, ActivateAdmitted(w) PROVE [QueueNext]_queueVars
  <2>1. FinishClaim(token[w]) /\ token[w] \in claimed
    BY <1>10 DEF ActivateAdmitted, FinishClaim
  <2> QED
    BY <1>0, <2>1
<1>11. ASSUME NEW w \in Workers, RollBackAdmitted(w) PROVE [QueueNext]_queueVars
  BY <1>11 DEF RollBackAdmitted
<1>12. ASSUME NEW w \in Workers, CompleteQueued(w) PROVE [QueueNext]_queueVars
  BY <1>12 DEF CompleteQueued
<1>13. ASSUME NEW w \in Workers, StealNothing(w) PROVE [QueueNext]_queueVars
  BY <1>13 DEF StealNothing
<1>14. ASSUME NEW w \in Workers, NEW b \in Backends, StealPeek(w, b) PROVE [QueueNext]_queueVars
  BY <1>14 DEF StealPeek
<1>14c. ASSUME NEW w \in Workers, StealClaim(w) PROVE [QueueNext]_queueVars
  <2>1. token[w] \in Tokens
    BY <1>14c, <1>0 DEF StealClaim, ClaimHead, IsHead, IsLive
  <2> QED
    BY <1>14c, <2>1 DEF StealClaim
<1>14m. ASSUME NEW w \in Workers, StealMisses(w) PROVE [QueueNext]_queueVars
  BY <1>14m DEF StealMisses
<1>15. ASSUME NEW w \in Workers, StealAdmit(w) PROVE [QueueNext]_queueVars
  BY <1>15 DEF StealAdmit
<1>16. ASSUME NEW w \in Workers, StealRestore(w) PROVE [QueueNext]_queueVars
  <2>1. CASE token[w] \in claimed
    BY <1>16, <1>0, <2>1 DEF StealRestore
  <2>2. CASE token[w] \notin claimed
    BY <1>16, <2>2 DEF StealRestore
  <2> QED
    BY <2>1, <2>2
<1>17. ASSUME NEW w \in Workers, StealRefused(w) PROVE [QueueNext]_queueVars
  <2>1. CASE token[w] \in claimed
    BY <1>17, <1>0, <2>1 DEF StealRefused, FinishIfClaimed
  <2>2. CASE token[w] \notin claimed
    BY <1>17, <2>2 DEF StealRefused, FinishIfClaimed
  <2> QED
    BY <2>1, <2>2
<1>18. ASSUME NEW w \in Workers, StealActivate(w) PROVE [QueueNext]_queueVars
  <2>1. FinishClaim(token[w]) /\ token[w] \in claimed
    BY <1>18 DEF StealActivate, FinishClaim
  <2> QED
    BY <1>0, <2>1
<1>19. ASSUME NEW w \in Workers, StealUndo(w) PROVE [QueueNext]_queueVars
  BY <1>19 DEF StealUndo
<1>20. ASSUME NEW x \in Cancellers, NEW t \in Tokens, CancelWaiting(x, t) PROVE [QueueNext]_queueVars
  BY <1>20 DEF CancelWaiting, QueueCancel
<1>21. ASSUME NEW x \in Cancellers, NEW t \in Tokens, CancelMisses(x, t) PROVE [QueueNext]_queueVars
  BY <1>21 DEF CancelMisses
<1>22. ASSUME NEW x \in Cancellers, CancelActive(x) PROVE [QueueNext]_queueVars
  BY <1>22 DEF CancelActive
<1>23. ASSUME NEW x \in Clients \cup Workers, NEW j \in Jobs, StartFallback(x, j) PROVE [QueueNext]_queueVars
  BY <1>23 DEF StartFallback
<1>24. ASSUME NEW x \in Clients \cup Workers, NEW j \in Jobs, AttemptBackend(x, j) PROVE [QueueNext]_queueVars
  BY <1>24 DEF AttemptBackend
<1>25. ASSUME NEW x \in Clients \cup Workers, NEW j \in Jobs, AttemptRefused(x, j) PROVE [QueueNext]_queueVars
  BY <1>25 DEF AttemptRefused
<1>26. ASSUME NEW p \in Pipelines, PipelineStart(p) PROVE [QueueNext]_queueVars
  BY <1>26 DEF PipelineStart
<1>27. ASSUME NEW p \in Pipelines, PipelineReserve(p) PROVE [QueueNext]_queueVars
  BY <1>27 DEF PipelineReserve
<1>28. ASSUME NEW p \in Pipelines, PipelineRelease(p) PROVE [QueueNext]_queueVars
  BY <1>28 DEF PipelineRelease
<1>29. ASSUME NEW p \in Pipelines, PipelineApply(p) PROVE [QueueNext]_queueVars
  BY <1>29 DEF PipelineApply
<1>30. CASE UpdateAdaptiveInputs
  BY <1>30 DEF UpdateAdaptiveInputs
<1>31. CASE SetSchedulingPreference
  BY <1>31 DEF SetSchedulingPreference
<1>32. ASSUME NEW q \in Plans, RequestPlan(q) PROVE [QueueNext]_queueVars
  BY <1>32 DEF RequestPlan
<1>33. CASE ApplyPendingPlan
  BY <1>33 DEF ApplyPendingPlan
<1>34. ASSUME NEW q \in Placements, RequestPlacement(q) PROVE [QueueNext]_queueVars
  BY <1>34 DEF RequestPlacement
<1>35. CASE ApplyPendingPlacement
  BY <1>35 DEF ApplyPendingPlacement
<1>36. ASSUME NEW d \in Dispatchers, InstallDispatcher(d) PROVE [QueueNext]_queueVars
  BY <1>36 DEF InstallDispatcher
<1>37. ASSUME NEW ps \in SUBSET Pairs, InstallContention(ps) PROVE [QueueNext]_queueVars
  BY <1>37 DEF InstallContention
<1>38. ASSUME NEW o \in Owners, BeginMaintenance(o) PROVE [QueueNext]_queueVars
  BY <1>38 DEF BeginMaintenance
<1>39. ASSUME NEW o \in Owners, EndMaintenance(o) PROVE [QueueNext]_queueVars
  BY <1>39 DEF EndMaintenance
<1>40. CASE UNCHANGED vars
  BY <1>40 DEF vars
<1> QED
  BY <1>1, <1>2, <1>3, <1>4, <1>5, <1>6, <1>7, <1>8, <1>9, <1>10, <1>11, <1>12, <1>13,
     <1>14, <1>14c, <1>14m, <1>15, <1>16, <1>17, <1>18, <1>19, <1>20, <1>21, <1>22, <1>23, <1>24, <1>25,
     <1>26, <1>27, <1>28, <1>29, <1>30, <1>31, <1>32, <1>33, <1>34, <1>35, <1>36, <1>37,
     <1>38, <1>39, <1>40
     DEF Next, ClientNext, WorkerNext, CancelNext, FallbackNext, PipelineNext, ControlNext

(* The requests the scheduler makes are requests of the ledger.            *)
LEMMA JobRequest ==
  ASSUME NEW j \in Jobs, NEW b \in Backends
  PROVE  ForBackend(b, Bytes[j]) \in Requests /\ j \in ResIds
<1>1. Bytes[j] \in 0..MaxBytes
  BY BytesType
<1> QED
  BY <1>1, SchedulerAssumption DEF ForBackend, Requests

LEMMA StageIdsType ==
  ASSUME NEW p \in Pipelines
  PROVE  StageIds(p) \subseteq ResIds /\ StageIds(p) \cap Jobs = {}
BY SchedulerAssumption

LEMMA StageRequestsType ==
  ASSUME NEW p \in Pipelines, CanReserveMany(StageRequests(p))
  PROVE  StageRequests(p) \in ManyRequests
<1>1. StageRequests(p) \in [StageIds(p) -> Requests]
  <2>1. ASSUME NEW i \in StageIds(p) PROVE ForBackend(i[2], StageBytes) \in Requests
    <3>1. PICK b \in Stages[p] : i = <<p, b>>
      BY DEF StageIds
    <3>2. b \in Backends /\ StageBytes \in 0..MaxBytes
      BY SchedulerAssumption
    <3> QED
      BY <3>1, <3>2 DEF ForBackend, Requests
  <2> QED
    BY <2>1 DEF StageRequests
<1>2. DOMAIN StageRequests(p) = StageIds(p)
  BY DEF StageRequests
<1>3. Cardinality(StageIds(p)) \in 2..3
  BY <1>2 DEF CanReserveMany
<1> QED
  BY <1>1, <1>3, StageIdsType DEF ManyRequests

(* Every step changes the two books in one of these ways: nothing but the  *)
(* evidence or the backend of a held job, a paired admission, a paired     *)
(* release, or a pipeline's group.                                         *)
AdmitBook == \E j \in Jobs, b \in Backends : AdmitSelected(j, b)
ReleaseBook == \E j \in Jobs : ReleaseJob(j)
MoveBook == \E j \in Jobs, b \in Backends : Transfer(j, ForBackend(b, Bytes[j]))
GroupBook == \E p \in Pipelines : ReserveMany(StageRequests(p))
StageBook == \E p \in Pipelines : \E i \in StageIds(p) : Release(i)
EvidenceBook == \E ps \in SUBSET Pairs : ReplaceEvidence(ps)
BookNext ==
    \/ AdmitBook
    \/ ReleaseBook
    \/ UNCHANGED memVars
       /\ (UNCHANGED ledgerVars \/ MoveBook \/ GroupBook \/ StageBook \/ EvidenceBook)

LEMMA BookStep ==
  ASSUME SchedType, [Next]_vars
  PROVE  BookNext
<1>0. \A w \in Workers : pc[w] \in Busy => token[w] \in Jobs
  BY DEF SchedType, WorksOnToken, Jobs
<1> USE DEF BookNext
<1>1. ASSUME NEW c \in Clients, ClientAdmit(c) PROVE BookNext
  <2>1. AdmitSelected(c, Selected(c)) /\ c \in Jobs
    BY <1>1 DEF ClientAdmit, Jobs
  <2>2. Selected(c) \in Backends
    BY <2>1 DEF AdmitSelected
  <2> QED
    BY <2>1, <2>2 DEF AdmitBook
<1>2. ASSUME NEW c \in Clients, ClientComplete(c) PROVE BookNext
  BY <1>2 DEF ClientComplete, ReleaseBook, Jobs
<1>3. ASSUME NEW x \in Procs, ApplyAndUnlock(x) PROVE BookNext
  BY <1>3 DEF ApplyAndUnlock
<1>4. ASSUME NEW t \in Tokens, Submit(t) PROVE BookNext
  BY <1>4 DEF Submit, schedVars, memVars
<1>5. ASSUME NEW w \in Workers, Dequeue(w) PROVE BookNext
  BY <1>5 DEF Dequeue
<1>6. ASSUME NEW w \in Workers, DequeueNothing(w) PROVE BookNext
  BY <1>6 DEF DequeueNothing, schedVars, memVars
<1>7. ASSUME NEW w \in Workers, AdmitDequeued(w) PROVE BookNext
  <2>1. AdmitSelected(token[w], Selected(token[w])) /\ token[w] \in Jobs
    BY <1>7, <1>0 DEF AdmitDequeued, Busy
  <2>2. Selected(token[w]) \in Backends
    BY <2>1 DEF AdmitSelected
  <2> QED
    BY <2>1, <2>2 DEF AdmitBook
<1>8. ASSUME NEW w \in Workers, AdmitDequeuedFails(w) PROVE BookNext
  BY <1>8 DEF AdmitDequeuedFails
<1>9. ASSUME NEW w \in Workers, DropFailed(w) PROVE BookNext
  BY <1>9 DEF DropFailed
<1>10. ASSUME NEW w \in Workers, ActivateAdmitted(w) PROVE BookNext
  BY <1>10 DEF ActivateAdmitted
<1>11. ASSUME NEW w \in Workers, RollBackAdmitted(w) PROVE BookNext
  BY <1>11, <1>0 DEF RollBackAdmitted, ReleaseBook, Busy
<1>12. ASSUME NEW w \in Workers, CompleteQueued(w) PROVE BookNext
  <2>1. CASE token[w] \in queuedActive
    BY <1>12, <1>0, <2>1, Zenon DEF CompleteQueued, ReleaseBook, Busy
  <2>2. CASE token[w] \notin queuedActive
    BY <1>12, <2>2, Zenon DEF CompleteQueued
  <2> QED
    BY <2>1, <2>2
<1>13. ASSUME NEW w \in Workers, StealNothing(w) PROVE BookNext
  BY <1>13 DEF StealNothing, schedVars, memVars
<1>14. ASSUME NEW w \in Workers, NEW b \in Backends, StealPeek(w, b) PROVE BookNext
  BY <1>14 DEF StealPeek
<1>14c. ASSUME NEW w \in Workers, StealClaim(w) PROVE BookNext
  BY <1>14c DEF StealClaim
<1>14m. ASSUME NEW w \in Workers, StealMisses(w) PROVE BookNext
  BY <1>14m DEF StealMisses
<1>15. ASSUME NEW w \in Workers, StealAdmit(w) PROVE BookNext
  <2>1. AdmitSelected(token[w], target[w]) /\ token[w] \in Jobs
    BY <1>15, <1>0 DEF StealAdmit, Busy
  <2>2. target[w] \in Backends
    BY <2>1 DEF AdmitSelected
  <2> QED
    BY <2>1, <2>2 DEF AdmitBook
<1>16. ASSUME NEW w \in Workers, StealRestore(w) PROVE BookNext
  BY <1>16 DEF StealRestore
<1>17. ASSUME NEW w \in Workers, StealRefused(w) PROVE BookNext
  BY <1>17 DEF StealRefused
<1>18. ASSUME NEW w \in Workers, StealActivate(w) PROVE BookNext
  BY <1>18 DEF StealActivate
<1>19. ASSUME NEW w \in Workers, StealUndo(w) PROVE BookNext
  BY <1>19, <1>0 DEF StealUndo, ReleaseBook, Busy
<1>20. ASSUME NEW x \in Cancellers, NEW t \in Tokens, CancelWaiting(x, t) PROVE BookNext
  BY <1>20 DEF CancelWaiting, schedVars, memVars
<1>21. ASSUME NEW x \in Cancellers, NEW t \in Tokens, CancelMisses(x, t) PROVE BookNext
  BY <1>21 DEF CancelMisses
<1>22. ASSUME NEW x \in Cancellers, CancelActive(x) PROVE BookNext
  <2>1. CASE token[x] \in queuedActive
    <3>1. ReleaseJob(token[x]) /\ token[x] \in Jobs
      BY <1>22, <2>1 DEF CancelActive, SchedType, SchedTypeOK, Jobs
    <3> QED
      BY <3>1 DEF ReleaseBook
  <2>2. CASE token[x] \notin queuedActive
    BY <1>22, <2>2, Zenon DEF CancelActive
  <2> QED
    BY <2>1, <2>2
<1>23. ASSUME NEW x \in Clients \cup Workers, NEW j \in Jobs, StartFallback(x, j) PROVE BookNext
  BY <1>23 DEF StartFallback
<1>24. ASSUME NEW x \in Clients \cup Workers, NEW j \in Jobs, AttemptBackend(x, j) PROVE BookNext
  <2>1. chain[j] \in Seq(Backends) /\ chain[j] # <<>>
    BY <1>24 DEF AttemptBackend, SchedType, SchedTypeOK
  <2>2. Head(chain[j]) \in Backends
    BY <2>1
  <2> QED
    BY <1>24, <2>2 DEF AttemptBackend, MoveBook
<1>25. ASSUME NEW x \in Clients \cup Workers, NEW j \in Jobs, AttemptRefused(x, j) PROVE BookNext
  BY <1>25 DEF AttemptRefused
<1>26. ASSUME NEW p \in Pipelines, PipelineStart(p) PROVE BookNext
  BY <1>26 DEF PipelineStart
<1>27. ASSUME NEW p \in Pipelines, PipelineReserve(p) PROVE BookNext
  <2>1. ReserveMany(StageRequests(p)) \/ UNCHANGED ledgerVars
    BY <1>27, Zenon DEF PipelineReserve
  <2>2. UNCHANGED memVars
    BY <1>27 DEF PipelineReserve
  <2> QED
    BY <2>1, <2>2 DEF GroupBook
<1>28. ASSUME NEW p \in Pipelines, PipelineRelease(p) PROVE BookNext
  BY <1>28 DEF PipelineRelease, StageBook
<1>29. ASSUME NEW p \in Pipelines, PipelineApply(p) PROVE BookNext
  BY <1>29 DEF PipelineApply
<1>30. CASE UpdateAdaptiveInputs
  BY <1>30 DEF UpdateAdaptiveInputs
<1>31. CASE SetSchedulingPreference
  BY <1>31 DEF SetSchedulingPreference
<1>32. ASSUME NEW q \in Plans, RequestPlan(q) PROVE BookNext
  BY <1>32 DEF RequestPlan
<1>33. CASE ApplyPendingPlan
  BY <1>33 DEF ApplyPendingPlan
<1>34. ASSUME NEW q \in Placements, RequestPlacement(q) PROVE BookNext
  BY <1>34 DEF RequestPlacement
<1>35. CASE ApplyPendingPlacement
  BY <1>35 DEF ApplyPendingPlacement
<1>36. ASSUME NEW d \in Dispatchers, InstallDispatcher(d) PROVE BookNext
  BY <1>36 DEF InstallDispatcher
<1>37. ASSUME NEW ps \in SUBSET Pairs, InstallContention(ps) PROVE BookNext
  BY <1>37 DEF InstallContention, EvidenceBook, schedVars, memVars
<1>38. ASSUME NEW o \in Owners, BeginMaintenance(o) PROVE BookNext
  BY <1>38 DEF BeginMaintenance
<1>39. ASSUME NEW o \in Owners, EndMaintenance(o) PROVE BookNext
  BY <1>39 DEF EndMaintenance
<1>40. CASE UNCHANGED vars
  BY <1>40 DEF vars, schedVars, memVars
<1> QED
  BY <1>1, <1>2, <1>3, <1>4, <1>5, <1>6, <1>7, <1>8, <1>9, <1>10, <1>11, <1>12, <1>13,
     <1>14, <1>14c, <1>14m, <1>15, <1>16, <1>17, <1>18, <1>19, <1>20, <1>21, <1>22, <1>23, <1>24, <1>25,
     <1>26, <1>27, <1>28, <1>29, <1>30, <1>31, <1>32, <1>33, <1>34, <1>35, <1>36, <1>37,
     <1>38, <1>39, <1>40
     DEF Next, ClientNext, WorkerNext, CancelNext, FallbackNext, PipelineNext, ControlNext

LEMMA BookIsLedger ==
  ASSUME SchedType, LedgerTypeOK, BookNext
  PROVE  [LedgerNext]_ledgerVars
<1> USE DEF LedgerNext
<1>1. CASE AdmitBook
  <2>1. PICK j \in Jobs, b \in Backends : Reserve(j, ForBackend(b, Bytes[j]))
    BY <1>1 DEF AdmitBook, AdmitSelected
  <2> QED
    BY <2>1, JobRequest
<1>2. CASE ReleaseBook
  <2>1. PICK j \in Jobs : ReleaseJob(j)
    BY <1>2 DEF ReleaseBook
  <2>2. Release(j) \/ UNCHANGED ledgerVars
    BY <2>1, Zenon DEF ReleaseJob
  <2>3. j \in ResIds
    BY SchedulerAssumption
  <2> QED
    BY <2>2, <2>3
<1>3. CASE MoveBook
  <2>1. PICK j \in Jobs, b \in Backends : Transfer(j, ForBackend(b, Bytes[j]))
    BY <1>3 DEF MoveBook
  <2> QED
    BY <2>1, JobRequest
<1>4. CASE GroupBook
  <2>1. PICK p \in Pipelines : ReserveMany(StageRequests(p))
    BY <1>4 DEF GroupBook
  <2>2. StageRequests(p) \in ManyRequests
    BY <2>1, StageRequestsType DEF ReserveMany
  <2> QED
    BY <2>1, <2>2
<1>5. CASE StageBook
  BY <1>5, StageIdsType DEF StageBook
<1>6. CASE EvidenceBook
  BY <1>6 DEF EvidenceBook
<1> QED
  BY <1>1, <1>2, <1>3, <1>4, <1>5, <1>6 DEF BookNext

-----------------------------------------------------------------------------
(* Types, the queue and the ledger together are inductive.                 *)
PartsInv == SchedType /\ QueueInv /\ LedgerInv

LEMMA PartsInvInit == Init => PartsInv
BY SchedTypeInit, QueueInvInit, LedgerInvInit DEF Init, PartsInv

LEMMA PartsInvNext == PartsInv /\ [Next]_vars => PartsInv'
<1> SUFFICES ASSUME PartsInv, [Next]_vars PROVE PartsInv'
  OBVIOUS
<1>1. SchedType /\ QueueTypeOK /\ LedgerTypeOK
  BY DEF PartsInv, QueueInv, LedgerInv
<1>2. SchedType'
  BY <1>1, SchedTypeNext
<1>3. QueueInv'
  BY <1>1, QueueStep, QueueInvNext DEF PartsInv
<1>4. LedgerInv'
  BY <1>1, BookStep, BookIsLedger, LedgerInvNext DEF PartsInv
<1> QED
  BY <1>2, <1>3, <1>4 DEF PartsInv

(* The scheduler is type correct, and the invariants of its queue and of   *)
(* its ledger hold in every state it reaches.                              *)
THEOREM SchedulerParts == Spec => []PartsInv
BY PartsInvInit, PartsInvNext, PTL DEF Spec

(* The scheduler is type correct.                                          *)
THEOREM SchedulerTypeCorrect == Spec => []TypeOK
<1>1. PartsInv => TypeOK
  BY DEF PartsInv, SchedType, QueueInv, LedgerInv, TypeOK
<1> QED
  BY <1>1, SchedulerParts, PTL

(* The scheduler implements the queue's specification: whatever its        *)
(* threads do, they use the queue as one of its callers may.               *)
THEOREM SchedulerImplementsQueue == Spec => QueueSpec
<1>1. Init => QueueInit
  BY DEF Init
<1>2. PartsInv /\ [Next]_vars => [QueueNext]_queueVars
  BY QueueStep DEF PartsInv, QueueInv
<1> QED
  BY <1>1, <1>2, SchedulerParts, PTL DEF Spec, QueueSpec

(* The scheduler implements the ledger's specification.                    *)
THEOREM SchedulerImplementsLedger == Spec => LedgerSpec
<1>1. Init => LedgerInit
  BY DEF Init
<1>2. PartsInv /\ [Next]_vars => [LedgerNext]_ledgerVars
  BY BookStep, BookIsLedger DEF PartsInv, LedgerInv
<1> QED
  BY <1>1, <1>2, SchedulerParts, PTL DEF Spec, LedgerSpec

-----------------------------------------------------------------------------
(* The books.                                                              *)
LEMMA PairedNext ==
  ASSUME PartsInv, Paired, BookNext
  PROVE  Paired'
<1>0. live \subseteq ResIds /\ request \in [ResIds -> Requests] /\ Jobs \subseteq ResIds
  BY SchedulerAssumption DEF PartsInv, LedgerInv, LedgerTypeOK
<1>1. CASE AdmitBook
  <2>1. PICK j \in Jobs, b \in Backends : AdmitSelected(j, b)
    BY <1>1 DEF AdmitBook
  <2>2. /\ live' = live \cup {j} /\ memHeld' = memHeld \cup {j}
        /\ request' = [request EXCEPT ![j] = ForBackend(b, Bytes[j])]
    BY <2>1 DEF AdmitSelected, Reserve
  <2>3. request'[j].bytes = Bytes[j] /\ \A i \in ResIds : i # j => request'[i] = request[i]
    BY <1>0, <2>2 DEF ForBackend
  <2> QED
    BY <1>0, <2>2, <2>3 DEF Paired
<1>2. CASE ReleaseBook
  <2>1. PICK j \in Jobs : ReleaseJob(j)
    BY <1>2 DEF ReleaseBook
  <2>2. CASE j \in memHeld
    <3>1. j \in live
      BY <2>2 DEF Paired
    <3>2. Release(j) /\ memHeld' = memHeld \ {j}
      BY <2>1, <2>2, <3>1, Zenon DEF ReleaseJob
    <3>3. live' = live \ {j} /\ request' = [request EXCEPT ![j] = NoRequest]
      BY <3>2 DEF Release
    <3> QED
      BY <1>0, <3>2, <3>3 DEF Paired
  <2>3. CASE j \notin memHeld
    <3>1. j \notin live
      BY <2>3 DEF Paired
    <3>2. UNCHANGED <<memReserved, memHeld>> /\ UNCHANGED ledgerVars
      BY <2>1, <2>3, <3>1, Zenon DEF ReleaseJob
    <3> QED
      BY <3>2 DEF Paired, ledgerVars
  <2> QED
    BY <2>2, <2>3
<1>3. CASE UNCHANGED memVars /\ MoveBook
  <2>1. PICK j \in Jobs, b \in Backends : Transfer(j, ForBackend(b, Bytes[j]))
    BY <1>3 DEF MoveBook
  <2>2. live' = live /\ memHeld' = memHeld
        /\ request' = [request EXCEPT ![j] = ForBackend(b, Bytes[j])]
    BY <1>3, <2>1 DEF Transfer, memVars
  <2>3. request'[j].bytes = Bytes[j] /\ \A i \in ResIds : i # j => request'[i] = request[i]
    BY <1>0, <2>2 DEF ForBackend
  <2> QED
    BY <1>0, <2>2, <2>3 DEF Paired
<1>4. CASE UNCHANGED memVars /\ GroupBook
  <2>1. PICK p \in Pipelines : ReserveMany(StageRequests(p))
    BY <1>4 DEF GroupBook
  <2>2. DOMAIN StageRequests(p) = StageIds(p)
    BY DEF StageRequests
  <2>3. live' = live \cup StageIds(p) /\ memHeld' = memHeld
    BY <1>4, <2>1, <2>2 DEF ReserveMany, memVars
  <2>4. \A i \in ResIds \ StageIds(p) : request'[i] = request[i]
    BY <2>1, <2>2 DEF ReserveMany
  <2> QED
    BY <1>0, <2>3, <2>4, StageIdsType DEF Paired
<1>5. CASE UNCHANGED memVars /\ StageBook
  <2>0. PICK p \in Pipelines : \E i \in StageIds(p) : Release(i)
    BY <1>5 DEF StageBook
  <2>1. PICK i \in StageIds(p) : Release(i)
    BY <2>0
  <2>2. live' = live \ {i} /\ request' = [request EXCEPT ![i] = NoRequest] /\ memHeld' = memHeld
    BY <1>5, <2>1 DEF Release, memVars
  <2>3. i \notin Jobs
    BY StageIdsType
  <2> QED
    BY <1>0, <2>2, <2>3 DEF Paired
<1>6. CASE UNCHANGED memVars /\ (EvidenceBook \/ UNCHANGED ledgerVars)
  BY <1>6 DEF EvidenceBook, ReplaceEvidence, ledgerVars, memVars, Paired
<1> QED
  BY <1>1, <1>2, <1>3, <1>4, <1>5, <1>6 DEF BookNext

LEMMA HeldFinite ==
  ASSUME PartsInv, Paired
  PROVE  IsFiniteSet(memHeld)
<1>1. IsFiniteSet(live) /\ memHeld \subseteq live
  BY LiveFinite DEF PartsInv, LedgerInv, Paired
<1> QED
  BY <1>1, FS_Subset

LEMMA MemoryExactNext ==
  ASSUME PartsInv, Paired, MemoryExact, BookNext
  PROVE  MemoryExact'
<1>0. IsFiniteSet(memHeld) /\ MaxBytes \in Nat /\ memReserved \in Int
  BY HeldFinite, BytesType DEF PartsInv, SchedType, SchedTypeOK
<1>1. CASE AdmitBook
  <2>1. PICK j \in Jobs, b \in Backends : AdmitSelected(j, b)
    BY <1>1 DEF AdmitBook
  <2>2. memReserved' = memReserved + Bytes[j] /\ memHeld' = memHeld \cup {j}
        /\ Bytes[j] <= MemoryCapacity - memReserved
    BY <2>1 DEF AdmitSelected, HasCapacity
  <2>3. j \notin memHeld
    BY <2>1 DEF AdmitSelected, Reserve, Paired
  <2>4. Bytes[j] \in 0..MaxBytes
    BY BytesType
  <2>5. SumOver(memHeld \cup {j}, Bytes, MaxBytes) = SumOver(memHeld, Bytes, MaxBytes) + Bytes[j]
    BY <1>0, <2>3, <2>4, SumAdd, ZenonT(60)
  <2>6. SumOver(memHeld, Bytes, MaxBytes)' = SumOver(memHeld \cup {j}, Bytes, MaxBytes)
    BY <2>2
  <2>7. MemoryCapacity \in Nat
    BY LedgerAssumption DEF MemoryCapacity, Dimensions
  <2>8. memReserved' <= MemoryCapacity
    BY <1>0, <2>2, <2>4, <2>7
  <2> QED
    BY <2>2, <2>5, <2>6, <2>8 DEF MemoryExact
<1>2. CASE ReleaseBook
  <2>1. PICK j \in Jobs : ReleaseJob(j)
    BY <1>2 DEF ReleaseBook
  <2>2. CASE j \in memHeld
    <3>1. memReserved' = memReserved - Bytes[j] /\ memHeld' = memHeld \ {j}
      BY <2>1, <2>2, Zenon DEF ReleaseJob
    <3>2. Bytes[j] \in 0..MaxBytes
      BY BytesType
    <3>3. SumOver(memHeld \ {j}, Bytes, MaxBytes) = SumOver(memHeld, Bytes, MaxBytes) - Bytes[j]
      BY <1>0, <2>2, <3>2, SumRemove, ZenonT(60)
    <3>4. SumOver(memHeld, Bytes, MaxBytes)' = SumOver(memHeld \ {j}, Bytes, MaxBytes)
      BY <3>1
    <3>5. MemoryCapacity \in Nat
      BY LedgerAssumption DEF MemoryCapacity, Dimensions
    <3>6. memReserved' <= MemoryCapacity
      BY <1>0, <3>1, <3>2, <3>5 DEF MemoryExact
    <3> QED
      BY <3>1, <3>3, <3>4, <3>6 DEF MemoryExact
  <2>3. CASE j \notin memHeld
    <3>1. UNCHANGED <<memReserved, memHeld>>
      BY <2>1, <2>3, Zenon DEF ReleaseJob
    <3> QED
      BY <3>1 DEF MemoryExact
  <2> QED
    BY <2>2, <2>3
<1>3. CASE UNCHANGED memVars
  BY <1>3 DEF memVars, MemoryExact
<1> QED
  BY <1>1, <1>2, <1>3 DEF BookNext

(* Plans and the maintenance lease change only while nothing is held, but  *)
(* for the end of a lease.                                                 *)
AtSafePoint == memHeld = {} /\ UNCHANGED memVars
LEMMA ControlStep ==
  ASSUME [Next]_vars
  PROVE  /\ UNCHANGED <<activePlan, activePlacement>> \/ AtSafePoint
         /\ maintenance' \in {maintenance, None} \/ AtSafePoint
<1> DEFINE Goal == /\ UNCHANGED <<activePlan, activePlacement>> \/ AtSafePoint
                   /\ maintenance' \in {maintenance, None} \/ AtSafePoint
<1> USE DEF planVars, AtSafePoint
<1>1. ASSUME NEW c \in Clients, ClientAdmit(c) PROVE Goal
  BY <1>1 DEF ClientAdmit
<1>2. ASSUME NEW c \in Clients, ClientComplete(c) PROVE Goal
  BY <1>2 DEF ClientComplete
<1>3. ASSUME NEW x \in Procs, ApplyAndUnlock(x) PROVE Goal
  BY <1>3 DEF ApplyAndUnlock
<1>4. ASSUME NEW t \in Tokens, Submit(t) PROVE Goal
  BY <1>4 DEF Submit, schedVars
<1>5. ASSUME NEW w \in Workers, Dequeue(w) PROVE Goal
  BY <1>5 DEF Dequeue
<1>6. ASSUME NEW w \in Workers, DequeueNothing(w) PROVE Goal
  BY <1>6 DEF DequeueNothing, schedVars
<1>7. ASSUME NEW w \in Workers, AdmitDequeued(w) PROVE Goal
  BY <1>7 DEF AdmitDequeued
<1>8. ASSUME NEW w \in Workers, AdmitDequeuedFails(w) PROVE Goal
  BY <1>8 DEF AdmitDequeuedFails
<1>9. ASSUME NEW w \in Workers, DropFailed(w) PROVE Goal
  BY <1>9 DEF DropFailed
<1>10. ASSUME NEW w \in Workers, ActivateAdmitted(w) PROVE Goal
  BY <1>10 DEF ActivateAdmitted
<1>11. ASSUME NEW w \in Workers, RollBackAdmitted(w) PROVE Goal
  BY <1>11 DEF RollBackAdmitted
<1>12. ASSUME NEW w \in Workers, CompleteQueued(w) PROVE Goal
  BY <1>12 DEF CompleteQueued
<1>13. ASSUME NEW w \in Workers, StealNothing(w) PROVE Goal
  BY <1>13 DEF StealNothing, schedVars
<1>14. ASSUME NEW w \in Workers, NEW b \in Backends, StealPeek(w, b) PROVE Goal
  BY <1>14 DEF StealPeek
<1>14c. ASSUME NEW w \in Workers, StealClaim(w) PROVE Goal
  BY <1>14c DEF StealClaim
<1>14m. ASSUME NEW w \in Workers, StealMisses(w) PROVE Goal
  BY <1>14m DEF StealMisses
<1>15. ASSUME NEW w \in Workers, StealAdmit(w) PROVE Goal
  BY <1>15 DEF StealAdmit
<1>16. ASSUME NEW w \in Workers, StealRestore(w) PROVE Goal
  BY <1>16 DEF StealRestore
<1>17. ASSUME NEW w \in Workers, StealRefused(w) PROVE Goal
  BY <1>17 DEF StealRefused
<1>18. ASSUME NEW w \in Workers, StealActivate(w) PROVE Goal
  BY <1>18 DEF StealActivate
<1>19. ASSUME NEW w \in Workers, StealUndo(w) PROVE Goal
  BY <1>19 DEF StealUndo
<1>20. ASSUME NEW x \in Cancellers, NEW t \in Tokens, CancelWaiting(x, t) PROVE Goal
  BY <1>20 DEF CancelWaiting, schedVars
<1>21. ASSUME NEW x \in Cancellers, NEW t \in Tokens, CancelMisses(x, t) PROVE Goal
  BY <1>21 DEF CancelMisses
<1>22. ASSUME NEW x \in Cancellers, CancelActive(x) PROVE Goal
  BY <1>22 DEF CancelActive
<1>23. ASSUME NEW x \in Clients \cup Workers, NEW j \in Jobs, StartFallback(x, j) PROVE Goal
  BY <1>23 DEF StartFallback
<1>24. ASSUME NEW x \in Clients \cup Workers, NEW j \in Jobs, AttemptBackend(x, j) PROVE Goal
  BY <1>24 DEF AttemptBackend
<1>25. ASSUME NEW x \in Clients \cup Workers, NEW j \in Jobs, AttemptRefused(x, j) PROVE Goal
  BY <1>25 DEF AttemptRefused
<1>26. ASSUME NEW p \in Pipelines, PipelineStart(p) PROVE Goal
  BY <1>26 DEF PipelineStart
<1>27. ASSUME NEW p \in Pipelines, PipelineReserve(p) PROVE Goal
  BY <1>27 DEF PipelineReserve
<1>28. ASSUME NEW p \in Pipelines, PipelineRelease(p) PROVE Goal
  BY <1>28 DEF PipelineRelease
<1>29. ASSUME NEW p \in Pipelines, PipelineApply(p) PROVE Goal
  BY <1>29 DEF PipelineApply
<1>30. CASE UpdateAdaptiveInputs
  BY <1>30 DEF UpdateAdaptiveInputs
<1>31. CASE SetSchedulingPreference
  BY <1>31 DEF SetSchedulingPreference
<1>32. ASSUME NEW q \in Plans, RequestPlan(q) PROVE Goal
  <2>1. activePlan' = activePlan \/ memHeld = {}
    BY <1>32, Zenon DEF RequestPlan
  <2>2. UNCHANGED <<memVars, activePlacement, maintenance>>
    BY <1>32 DEF RequestPlan
  <2> QED
    BY <2>1, <2>2
<1>33. CASE ApplyPendingPlan
  BY <1>33 DEF ApplyPendingPlan
<1>34. ASSUME NEW q \in Placements, RequestPlacement(q) PROVE Goal
  <2>1. activePlacement' = activePlacement \/ memHeld = {}
    BY <1>34, Zenon DEF RequestPlacement
  <2>2. UNCHANGED <<memVars, activePlan, maintenance>>
    BY <1>34 DEF RequestPlacement
  <2> QED
    BY <2>1, <2>2
<1>35. CASE ApplyPendingPlacement
  BY <1>35 DEF ApplyPendingPlacement
<1>36. ASSUME NEW d \in Dispatchers, InstallDispatcher(d) PROVE Goal
  BY <1>36 DEF InstallDispatcher
<1>37. ASSUME NEW ps \in SUBSET Pairs, InstallContention(ps) PROVE Goal
  BY <1>37 DEF InstallContention, schedVars
<1>38. ASSUME NEW o \in Owners, BeginMaintenance(o) PROVE Goal
  BY <1>38 DEF BeginMaintenance
<1>39. ASSUME NEW o \in Owners, EndMaintenance(o) PROVE Goal
  BY <1>39 DEF EndMaintenance
<1>40. CASE UNCHANGED vars
  BY <1>40 DEF vars, schedVars
<1> QED
  BY <1>1, <1>2, <1>3, <1>4, <1>5, <1>6, <1>7, <1>8, <1>9, <1>10, <1>11, <1>12, <1>13,
     <1>14, <1>14c, <1>14m, <1>15, <1>16, <1>17, <1>18, <1>19, <1>20, <1>21, <1>22, <1>23, <1>24, <1>25,
     <1>26, <1>27, <1>28, <1>29, <1>30, <1>31, <1>32, <1>33, <1>34, <1>35, <1>36, <1>37,
     <1>38, <1>39, <1>40
     DEF Next, ClientNext, WorkerNext, CancelNext, FallbackNext, PipelineNext, ControlNext

LEMMA PinnedNext ==
  ASSUME SchedTypeOK, PlanPinned, BookNext,
         UNCHANGED <<activePlan, activePlacement>> \/ AtSafePoint
  PROVE  PlanPinned'
<1>1. CASE AtSafePoint
  BY <1>1 DEF AtSafePoint, PlanPinned, memVars
<1>2. CASE UNCHANGED <<activePlan, activePlacement>> /\ AdmitBook
  <2>1. PICK j \in Jobs, b \in Backends : AdmitSelected(j, b)
    BY <1>2 DEF AdmitBook
  <2>2. /\ memHeld' = memHeld \cup {j}
        /\ planOf' = [planOf EXCEPT ![j] = activePlan]
        /\ placementOf' = [placementOf EXCEPT ![j] = activePlacement]
    BY <2>1 DEF AdmitSelected
  <2> QED
    BY <1>2, <2>2 DEF PlanPinned, SchedTypeOK
<1>3. CASE UNCHANGED <<activePlan, activePlacement>> /\ ReleaseBook
  <2>1. PICK j \in Jobs : ReleaseJob(j)
    BY <1>3 DEF ReleaseBook
  <2>2. memHeld' = memHeld \ {j}
    <3>1. CASE j \in memHeld
      BY <2>1, <3>1, Zenon DEF ReleaseJob
    <3>2. CASE j \notin memHeld
      <4>1. memHeld' = memHeld
        BY <2>1, <3>2, Zenon DEF ReleaseJob
      <4> QED
        BY <3>2, <4>1
    <3> QED
      BY <3>1, <3>2
  <2>3. /\ planOf' = [planOf EXCEPT ![j] = None]
        /\ placementOf' = [placementOf EXCEPT ![j] = None]
    BY <2>1 DEF ReleaseJob
  <2> QED
    BY <1>3, <2>2, <2>3 DEF PlanPinned, SchedTypeOK
<1>4. CASE UNCHANGED <<activePlan, activePlacement>> /\ UNCHANGED memVars
  BY <1>4 DEF PlanPinned, memVars
<1> QED
  BY <1>1, <1>2, <1>3, <1>4 DEF BookNext

LEMMA MaintenanceNext ==
  ASSUME MaintenanceExcludesRequests, BookNext,
         maintenance' \in {maintenance, None} \/ AtSafePoint
  PROVE  MaintenanceExcludesRequests'
<1>1. CASE AtSafePoint
  BY <1>1 DEF AtSafePoint, MaintenanceExcludesRequests, memVars
<1>2. CASE maintenance' \in {maintenance, None} /\ AdmitBook
  BY <1>2 DEF AdmitBook, AdmitSelected, Admissible, MaintenanceExcludesRequests
<1>3. CASE maintenance' \in {maintenance, None} /\ ReleaseBook
  <2>1. PICK j \in Jobs : ReleaseJob(j)
    BY <1>3 DEF ReleaseBook
  <2>2. memHeld' \subseteq memHeld
    <3>1. memHeld' = memHeld \ {j} \/ memHeld' = memHeld
      BY <2>1, Zenon DEF ReleaseJob
    <3> QED
      BY <3>1
  <2> QED
    BY <1>3, <2>2 DEF MaintenanceExcludesRequests
<1>4. CASE maintenance' \in {maintenance, None} /\ UNCHANGED memVars
  BY <1>4 DEF MaintenanceExcludesRequests, memVars
<1> QED
  BY <1>1, <1>2, <1>3, <1>4 DEF BookNext

(* The books together.                                                     *)
BooksInv == Paired /\ MemoryExact /\ PlanPinned /\ MaintenanceExcludesRequests

LEMMA BooksInvInit == Init => BooksInv
<1> SUFFICES ASSUME Init PROVE BooksInv
  OBVIOUS
<1>1. memHeld = {} /\ live = {} /\ memReserved = 0 /\ maintenance = None
  BY DEF Init, SchedInit, LedgerInit
<1>2. SumOver({}, Bytes, MaxBytes) = 0
  BY SumEmpty, BytesType
<1>3. SumOver(memHeld, Bytes, MaxBytes) = 0
  BY <1>1, <1>2, Zenon
<1>4. MemoryCapacity \in Nat
  BY LedgerAssumption DEF MemoryCapacity, Dimensions
<1>5. MemoryExact
  BY <1>1, <1>3, <1>4 DEF MemoryExact
<1>6. Paired /\ PlanPinned /\ MaintenanceExcludesRequests
  BY <1>1 DEF Paired, PlanPinned, MaintenanceExcludesRequests
<1> QED
  BY <1>5, <1>6 DEF BooksInv

LEMMA BooksInvNext == PartsInv /\ BooksInv /\ [Next]_vars => BooksInv'
<1> SUFFICES ASSUME PartsInv, BooksInv, [Next]_vars PROVE BooksInv'
  OBVIOUS
<1>1. BookNext
  BY BookStep DEF PartsInv
<1>2. Paired'
  BY <1>1, PairedNext DEF BooksInv
<1>3. MemoryExact'
  BY <1>1, MemoryExactNext DEF BooksInv
<1>4. PlanPinned'
  BY <1>1, ControlStep, PinnedNext DEF BooksInv, PartsInv, SchedType
<1>5. MaintenanceExcludesRequests'
  BY <1>1, ControlStep, MaintenanceNext DEF BooksInv
<1> QED
  BY <1>2, <1>3, <1>4, <1>5 DEF BooksInv

(* Memory and device reservations are paired, the reserved bytes are their *)
(* exact sum and within the budget, plans change only when nothing is      *)
(* held, and the maintenance lease excludes requests.                      *)
THEOREM SchedulerBooks == Spec => []BooksInv
BY BooksInvInit, BooksInvNext, SchedulerParts, PTL DEF Spec

(* Both books agree on every job.                                          *)
THEOREM SchedulerPairsBooks == Spec => []Paired
BY SchedulerBooks, PTL DEF BooksInv

(* The reserved bytes are exact and within the budget.                     *)
THEOREM SchedulerMemoryExact == Spec => []MemoryExact
BY SchedulerBooks, PTL DEF BooksInv

(* Live reservations run under the plans that are active now.              *)
THEOREM SchedulerPinsPlans == Spec => []PlanPinned
BY SchedulerBooks, PTL DEF BooksInv

(* No request is admitted under a maintenance lease.                       *)
THEOREM SchedulerMaintenance == Spec => []MaintenanceExcludesRequests
BY SchedulerBooks, PTL DEF BooksInv

-----------------------------------------------------------------------------
(* Adaptive policy: a step leaves it alone, applies what is pending, or    *)
(* takes a proposal.                                                       *)
PolicyNext ==
    \/ UNCHANGED <<policy, pending>>
    \/ ApplyPending
    \/ \E proposed \in Policies : Propose(proposed)
LEMMA PolicyStep ==
  ASSUME SchedTypeOK, [Next]_vars
  PROVE  PolicyNext
<1> USE DEF PolicyNext, adaptiveVars
<1>1. ASSUME NEW c \in Clients, ClientAdmit(c) PROVE PolicyNext
  BY <1>1 DEF ClientAdmit
<1>2. ASSUME NEW c \in Clients, ClientComplete(c) PROVE PolicyNext
  BY <1>2 DEF ClientComplete
<1>3. ASSUME NEW x \in Procs, ApplyAndUnlock(x) PROVE PolicyNext
  BY <1>3 DEF ApplyAndUnlock
<1>4. ASSUME NEW t \in Tokens, Submit(t) PROVE PolicyNext
  BY <1>4 DEF Submit, schedVars
<1>5. ASSUME NEW w \in Workers, Dequeue(w) PROVE PolicyNext
  BY <1>5 DEF Dequeue
<1>6. ASSUME NEW w \in Workers, DequeueNothing(w) PROVE PolicyNext
  BY <1>6 DEF DequeueNothing, schedVars
<1>7. ASSUME NEW w \in Workers, AdmitDequeued(w) PROVE PolicyNext
  BY <1>7 DEF AdmitDequeued
<1>8. ASSUME NEW w \in Workers, AdmitDequeuedFails(w) PROVE PolicyNext
  BY <1>8 DEF AdmitDequeuedFails
<1>9. ASSUME NEW w \in Workers, DropFailed(w) PROVE PolicyNext
  BY <1>9 DEF DropFailed
<1>10. ASSUME NEW w \in Workers, ActivateAdmitted(w) PROVE PolicyNext
  BY <1>10 DEF ActivateAdmitted
<1>11. ASSUME NEW w \in Workers, RollBackAdmitted(w) PROVE PolicyNext
  BY <1>11 DEF RollBackAdmitted
<1>12. ASSUME NEW w \in Workers, CompleteQueued(w) PROVE PolicyNext
  BY <1>12 DEF CompleteQueued
<1>13. ASSUME NEW w \in Workers, StealNothing(w) PROVE PolicyNext
  BY <1>13 DEF StealNothing, schedVars
<1>14. ASSUME NEW w \in Workers, NEW b \in Backends, StealPeek(w, b) PROVE PolicyNext
  BY <1>14 DEF StealPeek
<1>14c. ASSUME NEW w \in Workers, StealClaim(w) PROVE PolicyNext
  BY <1>14c DEF StealClaim
<1>14m. ASSUME NEW w \in Workers, StealMisses(w) PROVE PolicyNext
  BY <1>14m DEF StealMisses
<1>15. ASSUME NEW w \in Workers, StealAdmit(w) PROVE PolicyNext
  BY <1>15 DEF StealAdmit
<1>16. ASSUME NEW w \in Workers, StealRestore(w) PROVE PolicyNext
  BY <1>16 DEF StealRestore
<1>17. ASSUME NEW w \in Workers, StealRefused(w) PROVE PolicyNext
  BY <1>17 DEF StealRefused
<1>18. ASSUME NEW w \in Workers, StealActivate(w) PROVE PolicyNext
  BY <1>18 DEF StealActivate
<1>19. ASSUME NEW w \in Workers, StealUndo(w) PROVE PolicyNext
  BY <1>19 DEF StealUndo
<1>20. ASSUME NEW x \in Cancellers, NEW t \in Tokens, CancelWaiting(x, t) PROVE PolicyNext
  BY <1>20 DEF CancelWaiting, schedVars
<1>21. ASSUME NEW x \in Cancellers, NEW t \in Tokens, CancelMisses(x, t) PROVE PolicyNext
  BY <1>21 DEF CancelMisses
<1>22. ASSUME NEW x \in Cancellers, CancelActive(x) PROVE PolicyNext
  BY <1>22 DEF CancelActive
<1>23. ASSUME NEW x \in Clients \cup Workers, NEW j \in Jobs, StartFallback(x, j) PROVE PolicyNext
  BY <1>23 DEF StartFallback
<1>24. ASSUME NEW x \in Clients \cup Workers, NEW j \in Jobs, AttemptBackend(x, j) PROVE PolicyNext
  BY <1>24 DEF AttemptBackend
<1>25. ASSUME NEW x \in Clients \cup Workers, NEW j \in Jobs, AttemptRefused(x, j) PROVE PolicyNext
  BY <1>25 DEF AttemptRefused
<1>26. ASSUME NEW p \in Pipelines, PipelineStart(p) PROVE PolicyNext
  BY <1>26 DEF PipelineStart
<1>27. ASSUME NEW p \in Pipelines, PipelineReserve(p) PROVE PolicyNext
  BY <1>27 DEF PipelineReserve
<1>28. ASSUME NEW p \in Pipelines, PipelineRelease(p) PROVE PolicyNext
  BY <1>28 DEF PipelineRelease
<1>29. ASSUME NEW p \in Pipelines, PipelineApply(p) PROVE PolicyNext
  BY <1>29 DEF PipelineApply
<1>30. CASE UpdateAdaptiveInputs
  <2>1. PICK p \in Pressures, t \in Thermals, l \in LowPowers :
           Propose(FromInputs(p, t, l, preference))
    BY <1>30 DEF UpdateAdaptiveInputs
  <2>2. FromInputs(p, t, l, preference) \in Policies
    BY SchedulerAssumption, FromInputsType
  <2> QED
    BY <2>1, <2>2
<1>31. CASE SetSchedulingPreference
  <2>1. PICK f \in Preferences :
           Propose(FromInputs(Latest.pressure, Latest.thermal, Latest.low, f))
    BY <1>31 DEF SetSchedulingPreference
  <2>2. Latest.pressure \in 0..2 /\ Latest.thermal \in 0..2 /\ Latest.low \in BOOLEAN
    BY LatestType DEF Policies
  <2>3. FromInputs(Latest.pressure, Latest.thermal, Latest.low, f) \in Policies
    BY <2>2, FromInputsType
  <2> QED
    BY <2>1, <2>3
<1>32. ASSUME NEW q \in Plans, RequestPlan(q) PROVE PolicyNext
  BY <1>32 DEF RequestPlan
<1>33. CASE ApplyPendingPlan
  BY <1>33 DEF ApplyPendingPlan
<1>34. ASSUME NEW q \in Placements, RequestPlacement(q) PROVE PolicyNext
  BY <1>34 DEF RequestPlacement
<1>35. CASE ApplyPendingPlacement
  BY <1>35 DEF ApplyPendingPlacement
<1>36. ASSUME NEW d \in Dispatchers, InstallDispatcher(d) PROVE PolicyNext
  BY <1>36 DEF InstallDispatcher
<1>37. ASSUME NEW ps \in SUBSET Pairs, InstallContention(ps) PROVE PolicyNext
  BY <1>37 DEF InstallContention, schedVars
<1>38. ASSUME NEW o \in Owners, BeginMaintenance(o) PROVE PolicyNext
  BY <1>38 DEF BeginMaintenance
<1>39. ASSUME NEW o \in Owners, EndMaintenance(o) PROVE PolicyNext
  BY <1>39 DEF EndMaintenance
<1>40. CASE UNCHANGED vars
  BY <1>40 DEF vars, schedVars
<1> QED
  BY <1>1, <1>2, <1>3, <1>4, <1>5, <1>6, <1>7, <1>8, <1>9, <1>10, <1>11, <1>12, <1>13,
     <1>14, <1>14c, <1>14m, <1>15, <1>16, <1>17, <1>18, <1>19, <1>20, <1>21, <1>22, <1>23, <1>24, <1>25,
     <1>26, <1>27, <1>28, <1>29, <1>30, <1>31, <1>32, <1>33, <1>34, <1>35, <1>36, <1>37,
     <1>38, <1>39, <1>40
     DEF Next, ClientNext, WorkerNext, CancelNext, FallbackNext, PipelineNext, ControlNext

LEMMA PolicyLevels ==
  ASSUME SchedTypeOK, PendingIsRelaxation, PolicyNext
  PROVE  /\ PendingIsRelaxation'
         /\ policy'.level < policy.level => ~HasActiveWork
<1>0. policy.level \in Int /\ ~(policy.level < policy.level)
  BY DEF SchedTypeOK, Policies
<1>1. CASE UNCHANGED <<policy, pending>>
  BY <1>0, <1>1 DEF PendingIsRelaxation
<1>2. CASE ApplyPending
  <2>1. CASE pending # None /\ ~HasActiveWork
    <3>1. pending' = None
      BY <1>2, <2>1, Zenon DEF ApplyPending
    <3> QED
      BY <2>1, <3>1 DEF PendingIsRelaxation
  <2>2. CASE ~(pending # None /\ ~HasActiveWork)
    <3>1. UNCHANGED <<policy, pending>>
      BY <1>2, <2>2, Zenon DEF ApplyPending
    <3> QED
      BY <1>0, <3>1 DEF PendingIsRelaxation
  <2> QED
    BY <2>1, <2>2
<1>3. CASE \E proposed \in Policies : Propose(proposed)
  <2>1. PICK proposed \in Policies : Propose(proposed)
    BY <1>3
  <2>2. CASE proposed = policy
    <3>1. pending' = None /\ policy' = policy
      BY <2>1, <2>2, Zenon DEF Propose
    <3> QED
      BY <1>0, <3>1 DEF PendingIsRelaxation
  <2>3. CASE proposed # policy /\ proposed.level < policy.level /\ HasActiveWork
    <3>1. pending' = proposed /\ policy' = policy
      BY <2>1, <2>3, Zenon DEF Propose
    <3> QED
      BY <1>0, <2>3, <3>1 DEF PendingIsRelaxation
  <2>4. CASE proposed # policy /\ ~(proposed.level < policy.level /\ HasActiveWork)
    <3>1. policy' = proposed /\ pending' = None
      BY <2>1, <2>4, Zenon DEF Propose
    <3> QED
      BY <2>4, <3>1 DEF PendingIsRelaxation
  <2> QED
    BY <2>2, <2>3, <2>4
<1> QED
  BY <1>1, <1>2, <1>3 DEF PolicyNext

(* Only relaxations are deferred.                                          *)
THEOREM SchedulerDefersRelaxations == Spec => []PendingIsRelaxation
<1>1. Init => PendingIsRelaxation
  BY DEF Init, SchedInit, PendingIsRelaxation
<1>2. PartsInv /\ PendingIsRelaxation /\ [Next]_vars => PendingIsRelaxation'
  BY PolicyStep, PolicyLevels DEF PartsInv, SchedType
<1> QED
  BY <1>1, <1>2, SchedulerParts, PTL DEF Spec

(* The policy is relaxed only while no work is running.                    *)
THEOREM SchedulerRelaxesWhenIdle == Spec => RelaxesOnlyWhenIdle
<1>1. PartsInv /\ PendingIsRelaxation /\ [Next]_vars
        => [policy'.level < policy.level => ~HasActiveWork]_vars
  BY PolicyStep, PolicyLevels DEF PartsInv, SchedType
<1> QED
  BY <1>1, SchedulerParts, SchedulerDefersRelaxations, PTL DEF Spec, RelaxesOnlyWhenIdle

-----------------------------------------------------------------------------
(* Ownership.  OneClaimer and ReservationsOwned are inductive together     *)
(* with where a claimed token is not: waiting, active, or never enqueued.  *)
Claiming == {"dequeued", "failing", "admitted", "stealing", "stolen"}
Reserving == {"admitted", "stolen"}
ClaimersDistinct ==
    \A v, w \in Workers :
       pc[v] \in Claiming /\ pc[w] \in Claiming /\ token[v] = token[w] => v = w
ClaimsHaveClaimer ==
    \A t \in claimed : \E w \in Workers : pc[w] \in Claiming /\ token[w] = t
ClaimersApart ==
    \A w \in Workers :
       pc[w] \in Claiming =>
          token[w] \notin queuedActive /\ token[w] \notin queued /\ arrival[token[w]] # NoEntry
ActiveApart == \A t \in queuedActive : t \notin queued /\ arrival[t] # NoEntry
IsOwned(j) ==
    \/ j \in Clients /\ pc[j] = "held"
    \/ j \in queuedActive
    \/ \E w \in Workers : pc[w] \in Reserving /\ token[w] = j
HeldIsOwned == \A j \in Jobs : j \in memHeld <=> IsOwned(j)
OwnInv == /\ ClaimersDistinct /\ ClaimsHaveClaimer /\ ClaimersApart
          /\ ActiveApart /\ HeldIsOwned

LEMMA OwnIsOneClaimer ==
  ASSUME SchedType, QueueTypeOK, OwnInv
  PROVE  OneClaimer
<1>1. \A w \in Workers : w \in Claimers <=> pc[w] \in Claiming
  BY DEF Claimers, Claiming
<1>2. Claimers \subseteq Workers
  BY DEF Claimers
<1>3. \A v, w \in Claimers : v # w => token[v] # token[w]
  BY <1>1, <1>2 DEF OwnInv, ClaimersDistinct
<1>4. claimed \subseteq {token[w] : w \in Claimers}
  BY <1>1, <1>2 DEF OwnInv, ClaimsHaveClaimer
<1>5. queuedActive \cap (queued \cup {token[w] : w \in Claimers}) = {}
  BY <1>1, <1>2 DEF OwnInv, ClaimersApart, ActiveApart
<1> QED
  BY <1>3, <1>4, <1>5 DEF OneClaimer

LEMMA OwnIsOwned ==
  ASSUME SchedType, OwnInv
  PROVE  ReservationsOwned
<1>1. memHeld \subseteq Jobs /\ queuedActive \subseteq Jobs /\ Clients \subseteq Jobs
  BY DEF SchedType, SchedTypeOK, Jobs
<1>2. \A w \in Workers : pc[w] \in Reserving => token[w] \in Jobs
  BY DEF SchedType, WorksOnToken, Busy, Reserving, Jobs
<1>3. Admitting = {w \in Workers : pc[w] \in Reserving}
  BY DEF Admitting, Reserving
<1>4. \A j : j \in Owned <=> j \in Jobs /\ IsOwned(j)
  BY <1>1, <1>2, <1>3 DEF Owned, IsOwned
<1> QED
  BY <1>1, <1>4 DEF ReservationsOwned, OwnInv, HeldIsOwned

(* Steps that move no claim and no reservation between owners.             *)
LEMMA OwnFrame ==
  ASSUME OwnInv, UNCHANGED <<arrival, memHeld, queuedActive>>,
         queued' \subseteq queued, claimed' \subseteq claimed,
         \A w \in Workers : pc'[w] \in Claiming <=> pc[w] \in Claiming,
         \A w \in Workers : pc'[w] \in Reserving <=> pc[w] \in Reserving,
         \A w \in Workers : pc[w] \in Claiming => token'[w] = token[w],
         \A c \in Clients : pc'[c] = "held" <=> pc[c] = "held"
  PROVE  OwnInv'
<1>0. \A w \in Workers : pc[w] \in Reserving => pc[w] \in Claiming
  BY DEF Reserving, Claiming
<1>1. ClaimersDistinct'
  BY DEF OwnInv, ClaimersDistinct
<1>2. ClaimsHaveClaimer'
  BY DEF OwnInv, ClaimsHaveClaimer
<1>3. ClaimersApart'
  BY DEF OwnInv, ClaimersApart
<1>4. ActiveApart'
  BY DEF OwnInv, ActiveApart
<1>5. \A j \in Jobs : IsOwned(j)' <=> IsOwned(j)
  BY <1>0 DEF IsOwned
<1>6. HeldIsOwned'
  BY <1>5 DEF OwnInv, HeldIsOwned
<1> QED
  BY <1>1, <1>2, <1>3, <1>4, <1>6 DEF OwnInv

LEMMA JobKinds == Clients \cap Tokens = {} /\ Jobs = Clients \cup Tokens
BY SchedulerAssumption DEF Jobs
(* The ways a step can move a claim or a reservation, one lemma each.      *)
(* SameWorkers(w) says that no worker but w moved.                         *)
SameWorkers(w) ==
    \A v \in Workers \ {w} : pc'[v] = pc[v] /\ token'[v] = token[v]
SameClients == \A c \in Clients : pc'[c] = pc[c]

LEMMA ReleaseJobHeld ==
  ASSUME NEW j, ReleaseJob(j)
  PROVE  memHeld' = memHeld \ {j}
<1>1. CASE j \in memHeld
  BY <1>1, Zenon DEF ReleaseJob
<1>2. CASE j \notin memHeld
  <2>1. memHeld' = memHeld
    BY <1>2, Zenon DEF ReleaseJob
  <2> QED
    BY <1>2, <2>1
<1> QED
  BY <1>1, <1>2

(* A worker claims a waiting token.                                        *)
LEMMA OwnTake ==
  ASSUME OwnInv, KnownArrived, NEW w \in Workers, NEW t \in queued,
         UNCHANGED <<arrival, memHeld, queuedActive>>,
         queued' = queued \ {t}, claimed' = claimed \cup {t},
         pc[w] \notin Claiming, pc'[w] \in Claiming \ Reserving, token'[w] = t,
         SameWorkers(w), SameClients
  PROVE  OwnInv'
<1>0. pc[w] \notin Claiming /\ pc[w] \notin Reserving
  BY DEF Claiming, Reserving
<1> USE DEF SameWorkers, SameClients
<1>1. ClaimersDistinct'
  BY <1>0 DEF OwnInv, ClaimersDistinct, ClaimersApart
<1>2. ClaimsHaveClaimer'
  BY <1>0 DEF OwnInv, ClaimsHaveClaimer
<1>3. ClaimersApart'
  BY <1>0 DEF OwnInv, ClaimersApart, ActiveApart, KnownArrived
<1>4. ActiveApart'
  BY DEF OwnInv, ActiveApart
<1>5. \A j \in Jobs : IsOwned(j)' <=> IsOwned(j)
  BY <1>0 DEF IsOwned
<1>6. HeldIsOwned'
  BY <1>5 DEF OwnInv, HeldIsOwned
<1> QED
  BY <1>1, <1>2, <1>3, <1>4, <1>6 DEF OwnInv

(* A worker reserves memory for the token it has claimed.                  *)
LEMMA OwnReserve ==
  ASSUME OwnInv, NEW w \in Workers,
         UNCHANGED <<queued, claimed, arrival, queuedActive>>,
         memHeld' = memHeld \cup {token[w]},
         pc[w] \in Claiming \ Reserving, pc'[w] \in Reserving, token'[w] = token[w],
         SameWorkers(w), SameClients
  PROVE  OwnInv'
<1>0. pc'[w] \in Claiming
  BY DEF Claiming, Reserving
<1> USE DEF SameWorkers, SameClients
<1>1. ClaimersDistinct'
  BY <1>0 DEF OwnInv, ClaimersDistinct
<1>2. ClaimsHaveClaimer'
  BY <1>0 DEF OwnInv, ClaimsHaveClaimer
<1>3. ClaimersApart'
  BY <1>0 DEF OwnInv, ClaimersApart
<1>4. ActiveApart'
  BY DEF OwnInv, ActiveApart
<1>5. \A j \in Jobs : IsOwned(j)' <=> IsOwned(j) \/ j = token[w]
  BY DEF IsOwned
<1>6. HeldIsOwned'
  BY <1>5 DEF OwnInv, HeldIsOwned
<1> QED
  BY <1>1, <1>2, <1>3, <1>4, <1>6 DEF OwnInv

(* A worker gives its claim up: it drops the request, restores it, or      *)
(* undoes the reservation it had made for it.                              *)
LEMMA OwnGiveUp ==
  ASSUME OwnInv, NEW w \in Workers, token[w] \in Tokens,
         UNCHANGED <<arrival, queuedActive>>,
         claimed' = claimed \ {token[w]},
         queued' \subseteq queued \cup {token[w]},
         memHeld' = memHeld \ {token[w]},
         pc[w] \in Claiming, pc'[w] \notin Claiming,
         SameWorkers(w), SameClients
  PROVE  OwnInv'
<1>0. pc'[w] \notin Reserving /\ token[w] \notin queuedActive /\ token[w] \notin Clients
  BY JobKinds DEF Claiming, Reserving, OwnInv, ClaimersApart
<1> USE DEF SameWorkers, SameClients
<1>1. ClaimersDistinct'
  BY DEF OwnInv, ClaimersDistinct
<1>2. ClaimsHaveClaimer'
  BY DEF OwnInv, ClaimsHaveClaimer
<1>3. ClaimersApart'
  BY DEF OwnInv, ClaimersApart, ClaimersDistinct
<1>4. ActiveApart'
  BY <1>0 DEF OwnInv, ActiveApart
<1>5. \A j \in Jobs : IsOwned(j)' <=> IsOwned(j) /\ j # token[w]
  <2>1. \A v \in Workers \ {w} : pc[v] \in Reserving => token[v] # token[w]
    BY DEF OwnInv, ClaimersDistinct, Claiming, Reserving
  <2> QED
    BY <1>0, <2>1 DEF IsOwned
<1>6. HeldIsOwned'
  BY <1>5 DEF OwnInv, HeldIsOwned
<1> QED
  BY <1>1, <1>2, <1>3, <1>4, <1>6 DEF OwnInv

(* A worker turns its claim into an active token.                          *)
LEMMA OwnActivate ==
  ASSUME OwnInv, NEW w \in Workers,
         UNCHANGED <<arrival, queued, memHeld>>,
         claimed' = claimed \ {token[w]},
         queuedActive' = queuedActive \cup {token[w]},
         pc[w] \in Reserving, pc'[w] = "running", token'[w] = token[w],
         SameWorkers(w), SameClients
  PROVE  OwnInv'
<1>0. pc[w] \in Claiming /\ pc'[w] \notin Claiming /\ pc'[w] \notin Reserving
  BY DEF Claiming, Reserving
<1> USE DEF SameWorkers, SameClients
<1>1. ClaimersDistinct'
  BY <1>0 DEF OwnInv, ClaimersDistinct
<1>2. ClaimsHaveClaimer'
  BY <1>0 DEF OwnInv, ClaimsHaveClaimer
<1>3. ClaimersApart'
  BY <1>0 DEF OwnInv, ClaimersApart, ClaimersDistinct
<1>4. ActiveApart'
  BY <1>0 DEF OwnInv, ActiveApart, ClaimersApart
<1>5. \A j \in Jobs : IsOwned(j)' <=> IsOwned(j)
  BY <1>0 DEF IsOwned
<1>6. HeldIsOwned'
  BY <1>5 DEF OwnInv, HeldIsOwned
<1> QED
  BY <1>1, <1>2, <1>3, <1>4, <1>6 DEF OwnInv

(* complete_queued, by the worker or by a cancel, ends an active token.    *)
LEMMA OwnEnd ==
  ASSUME OwnInv, NEW t \in queuedActive, t \in Tokens,
         UNCHANGED <<queued, claimed, arrival>>,
         queuedActive' = queuedActive \ {t}, memHeld' = memHeld \ {t},
         \A w \in Workers : pc'[w] \in Claiming <=> pc[w] \in Claiming,
         \A w \in Workers : pc'[w] \in Reserving <=> pc[w] \in Reserving,
         \A w \in Workers : pc[w] \in Claiming => token'[w] = token[w],
         SameClients
  PROVE  OwnInv'
<1>0. t \notin Clients /\ \A w \in Workers : pc[w] \in Reserving => pc[w] \in Claiming
  BY JobKinds DEF Claiming, Reserving
<1> USE DEF SameClients
<1>1. ClaimersDistinct'
  BY DEF OwnInv, ClaimersDistinct
<1>2. ClaimsHaveClaimer'
  BY DEF OwnInv, ClaimsHaveClaimer
<1>3. ClaimersApart'
  BY DEF OwnInv, ClaimersApart
<1>4. ActiveApart'
  BY DEF OwnInv, ActiveApart
<1>5. \A j \in Jobs : IsOwned(j)' <=> IsOwned(j) /\ j # t
  <2>1. \A w \in Workers : pc[w] \in Claiming => token[w] # t
    BY DEF OwnInv, ClaimersApart
  <2> QED
    BY <1>0, <2>1 DEF IsOwned
<1>6. HeldIsOwned'
  BY <1>5 DEF OwnInv, HeldIsOwned
<1> QED
  BY <1>1, <1>2, <1>3, <1>4, <1>6 DEF OwnInv

(* A client takes or returns the reservation of its own request.           *)
LEMMA OwnClient ==
  ASSUME OwnInv, SchedType, NEW c \in Clients,
         UNCHANGED <<queued, claimed, arrival, queuedActive, token>>,
         \A w \in Workers : pc'[w] = pc[w],
         \A d \in Clients \ {c} : pc'[d] = pc[d],
         memHeld' = IF pc'[c] = "held" THEN memHeld \cup {c} ELSE memHeld \ {c}
  PROVE  OwnInv'
<1>0. c \notin queuedActive /\ \A w \in Workers : pc[w] \in Reserving => token[w] # c
  BY JobKinds DEF SchedType, SchedTypeOK, WorksOnToken, Busy, Reserving
<1>1. ClaimersDistinct'
  BY DEF OwnInv, ClaimersDistinct
<1>2. ClaimsHaveClaimer'
  BY DEF OwnInv, ClaimsHaveClaimer
<1>3. ClaimersApart'
  BY DEF OwnInv, ClaimersApart
<1>4. ActiveApart'
  BY DEF OwnInv, ActiveApart
<1>5. ASSUME NEW j \in Jobs PROVE j \in memHeld' <=> IsOwned(j)'
  <2>1. CASE j = c
    BY <1>0, <2>1 DEF IsOwned
  <2>2. CASE j # c
    BY <1>0, <2>2 DEF IsOwned, OwnInv, HeldIsOwned
  <2> QED
    BY <2>1, <2>2
<1>6. HeldIsOwned'
  BY <1>5 DEF HeldIsOwned
<1> QED
  BY <1>1, <1>2, <1>3, <1>4, <1>6 DEF OwnInv
(* A token that is only claimed has no memory reservation yet.             *)
LEMMA NotYetHeld ==
  ASSUME OwnInv, NEW w \in Workers, token[w] \in Tokens,
         pc[w] \in Claiming, pc[w] \notin Reserving
  PROVE  token[w] \notin memHeld
<1>1. token[w] \in Jobs /\ token[w] \notin Clients
  BY JobKinds
<1>2. token[w] \notin queuedActive
  BY DEF OwnInv, ClaimersApart
<1>3. \A v \in Workers : pc[v] \in Reserving => token[v] # token[w]
  BY DEF OwnInv, ClaimersDistinct, Claiming, Reserving
<1> QED
  BY <1>1, <1>2, <1>3 DEF OwnInv, HeldIsOwned, IsOwned

LEMMA OwnInvInit == Init => OwnInv
<1> SUFFICES ASSUME Init PROVE OwnInv
  OBVIOUS
<1>1. /\ claimed = {} /\ queuedActive = {} /\ memHeld = {}
      /\ \A x \in Procs : pc[x] = "idle"
  BY DEF Init, QueueInit, SchedInit
<1>2. \A w \in Workers : pc[w] \notin Claiming /\ pc[w] \notin Reserving
  BY <1>1 DEF Procs, Claiming, Reserving
<1>3. \A c \in Clients : pc[c] # "held"
  BY <1>1 DEF Procs
<1> QED
  BY <1>1, <1>2, <1>3 DEF OwnInv, ClaimersDistinct, ClaimsHaveClaimer, ClaimersApart,
     ActiveApart, HeldIsOwned, IsOwned

LEMMA OwnInvNext == PartsInv /\ OwnInv /\ [Next]_vars => OwnInv'
<1> SUFFICES ASSUME PartsInv, OwnInv, [Next]_vars PROVE OwnInv'
  OBVIOUS
<1>0. /\ SchedType /\ QueueTypeOK /\ KnownArrived
      /\ pc \in [Procs -> States]
      /\ Workers \subseteq Procs /\ Clients \subseteq Procs /\ Cancellers \subseteq Procs
      /\ Pipelines \subseteq Procs
      /\ token \in [Workers \cup Cancellers -> Tokens \cup {None}]
  BY DEF PartsInv, QueueInv, SchedType, SchedTypeOK, Procs
<1>a. \A w \in Workers : pc[w] \in Claiming => token[w] \in Tokens
  BY <1>0 DEF SchedType, WorksOnToken, Busy, Claiming
<1> USE DEF Go, queueVars, memVars
<1>1. ASSUME NEW c \in Clients, ClientAdmit(c) PROVE OwnInv'
  <2>1. /\ pc'[c] = "held" /\ memHeld' = memHeld \cup {c}
        /\ UNCHANGED <<queued, claimed, arrival, queuedActive, token>>
        /\ \A w \in Workers : pc'[w] = pc[w]
        /\ \A d \in Clients \ {c} : pc'[d] = pc[d]
    BY <1>1, <1>0, ProcsDisjoint DEF ClientAdmit, AdmitSelected
  <2> QED
    BY <1>0, <2>1, OwnClient
<1>2. ASSUME NEW c \in Clients, ClientComplete(c) PROVE OwnInv'
  <2>1. /\ pc'[c] # "held" /\ memHeld' = memHeld \ {c}
        /\ UNCHANGED <<queued, claimed, arrival, queuedActive, token>>
        /\ \A w \in Workers : pc'[w] = pc[w]
        /\ \A d \in Clients \ {c} : pc'[d] = pc[d]
    BY <1>2, <1>0, ProcsDisjoint, ReleaseJobHeld DEF ClientComplete
  <2> QED
    BY <1>0, <2>1, OwnClient
<1>3. ASSUME NEW x \in Procs, ApplyAndUnlock(x) PROVE OwnInv'
  <2>1. /\ UNCHANGED <<arrival, memHeld, queuedActive>>
        /\ queued' \subseteq queued /\ claimed' \subseteq claimed
        /\ \A v \in Workers : pc'[v] \in Claiming <=> pc[v] \in Claiming
        /\ \A v \in Workers : pc'[v] \in Reserving <=> pc[v] \in Reserving
        /\ \A v \in Workers : pc[v] \in Claiming => token'[v] = token[v]
        /\ \A c \in Clients : pc'[c] = "held" <=> pc[c] = "held"
    BY <1>3, <1>0, ProcsDisjoint DEF ApplyAndUnlock, Claiming, Reserving
  <2> QED
    BY <2>1, OwnFrame
<1>4. ASSUME NEW t \in Tokens, Submit(t) PROVE OwnInv'
  <2>1. /\ queued' = queued \cup {t} /\ arrival[t] = NoEntry
        /\ arrival' = [arrival EXCEPT ![t] = [rank |-> Rank[t], seq |-> sequence]]
        /\ UNCHANGED <<claimed, memHeld, queuedActive, pc, token>>
    BY <1>4 DEF Submit, Enqueue, Fresh, schedVars
  <2>2. arrival' = [arrival EXCEPT ![t] = arrival'[t]] /\ arrival'[t] # NoEntry
    BY <1>0, <2>1 DEF QueueTypeOK, NoEntry
  <2>3. \A w \in Workers : pc[w] \in Claiming => token[w] # t
    BY <2>1 DEF OwnInv, ClaimersApart
  <2>4. t \notin queuedActive
    BY <2>1 DEF OwnInv, ActiveApart
  <2>5. \A u \in Tokens : u # t => arrival'[u] = arrival[u]
    BY <1>0, <2>1 DEF QueueTypeOK
  <2>6. ClaimersApart'
    BY <1>a, <2>1, <2>3, <2>5 DEF OwnInv, ClaimersApart
  <2>7. ActiveApart'
    BY <1>0, <2>1, <2>4, <2>5 DEF OwnInv, ActiveApart, SchedType, SchedTypeOK
  <2>8. ClaimersDistinct' /\ ClaimsHaveClaimer' /\ HeldIsOwned'
    BY <2>1 DEF OwnInv, ClaimersDistinct, ClaimsHaveClaimer, HeldIsOwned, IsOwned
  <2> QED
    BY <2>6, <2>7, <2>8 DEF OwnInv
<1>5. ASSUME NEW w \in Workers, Dequeue(w) PROVE OwnInv'
  <2>1. PICK t \in Tokens : ClaimHead(t) /\ token' = [token EXCEPT ![w] = t]
    BY <1>5, <1>0 DEF Dequeue, QueueTypeOK
  <2>2. /\ t \in queued /\ queued' = queued \ {t} /\ claimed' = claimed \cup {t}
        /\ UNCHANGED arrival
    BY <2>1 DEF ClaimHead, IsHead, IsLive
  <2>3. /\ UNCHANGED <<memHeld, queuedActive>>
        /\ pc[w] \notin Claiming /\ pc'[w] \in Claiming \ Reserving
        /\ SameClients
    BY <1>5, <1>0, ProcsDisjoint DEF Dequeue, SameClients, Claiming, Reserving
  <2>4. token'[w] = t /\ SameWorkers(w)
    BY <1>5, <1>0, <2>1 DEF Dequeue, SameWorkers
  <2> QED
    BY <1>0, <2>2, <2>3, <2>4, OwnTake
<1>6. ASSUME NEW w \in Workers, DequeueNothing(w) PROVE OwnInv'
  <2>1. /\ UNCHANGED <<arrival, memHeld, queuedActive>>
        /\ queued' \subseteq queued /\ claimed' \subseteq claimed
        /\ \A v \in Workers : pc'[v] \in Claiming <=> pc[v] \in Claiming
        /\ \A v \in Workers : pc'[v] \in Reserving <=> pc[v] \in Reserving
        /\ \A v \in Workers : pc[v] \in Claiming => token'[v] = token[v]
        /\ \A c \in Clients : pc'[c] = "held" <=> pc[c] = "held"
    BY <1>6, <1>0, ProcsDisjoint DEF DequeueNothing, TrimHeap, schedVars
  <2> QED
    BY <2>1, OwnFrame
<1>7. ASSUME NEW w \in Workers, AdmitDequeued(w) PROVE OwnInv'
  <2>1. /\ UNCHANGED <<queued, claimed, arrival, queuedActive>>
        /\ memHeld' = memHeld \cup {token[w]}
        /\ pc[w] \in Claiming \ Reserving /\ pc'[w] \in Reserving
        /\ token'[w] = token[w] /\ SameWorkers(w) /\ SameClients
    BY <1>7, <1>0, ProcsDisjoint DEF AdmitDequeued, SameWorkers, SameClients, Claiming,
       Reserving, AdmitSelected
  <2> QED
    BY <1>0, <1>a, <2>1, OwnReserve
<1>8. ASSUME NEW w \in Workers, AdmitDequeuedFails(w) PROVE OwnInv'
  <2>1. /\ UNCHANGED <<arrival, memHeld, queuedActive>>
        /\ queued' \subseteq queued /\ claimed' \subseteq claimed
        /\ \A v \in Workers : pc'[v] \in Claiming <=> pc[v] \in Claiming
        /\ \A v \in Workers : pc'[v] \in Reserving <=> pc[v] \in Reserving
        /\ \A v \in Workers : pc[v] \in Claiming => token'[v] = token[v]
        /\ \A c \in Clients : pc'[c] = "held" <=> pc[c] = "held"
    BY <1>8, <1>0, ProcsDisjoint DEF AdmitDequeuedFails, Claiming, Reserving
  <2> QED
    BY <2>1, OwnFrame
<1>9. ASSUME NEW w \in Workers, DropFailed(w) PROVE OwnInv'
  <2>1. claimed' = claimed \ {token[w]} /\ queued' \subseteq queued \cup {token[w]} /\ UNCHANGED arrival
    <3>1. CASE token[w] \in claimed
      <4>1. FinishClaim(token[w])
        BY <1>9, <3>1, Zenon DEF DropFailed, FinishIfClaimed
      <4> QED
        BY <4>1 DEF FinishClaim
    <3>2. CASE token[w] \notin claimed
      <4>1. UNCHANGED queueVars
        BY <1>9, <3>2, Zenon DEF DropFailed, FinishIfClaimed
      <4> QED
        BY <3>2, <4>1
    <3> QED
      BY <3>1, <3>2
  <2>2. memHeld' = memHeld \ {token[w]}
    <3>1. pc[w] \in Claiming /\ pc[w] \notin Reserving /\ UNCHANGED memHeld
      BY <1>9 DEF DropFailed, Claiming, Reserving
    <3>2. token[w] \notin memHeld
      BY <1>a, <3>1, NotYetHeld
    <3> QED
      BY <3>1, <3>2
  <2>3. /\ UNCHANGED <<arrival, queuedActive>>
        /\ pc[w] \in Claiming /\ pc'[w] \notin Claiming
        /\ SameWorkers(w) /\ SameClients
    BY <1>9, <1>0, <2>1, ProcsDisjoint DEF DropFailed, SameWorkers, SameClients, Claiming
  <2> QED
    BY <1>a, <2>1, <2>2, <2>3, OwnGiveUp
<1>10. ASSUME NEW w \in Workers, ActivateAdmitted(w) PROVE OwnInv'
  <2>1. /\ UNCHANGED <<arrival, queued, memHeld>>
        /\ claimed' = claimed \ {token[w]}
        /\ queuedActive' = queuedActive \cup {token[w]}
        /\ pc[w] \in Reserving /\ pc'[w] = "running" /\ token'[w] = token[w]
        /\ SameWorkers(w) /\ SameClients
    BY <1>10, <1>0, ProcsDisjoint DEF ActivateAdmitted, SameWorkers, SameClients, Claiming,
       Reserving, FinishClaim
  <2> QED
    BY <1>0, <1>a, <2>1, OwnActivate
<1>11. ASSUME NEW w \in Workers, RollBackAdmitted(w) PROVE OwnInv'
  <2>1. claimed' = claimed \ {token[w]} /\ queued' \subseteq queued \cup {token[w]} /\ UNCHANGED arrival
    BY <1>11 DEF RollBackAdmitted
  <2>2. memHeld' = memHeld \ {token[w]}
    BY <1>11, ReleaseJobHeld DEF RollBackAdmitted
  <2>3. /\ UNCHANGED <<arrival, queuedActive>>
        /\ pc[w] \in Claiming /\ pc'[w] \notin Claiming
        /\ SameWorkers(w) /\ SameClients
    BY <1>11, <1>0, <2>1, ProcsDisjoint DEF RollBackAdmitted, SameWorkers, SameClients, Claiming
  <2> QED
    BY <1>a, <2>1, <2>2, <2>3, OwnGiveUp
<1>12. ASSUME NEW w \in Workers, CompleteQueued(w) PROVE OwnInv'
  <2>1. UNCHANGED <<queued, claimed, arrival>> /\ token' = [token EXCEPT ![w] = None]
    BY <1>12 DEF CompleteQueued
  <2>2. token[w] \in Tokens /\ pc[w] = "running"
    BY <1>12, <1>0 DEF CompleteQueued, SchedType, WorksOnToken, Busy
  <2>3. CASE token[w] \in queuedActive
    <3>1. queuedActive' = queuedActive \ {token[w]} /\ pc' = [pc EXCEPT ![w] = "applying"]
      BY <1>12, <2>3, Zenon DEF CompleteQueued
    <3>2. memHeld' = memHeld \ {token[w]}
      BY <1>12, <2>3, ReleaseJobHeld, Zenon DEF CompleteQueued
    <3>3. /\ \A v \in Workers : pc'[v] \in Claiming <=> pc[v] \in Claiming
          /\ \A v \in Workers : pc'[v] \in Reserving <=> pc[v] \in Reserving
          /\ \A v \in Workers : pc[v] \in Claiming => token'[v] = token[v]
          /\ SameClients
      BY <1>0, <2>1, <2>2, <3>1, ProcsDisjoint DEF SameClients, Claiming, Reserving
    <3>4. UNCHANGED <<queued, claimed, arrival>> /\ token[w] \in Tokens
      BY <2>1, <2>2
    <3>5. queuedActive' = queuedActive \ {token[w]}
      BY <3>1
    <3> QED
      BY <2>3, <3>2, <3>3, <3>4, <3>5, OwnEnd
  <2>4. CASE token[w] \notin queuedActive
    <3>1. UNCHANGED memVars /\ UNCHANGED queuedActive /\ pc' = [pc EXCEPT ![w] = "idle"]
      BY <1>12, <2>4, Zenon DEF CompleteQueued
    <3>2. /\ \A v \in Workers : pc'[v] \in Claiming <=> pc[v] \in Claiming
          /\ \A v \in Workers : pc'[v] \in Reserving <=> pc[v] \in Reserving
          /\ \A v \in Workers : pc[v] \in Claiming => token'[v] = token[v]
          /\ SameClients
      BY <1>0, <2>1, <2>2, <3>1, ProcsDisjoint DEF SameClients, Claiming, Reserving
    <3>3. /\ UNCHANGED <<arrival, memHeld, queuedActive>>
          /\ queued' \subseteq queued /\ claimed' \subseteq claimed
          /\ \A c \in Clients : pc'[c] = "held" <=> pc[c] = "held"
      BY <2>1, <3>1, <3>2 DEF SameClients
    <3> QED
      BY <3>2, <3>3, OwnFrame
  <2> QED
    BY <2>3, <2>4
<1>13. ASSUME NEW w \in Workers, StealNothing(w) PROVE OwnInv'
  <2>1. /\ UNCHANGED <<arrival, memHeld, queuedActive>>
        /\ queued' \subseteq queued /\ claimed' \subseteq claimed
        /\ \A v \in Workers : pc'[v] \in Claiming <=> pc[v] \in Claiming
        /\ \A v \in Workers : pc'[v] \in Reserving <=> pc[v] \in Reserving
        /\ \A v \in Workers : pc[v] \in Claiming => token'[v] = token[v]
        /\ \A c \in Clients : pc'[c] = "held" <=> pc[c] = "held"
    BY <1>13, <1>0, ProcsDisjoint DEF StealNothing, TrimHeap, schedVars
  <2> QED
    BY <2>1, OwnFrame
<1>14. ASSUME NEW w \in Workers, NEW b \in Backends, StealPeek(w, b) PROVE OwnInv'
  <2>1. /\ UNCHANGED <<arrival, memHeld, queuedActive>>
        /\ queued' \subseteq queued /\ claimed' \subseteq claimed
        /\ \A v \in Workers : pc'[v] \in Claiming <=> pc[v] \in Claiming
        /\ \A v \in Workers : pc'[v] \in Reserving <=> pc[v] \in Reserving
        /\ \A v \in Workers : pc[v] \in Claiming => token'[v] = token[v]
        /\ \A c \in Clients : pc'[c] = "held" <=> pc[c] = "held"
    BY <1>14, <1>0, ProcsDisjoint DEF StealPeek, TrimHeap, Claiming, Reserving
  <2> QED
    BY <2>1, OwnFrame
<1>14c. ASSUME NEW w \in Workers, StealClaim(w) PROVE OwnInv'
  <2>1. /\ token[w] \in queued /\ queued' = queued \ {token[w]}
        /\ claimed' = claimed \cup {token[w]} /\ UNCHANGED arrival
    BY <1>14c DEF StealClaim, ClaimHead, IsHead, IsLive
  <2>2. /\ UNCHANGED <<memHeld, queuedActive>>
        /\ pc[w] \notin Claiming /\ pc'[w] \in Claiming \ Reserving
        /\ SameClients
    BY <1>14c, <1>0, ProcsDisjoint DEF StealClaim, SameClients, Claiming, Reserving
  <2>3. token'[w] = token[w] /\ SameWorkers(w)
    BY <1>14c, <1>0 DEF StealClaim, SameWorkers
  <2> QED
    BY <1>0, <2>1, <2>2, <2>3, OwnTake
<1>14m. ASSUME NEW w \in Workers, StealMisses(w) PROVE OwnInv'
  <2>1. /\ UNCHANGED <<arrival, memHeld, queuedActive>>
        /\ queued' \subseteq queued /\ claimed' \subseteq claimed
        /\ \A v \in Workers : pc'[v] \in Claiming <=> pc[v] \in Claiming
        /\ \A v \in Workers : pc'[v] \in Reserving <=> pc[v] \in Reserving
        /\ \A v \in Workers : pc[v] \in Claiming => token'[v] = token[v]
        /\ \A c \in Clients : pc'[c] = "held" <=> pc[c] = "held"
    BY <1>14m, <1>0, ProcsDisjoint DEF StealMisses, EndSteal, TrimHeap, Claiming, Reserving
  <2> QED
    BY <2>1, OwnFrame
<1>15. ASSUME NEW w \in Workers, StealAdmit(w) PROVE OwnInv'
  <2>1. /\ UNCHANGED <<queued, claimed, arrival, queuedActive>>
        /\ memHeld' = memHeld \cup {token[w]}
        /\ pc[w] \in Claiming \ Reserving /\ pc'[w] \in Reserving
        /\ token'[w] = token[w] /\ SameWorkers(w) /\ SameClients
    BY <1>15, <1>0, ProcsDisjoint DEF StealAdmit, SameWorkers, SameClients, Claiming,
       Reserving, AdmitSelected
  <2> QED
    BY <1>0, <1>a, <2>1, OwnReserve
<1>16. ASSUME NEW w \in Workers, StealRestore(w) PROVE OwnInv'
  <2>1. claimed' = claimed \ {token[w]} /\ queued' \subseteq queued \cup {token[w]} /\ UNCHANGED arrival
    <3>1. CASE token[w] \in claimed
      <4>1. RestoreClaim(token[w])
        BY <1>16, <3>1, Zenon DEF StealRestore
      <4> QED
        BY <4>1 DEF RestoreClaim
    <3>2. CASE token[w] \notin claimed
      <4>1. UNCHANGED queueVars
        BY <1>16, <3>2, Zenon DEF StealRestore
      <4> QED
        BY <3>2, <4>1
    <3> QED
      BY <3>1, <3>2
  <2>2. memHeld' = memHeld \ {token[w]}
    <3>1. pc[w] \in Claiming /\ pc[w] \notin Reserving /\ UNCHANGED memHeld
      BY <1>16 DEF StealRestore, Claiming, Reserving
    <3>2. token[w] \notin memHeld
      BY <1>a, <3>1, NotYetHeld
    <3> QED
      BY <3>1, <3>2
  <2>3. /\ UNCHANGED <<arrival, queuedActive>>
        /\ pc[w] \in Claiming /\ pc'[w] \notin Claiming
        /\ SameWorkers(w) /\ SameClients
    BY <1>16, <1>0, <2>1, ProcsDisjoint DEF StealRestore, SameWorkers, SameClients,
       Claiming, EndSteal
  <2> QED
    BY <1>a, <2>1, <2>2, <2>3, OwnGiveUp
<1>17. ASSUME NEW w \in Workers, StealRefused(w) PROVE OwnInv'
  <2>1. claimed' = claimed \ {token[w]} /\ queued' \subseteq queued \cup {token[w]} /\ UNCHANGED arrival
    <3>1. CASE token[w] \in claimed
      <4>1. FinishClaim(token[w])
        BY <1>17, <3>1, Zenon DEF StealRefused, FinishIfClaimed
      <4> QED
        BY <4>1 DEF FinishClaim
    <3>2. CASE token[w] \notin claimed
      <4>1. UNCHANGED queueVars
        BY <1>17, <3>2, Zenon DEF StealRefused, FinishIfClaimed
      <4> QED
        BY <3>2, <4>1
    <3> QED
      BY <3>1, <3>2
  <2>2. memHeld' = memHeld \ {token[w]}
    <3>1. pc[w] \in Claiming /\ pc[w] \notin Reserving /\ UNCHANGED memHeld
      BY <1>17 DEF StealRefused, Claiming, Reserving
    <3>2. token[w] \notin memHeld
      BY <1>a, <3>1, NotYetHeld
    <3> QED
      BY <3>1, <3>2
  <2>3. /\ UNCHANGED <<arrival, queuedActive>>
        /\ pc[w] \in Claiming /\ pc'[w] \notin Claiming
        /\ SameWorkers(w) /\ SameClients
    BY <1>17, <1>0, <2>1, ProcsDisjoint DEF StealRefused, SameWorkers, SameClients,
       Claiming, EndSteal
  <2> QED
    BY <1>a, <2>1, <2>2, <2>3, OwnGiveUp
<1>18. ASSUME NEW w \in Workers, StealActivate(w) PROVE OwnInv'
  <2>1. /\ UNCHANGED <<arrival, queued, memHeld>>
        /\ claimed' = claimed \ {token[w]}
        /\ queuedActive' = queuedActive \cup {token[w]}
        /\ pc[w] \in Reserving /\ pc'[w] = "running" /\ token'[w] = token[w]
        /\ SameWorkers(w) /\ SameClients
    BY <1>18, <1>0, ProcsDisjoint DEF StealActivate, SameWorkers, SameClients, Claiming,
       Reserving, FinishClaim, EndSteal
  <2> QED
    BY <1>0, <1>a, <2>1, OwnActivate
<1>19. ASSUME NEW w \in Workers, StealUndo(w) PROVE OwnInv'
  <2>1. claimed' = claimed \ {token[w]} /\ queued' \subseteq queued \cup {token[w]} /\ UNCHANGED arrival
    BY <1>19 DEF StealUndo
  <2>2. memHeld' = memHeld \ {token[w]}
    BY <1>19, ReleaseJobHeld DEF StealUndo
  <2>3. /\ UNCHANGED <<arrival, queuedActive>>
        /\ pc[w] \in Claiming /\ pc'[w] \notin Claiming
        /\ SameWorkers(w) /\ SameClients
    BY <1>19, <1>0, <2>1, ProcsDisjoint DEF StealUndo, SameWorkers, SameClients, Claiming
  <2> QED
    BY <1>a, <2>1, <2>2, <2>3, OwnGiveUp
<1>20. ASSUME NEW x \in Cancellers, NEW t \in Tokens, CancelWaiting(x, t) PROVE OwnInv'
  <2>1. /\ UNCHANGED <<arrival, memHeld, queuedActive>>
        /\ queued' \subseteq queued /\ claimed' \subseteq claimed
        /\ \A v \in Workers : pc'[v] \in Claiming <=> pc[v] \in Claiming
        /\ \A v \in Workers : pc'[v] \in Reserving <=> pc[v] \in Reserving
        /\ \A v \in Workers : pc[v] \in Claiming => token'[v] = token[v]
        /\ \A c \in Clients : pc'[c] = "held" <=> pc[c] = "held"
    BY <1>20, <1>0, ProcsDisjoint DEF CancelWaiting, QueueCancel, CancelQueued,
       CancelClaimed, schedVars
  <2> QED
    BY <2>1, OwnFrame
<1>21. ASSUME NEW x \in Cancellers, NEW t \in Tokens, CancelMisses(x, t) PROVE OwnInv'
  <2>1. /\ UNCHANGED <<arrival, memHeld, queuedActive>>
        /\ queued' \subseteq queued /\ claimed' \subseteq claimed
        /\ \A v \in Workers : pc'[v] \in Claiming <=> pc[v] \in Claiming
        /\ \A v \in Workers : pc'[v] \in Reserving <=> pc[v] \in Reserving
        /\ \A v \in Workers : pc[v] \in Claiming => token'[v] = token[v]
        /\ \A c \in Clients : pc'[c] = "held" <=> pc[c] = "held"
    BY <1>21, <1>0, ProcsDisjoint DEF CancelMisses, Claiming, Reserving
  <2> QED
    BY <2>1, OwnFrame
<1>22. ASSUME NEW x \in Cancellers, CancelActive(x) PROVE OwnInv'
  <2>1. UNCHANGED <<queued, claimed, arrival>> /\ token' = [token EXCEPT ![x] = None]
    BY <1>22 DEF CancelActive
  <2>2. token[x] \in Tokens /\ pc[x] = "cancelling"
    BY <1>22, <1>0 DEF CancelActive, SchedType, WorksOnToken, Busy
  <2>3. CASE token[x] \in queuedActive
    <3>1. queuedActive' = queuedActive \ {token[x]} /\ pc' = [pc EXCEPT ![x] = "applying"]
      BY <1>22, <2>3, Zenon DEF CancelActive
    <3>2. memHeld' = memHeld \ {token[x]}
      BY <1>22, <2>3, ReleaseJobHeld, Zenon DEF CancelActive
    <3>3. /\ \A v \in Workers : pc'[v] \in Claiming <=> pc[v] \in Claiming
          /\ \A v \in Workers : pc'[v] \in Reserving <=> pc[v] \in Reserving
          /\ \A v \in Workers : pc[v] \in Claiming => token'[v] = token[v]
          /\ SameClients
      BY <1>0, <2>1, <2>2, <3>1, ProcsDisjoint DEF SameClients, Claiming, Reserving
    <3>4. UNCHANGED <<queued, claimed, arrival>> /\ token[x] \in Tokens
      BY <2>1, <2>2
    <3>5. queuedActive' = queuedActive \ {token[x]}
      BY <3>1
    <3> QED
      BY <2>3, <3>2, <3>3, <3>4, <3>5, OwnEnd
  <2>4. CASE token[x] \notin queuedActive
    <3>1. UNCHANGED memVars /\ UNCHANGED queuedActive /\ pc' = [pc EXCEPT ![x] = "idle"]
      BY <1>22, <2>4, Zenon DEF CancelActive
    <3>2. /\ \A v \in Workers : pc'[v] \in Claiming <=> pc[v] \in Claiming
          /\ \A v \in Workers : pc'[v] \in Reserving <=> pc[v] \in Reserving
          /\ \A v \in Workers : pc[v] \in Claiming => token'[v] = token[v]
          /\ SameClients
      BY <1>0, <2>1, <2>2, <3>1, ProcsDisjoint DEF SameClients, Claiming, Reserving
    <3>3. /\ UNCHANGED <<arrival, memHeld, queuedActive>>
          /\ queued' \subseteq queued /\ claimed' \subseteq claimed
          /\ \A c \in Clients : pc'[c] = "held" <=> pc[c] = "held"
      BY <2>1, <3>1, <3>2 DEF SameClients
    <3> QED
      BY <3>2, <3>3, OwnFrame
  <2> QED
    BY <2>3, <2>4
<1>23. ASSUME NEW x \in Clients \cup Workers, NEW j \in Jobs, StartFallback(x, j) PROVE OwnInv'
  <2>1. UNCHANGED <<queued, claimed, arrival, memHeld, queuedActive, pc, token>>
    BY <1>23 DEF StartFallback, procVars, schedVars
  <2> QED
    BY <2>1, OwnFrame
<1>24. ASSUME NEW x \in Clients \cup Workers, NEW j \in Jobs, AttemptBackend(x, j) PROVE OwnInv'
  <2>1. UNCHANGED <<queued, claimed, arrival, memHeld, queuedActive, pc, token>>
    BY <1>24 DEF AttemptBackend, procVars, schedVars
  <2> QED
    BY <2>1, OwnFrame
<1>25. ASSUME NEW x \in Clients \cup Workers, NEW j \in Jobs, AttemptRefused(x, j) PROVE OwnInv'
  <2>1. UNCHANGED <<queued, claimed, arrival, memHeld, queuedActive, pc, token>>
    BY <1>25 DEF AttemptRefused, procVars, schedVars
  <2> QED
    BY <2>1, OwnFrame
<1>26. ASSUME NEW p \in Pipelines, PipelineStart(p) PROVE OwnInv'
  <2>1. /\ UNCHANGED <<arrival, memHeld, queuedActive>>
        /\ queued' \subseteq queued /\ claimed' \subseteq claimed
        /\ \A v \in Workers : pc'[v] \in Claiming <=> pc[v] \in Claiming
        /\ \A v \in Workers : pc'[v] \in Reserving <=> pc[v] \in Reserving
        /\ \A v \in Workers : pc[v] \in Claiming => token'[v] = token[v]
        /\ \A c \in Clients : pc'[c] = "held" <=> pc[c] = "held"
    BY <1>26, <1>0, ProcsDisjoint DEF PipelineStart
  <2> QED
    BY <2>1, OwnFrame
<1>27. ASSUME NEW p \in Pipelines, PipelineReserve(p) PROVE OwnInv'
  <2>1. /\ UNCHANGED <<arrival, memHeld, queuedActive>>
        /\ queued' \subseteq queued /\ claimed' \subseteq claimed
        /\ \A v \in Workers : pc'[v] \in Claiming <=> pc[v] \in Claiming
        /\ \A v \in Workers : pc'[v] \in Reserving <=> pc[v] \in Reserving
        /\ \A v \in Workers : pc[v] \in Claiming => token'[v] = token[v]
        /\ \A c \in Clients : pc'[c] = "held" <=> pc[c] = "held"
    BY <1>27, <1>0, ProcsDisjoint DEF PipelineReserve
  <2> QED
    BY <2>1, OwnFrame
<1>28. ASSUME NEW p \in Pipelines, PipelineRelease(p) PROVE OwnInv'
  <2>1. /\ UNCHANGED <<arrival, memHeld, queuedActive>>
        /\ queued' \subseteq queued /\ claimed' \subseteq claimed
        /\ \A v \in Workers : pc'[v] \in Claiming <=> pc[v] \in Claiming
        /\ \A v \in Workers : pc'[v] \in Reserving <=> pc[v] \in Reserving
        /\ \A v \in Workers : pc[v] \in Claiming => token'[v] = token[v]
        /\ \A c \in Clients : pc'[c] = "held" <=> pc[c] = "held"
    BY <1>28, <1>0, ProcsDisjoint DEF PipelineRelease
  <2> QED
    BY <2>1, OwnFrame
<1>29. ASSUME NEW p \in Pipelines, PipelineApply(p) PROVE OwnInv'
  <2>1. /\ UNCHANGED <<arrival, memHeld, queuedActive>>
        /\ queued' \subseteq queued /\ claimed' \subseteq claimed
        /\ \A v \in Workers : pc'[v] \in Claiming <=> pc[v] \in Claiming
        /\ \A v \in Workers : pc'[v] \in Reserving <=> pc[v] \in Reserving
        /\ \A v \in Workers : pc[v] \in Claiming => token'[v] = token[v]
        /\ \A c \in Clients : pc'[c] = "held" <=> pc[c] = "held"
    BY <1>29, <1>0, ProcsDisjoint DEF PipelineApply
  <2> QED
    BY <2>1, OwnFrame
<1>30. CASE UpdateAdaptiveInputs
  <2>1. UNCHANGED <<queued, claimed, arrival, memHeld, queuedActive, pc, token>>
    BY <1>30 DEF UpdateAdaptiveInputs, procVars, schedVars
  <2> QED
    BY <2>1, OwnFrame
<1>31. CASE SetSchedulingPreference
  <2>1. UNCHANGED <<queued, claimed, arrival, memHeld, queuedActive, pc, token>>
    BY <1>31 DEF SetSchedulingPreference, procVars, schedVars
  <2> QED
    BY <2>1, OwnFrame
<1>32. ASSUME NEW q \in Plans, RequestPlan(q) PROVE OwnInv'
  <2>1. UNCHANGED <<queued, claimed, arrival, memHeld, queuedActive, pc, token>>
    BY <1>32 DEF RequestPlan, procVars, schedVars
  <2> QED
    BY <2>1, OwnFrame
<1>33. CASE ApplyPendingPlan
  <2>1. UNCHANGED <<queued, claimed, arrival, memHeld, queuedActive, pc, token>>
    BY <1>33 DEF ApplyPendingPlan, procVars, schedVars
  <2> QED
    BY <2>1, OwnFrame
<1>34. ASSUME NEW q \in Placements, RequestPlacement(q) PROVE OwnInv'
  <2>1. UNCHANGED <<queued, claimed, arrival, memHeld, queuedActive, pc, token>>
    BY <1>34 DEF RequestPlacement, procVars, schedVars
  <2> QED
    BY <2>1, OwnFrame
<1>35. CASE ApplyPendingPlacement
  <2>1. UNCHANGED <<queued, claimed, arrival, memHeld, queuedActive, pc, token>>
    BY <1>35 DEF ApplyPendingPlacement, procVars, schedVars
  <2> QED
    BY <2>1, OwnFrame
<1>36. ASSUME NEW d \in Dispatchers, InstallDispatcher(d) PROVE OwnInv'
  <2>1. UNCHANGED <<queued, claimed, arrival, memHeld, queuedActive, pc, token>>
    BY <1>36 DEF InstallDispatcher, procVars, schedVars
  <2> QED
    BY <2>1, OwnFrame
<1>37. ASSUME NEW ps \in SUBSET Pairs, InstallContention(ps) PROVE OwnInv'
  <2>1. UNCHANGED <<queued, claimed, arrival, memHeld, queuedActive, pc, token>>
    BY <1>37 DEF InstallContention, procVars, schedVars
  <2> QED
    BY <2>1, OwnFrame
<1>38. ASSUME NEW o \in Owners, BeginMaintenance(o) PROVE OwnInv'
  <2>1. UNCHANGED <<queued, claimed, arrival, memHeld, queuedActive, pc, token>>
    BY <1>38 DEF BeginMaintenance, procVars, schedVars
  <2> QED
    BY <2>1, OwnFrame
<1>39. ASSUME NEW o \in Owners, EndMaintenance(o) PROVE OwnInv'
  <2>1. UNCHANGED <<queued, claimed, arrival, memHeld, queuedActive, pc, token>>
    BY <1>39 DEF EndMaintenance, procVars, schedVars
  <2> QED
    BY <2>1, OwnFrame
<1>40. CASE UNCHANGED vars
  <2>1. UNCHANGED <<queued, claimed, arrival, memHeld, queuedActive, pc, token>>
    BY <1>40 DEF vars, schedVars
  <2> QED
    BY <2>1, OwnFrame
<1> QED
  BY <1>1, <1>2, <1>3, <1>4, <1>5, <1>6, <1>7, <1>8, <1>9, <1>10, <1>11, <1>12, <1>13,
     <1>14, <1>14c, <1>14m, <1>15, <1>16, <1>17, <1>18, <1>19, <1>20, <1>21, <1>22, <1>23, <1>24, <1>25,
     <1>26, <1>27, <1>28, <1>29, <1>30, <1>31, <1>32, <1>33, <1>34, <1>35, <1>36, <1>37,
     <1>38, <1>39, <1>40
     DEF Next, ClientNext, WorkerNext, CancelNext, FallbackNext, PipelineNext, ControlNext

(* The memory controller holds exactly the reservations somebody answers   *)
(* for: no race of admit_next, steal_next and cancel leaks one or releases *)
(* it under its owner.                                                     *)
THEOREM SchedulerOwnsReservations == Spec => []ReservationsOwned
<1>1. OwnInv /\ PartsInv => ReservationsOwned
  BY OwnIsOwned DEF PartsInv
<1> QED
  BY <1>1, OwnInvInit, OwnInvNext, SchedulerParts, PTL DEF Spec

(* No request is admitted twice: a claim has one worker, and an active     *)
(* token is neither waiting nor claimed.                                   *)
THEOREM SchedulerOneClaimer == Spec => []OneClaimer
<1>1. OwnInv /\ PartsInv => OneClaimer
  BY OwnIsOneClaimer DEF PartsInv, QueueInv
<1> QED
  BY <1>1, OwnInvInit, OwnInvNext, SchedulerParts, PTL DEF Spec

-----------------------------------------------------------------------------
(* Deferred relaxations.  Every release of a reservation is followed by    *)
(* the same thread applying what is pending, except the rollback of        *)
(* admit_next.                                                             *)

(* Who is about to apply what is pending.                                  *)
Appliers == {x \in Procs : pc[x] \in {"applying", "piping", "finally"}}

LEMMA AppliersFrame ==
  ASSUME ~Stranded, UNCHANGED pending, memHeld \subseteq memHeld', live \subseteq live',
         Appliers \subseteq Appliers'
  PROVE  ~Stranded'
BY DEF Stranded, HasActiveWork, Appliers

LEMMA ApplierStays ==
  ASSUME NEW x \in Procs, pc'[x] \in {"applying", "piping", "finally"}
  PROVE  ~Stranded'
BY DEF Stranded

LEMMA ApplierApplies ==
  ASSUME ApplyPending, UNCHANGED <<memHeld, live>>
  PROVE  ~Stranded'
<1>1. CASE pending # None /\ ~HasActiveWork
  <2>1. pending' = None
    BY <1>1, Zenon DEF ApplyPending
  <2> QED
    BY <2>1 DEF Stranded
<1>2. CASE ~(pending # None /\ ~HasActiveWork)
  <2>1. UNCHANGED pending
    BY <1>2, Zenon DEF ApplyPending
  <2> QED
    BY <1>2, <2>1 DEF Stranded, HasActiveWork
<1> QED
  BY <1>1, <1>2

LEMMA ProposalHasApplier ==
  ASSUME NEW proposed, Propose(proposed), UNCHANGED <<memHeld, live>>
  PROVE  ~Stranded'
<1>1. pending' = None \/ HasActiveWork
  BY Zenon DEF Propose
<1> QED
  BY <1>1 DEF Stranded, HasActiveWork

LEMMA ApplierNext ==
  ASSUME PartsInv, ~Stranded, [Next]_vars, \A w \in Workers : ~RollBackAdmitted(w)
  PROVE  ~Stranded'
<1>0. /\ SchedType
      /\ pc \in [Procs -> States]
      /\ Workers \subseteq Procs /\ Clients \subseteq Procs /\ Pipelines \subseteq Procs
      /\ Cancellers \subseteq Procs
  BY DEF PartsInv, SchedType, SchedTypeOK, Procs
<1> USE DEF Go, memVars, ledgerVars, adaptiveVars, procVars
<1>1. ASSUME NEW c \in Clients, ClientAdmit(c) PROVE ~Stranded'
  <2>1. UNCHANGED pending /\ memHeld \subseteq memHeld' /\ live \subseteq live'
    BY <1>1 DEF ClientAdmit, AdmitSelected, Reserve
  <2>2. Appliers \subseteq Appliers'
    BY <1>1, <1>0 DEF ClientAdmit, AdmitSelected, Reserve, Appliers
  <2> QED
    BY <2>1, <2>2, AppliersFrame
<1>2. ASSUME NEW c \in Clients, ClientComplete(c) PROVE ~Stranded'
  BY <1>2, <1>0, ApplierStays DEF ClientComplete
<1>3. ASSUME NEW x \in Procs, ApplyAndUnlock(x) PROVE ~Stranded'
  BY <1>3, ApplierApplies DEF ApplyAndUnlock
<1>4. ASSUME NEW t \in Tokens, Submit(t) PROVE ~Stranded'
  <2>1. UNCHANGED pending /\ memHeld \subseteq memHeld' /\ live \subseteq live'
    BY <1>4 DEF Submit, schedVars
  <2>2. Appliers \subseteq Appliers'
    BY <1>4, <1>0 DEF Submit, schedVars, Appliers
  <2> QED
    BY <2>1, <2>2, AppliersFrame
<1>5. ASSUME NEW w \in Workers, Dequeue(w) PROVE ~Stranded'
  <2>1. UNCHANGED pending /\ memHeld \subseteq memHeld' /\ live \subseteq live'
    BY <1>5 DEF Dequeue
  <2>2. Appliers \subseteq Appliers'
    BY <1>5, <1>0 DEF Dequeue, Appliers
  <2> QED
    BY <2>1, <2>2, AppliersFrame
<1>6. ASSUME NEW w \in Workers, DequeueNothing(w) PROVE ~Stranded'
  <2>1. UNCHANGED pending /\ memHeld \subseteq memHeld' /\ live \subseteq live'
    BY <1>6 DEF DequeueNothing, schedVars
  <2>2. Appliers \subseteq Appliers'
    BY <1>6, <1>0 DEF DequeueNothing, schedVars, Appliers
  <2> QED
    BY <2>1, <2>2, AppliersFrame
<1>7. ASSUME NEW w \in Workers, AdmitDequeued(w) PROVE ~Stranded'
  <2>1. UNCHANGED pending /\ memHeld \subseteq memHeld' /\ live \subseteq live'
    BY <1>7 DEF AdmitDequeued, AdmitSelected, Reserve
  <2>2. Appliers \subseteq Appliers'
    BY <1>7, <1>0 DEF AdmitDequeued, AdmitSelected, Reserve, Appliers
  <2> QED
    BY <2>1, <2>2, AppliersFrame
<1>8. ASSUME NEW w \in Workers, AdmitDequeuedFails(w) PROVE ~Stranded'
  <2>1. UNCHANGED pending /\ memHeld \subseteq memHeld' /\ live \subseteq live'
    BY <1>8 DEF AdmitDequeuedFails
  <2>2. Appliers \subseteq Appliers'
    BY <1>8, <1>0 DEF AdmitDequeuedFails, Appliers
  <2> QED
    BY <2>1, <2>2, AppliersFrame
<1>9. ASSUME NEW w \in Workers, DropFailed(w) PROVE ~Stranded'
  <2>1. UNCHANGED pending /\ memHeld \subseteq memHeld' /\ live \subseteq live'
    BY <1>9 DEF DropFailed
  <2>2. Appliers \subseteq Appliers'
    BY <1>9, <1>0 DEF DropFailed, Appliers
  <2> QED
    BY <2>1, <2>2, AppliersFrame
<1>10. ASSUME NEW w \in Workers, ActivateAdmitted(w) PROVE ~Stranded'
  <2>1. UNCHANGED pending /\ memHeld \subseteq memHeld' /\ live \subseteq live'
    BY <1>10 DEF ActivateAdmitted
  <2>2. Appliers \subseteq Appliers'
    BY <1>10, <1>0 DEF ActivateAdmitted, Appliers
  <2> QED
    BY <2>1, <2>2, AppliersFrame
<1>12. ASSUME NEW w \in Workers, CompleteQueued(w) PROVE ~Stranded'
  <2>1. CASE token[w] \in queuedActive
    <3>1. pc' = [pc EXCEPT ![w] = "applying"]
      BY <1>12, <2>1, Zenon DEF CompleteQueued, Go
    <3> QED
      BY <1>0, <3>1, ApplierStays
  <2>2. CASE token[w] \notin queuedActive
    <3>1. /\ pc' = [pc EXCEPT ![w] = "idle"] /\ pc[w] = "running"
          /\ UNCHANGED <<ledgerVars, memVars, adaptiveVars>>
      BY <1>12, <2>2, Zenon DEF CompleteQueued, Go
    <3>2. Appliers \subseteq Appliers'
      BY <1>0, <3>1 DEF Appliers
    <3> QED
      BY <3>1, <3>2, AppliersFrame
  <2> QED
    BY <2>1, <2>2
<1>13. ASSUME NEW w \in Workers, StealNothing(w) PROVE ~Stranded'
  <2>1. UNCHANGED pending /\ memHeld \subseteq memHeld' /\ live \subseteq live'
    BY <1>13 DEF StealNothing, schedVars
  <2>2. Appliers \subseteq Appliers'
    BY <1>13, <1>0 DEF StealNothing, schedVars, Appliers
  <2> QED
    BY <2>1, <2>2, AppliersFrame
<1>14. ASSUME NEW w \in Workers, NEW b \in Backends, StealPeek(w, b) PROVE ~Stranded'
  <2>1. UNCHANGED pending /\ memHeld \subseteq memHeld' /\ live \subseteq live'
    BY <1>14 DEF StealPeek
  <2>2. Appliers \subseteq Appliers'
    BY <1>14, <1>0 DEF StealPeek, Appliers
  <2> QED
    BY <2>1, <2>2, AppliersFrame
<1>14c. ASSUME NEW w \in Workers, StealClaim(w) PROVE ~Stranded'
  <2>1. UNCHANGED pending /\ memHeld \subseteq memHeld' /\ live \subseteq live'
    BY <1>14c DEF StealClaim
  <2>2. Appliers \subseteq Appliers'
    BY <1>14c, <1>0 DEF StealClaim, Appliers
  <2> QED
    BY <2>1, <2>2, AppliersFrame
<1>14m. ASSUME NEW w \in Workers, StealMisses(w) PROVE ~Stranded'
  <2>1. UNCHANGED pending /\ memHeld \subseteq memHeld' /\ live \subseteq live'
    BY <1>14m DEF StealMisses
  <2>2. Appliers \subseteq Appliers'
    BY <1>14m, <1>0 DEF StealMisses, EndSteal, Appliers
  <2> QED
    BY <2>1, <2>2, AppliersFrame
<1>15. ASSUME NEW w \in Workers, StealAdmit(w) PROVE ~Stranded'
  <2>1. UNCHANGED pending /\ memHeld \subseteq memHeld' /\ live \subseteq live'
    BY <1>15 DEF StealAdmit, AdmitSelected, Reserve
  <2>2. Appliers \subseteq Appliers'
    BY <1>15, <1>0 DEF StealAdmit, AdmitSelected, Reserve, Appliers
  <2> QED
    BY <2>1, <2>2, AppliersFrame
<1>16. ASSUME NEW w \in Workers, StealRestore(w) PROVE ~Stranded'
  <2>1. UNCHANGED pending /\ memHeld \subseteq memHeld' /\ live \subseteq live'
    BY <1>16 DEF StealRestore, EndSteal
  <2>2. Appliers \subseteq Appliers'
    BY <1>16, <1>0 DEF StealRestore, EndSteal, Appliers
  <2> QED
    BY <2>1, <2>2, AppliersFrame
<1>17. ASSUME NEW w \in Workers, StealRefused(w) PROVE ~Stranded'
  <2>1. UNCHANGED pending /\ memHeld \subseteq memHeld' /\ live \subseteq live'
    BY <1>17 DEF StealRefused, EndSteal
  <2>2. Appliers \subseteq Appliers'
    BY <1>17, <1>0 DEF StealRefused, EndSteal, Appliers
  <2> QED
    BY <2>1, <2>2, AppliersFrame
<1>18. ASSUME NEW w \in Workers, StealActivate(w) PROVE ~Stranded'
  <2>1. UNCHANGED pending /\ memHeld \subseteq memHeld' /\ live \subseteq live'
    BY <1>18 DEF StealActivate, EndSteal
  <2>2. Appliers \subseteq Appliers'
    BY <1>18, <1>0 DEF StealActivate, EndSteal, Appliers
  <2> QED
    BY <2>1, <2>2, AppliersFrame
<1>19. ASSUME NEW w \in Workers, StealUndo(w) PROVE ~Stranded'
  BY <1>19, <1>0, ApplierStays DEF StealUndo
<1>19w. ASSUME NEW x \in Cancellers, NEW u \in Tokens, CancelWaiting(x, u) PROVE ~Stranded'
  <2>1. UNCHANGED pending /\ memHeld \subseteq memHeld' /\ live \subseteq live'
    BY <1>19w DEF CancelWaiting, schedVars
  <2>2. Appliers \subseteq Appliers'
    BY <1>19w, <1>0 DEF CancelWaiting, schedVars, Appliers
  <2> QED
    BY <2>1, <2>2, AppliersFrame
<1>19m. ASSUME NEW x \in Cancellers, NEW u \in Tokens, CancelMisses(x, u) PROVE ~Stranded'
  <2>1. UNCHANGED pending /\ memHeld \subseteq memHeld' /\ live \subseteq live'
    BY <1>19m DEF CancelMisses
  <2>2. Appliers \subseteq Appliers'
    BY <1>19m, <1>0 DEF CancelMisses, Appliers
  <2> QED
    BY <2>1, <2>2, AppliersFrame
<1>19a. ASSUME NEW x \in Cancellers, CancelActive(x) PROVE ~Stranded'
  <2>1. CASE token[x] \in queuedActive
    <3>1. pc' = [pc EXCEPT ![x] = "applying"]
      BY <1>19a, <2>1, Zenon DEF CancelActive, Go
    <3> QED
      BY <1>0, <3>1, ApplierStays
  <2>2. CASE token[x] \notin queuedActive
    <3>1. /\ pc' = [pc EXCEPT ![x] = "idle"] /\ pc[x] = "cancelling"
          /\ UNCHANGED <<ledgerVars, memVars, adaptiveVars>>
      BY <1>19a, <2>2, Zenon DEF CancelActive, Go
    <3>2. Appliers \subseteq Appliers'
      BY <1>0, <3>1 DEF Appliers
    <3> QED
      BY <3>1, <3>2, AppliersFrame
  <2> QED
    BY <2>1, <2>2
<1>20. ASSUME NEW x \in Clients \cup Workers, NEW j \in Jobs, StartFallback(x, j) PROVE ~Stranded'
  <2>1. UNCHANGED pending /\ memHeld \subseteq memHeld' /\ live \subseteq live'
    BY <1>20 DEF StartFallback
  <2>2. Appliers \subseteq Appliers'
    BY <1>20, <1>0 DEF StartFallback, Appliers
  <2> QED
    BY <2>1, <2>2, AppliersFrame
<1>21. ASSUME NEW x \in Clients \cup Workers, NEW j \in Jobs, AttemptBackend(x, j) PROVE ~Stranded'
  <2>1. UNCHANGED pending /\ memHeld \subseteq memHeld' /\ live \subseteq live'
    BY <1>21 DEF AttemptBackend, Transfer
  <2>2. Appliers \subseteq Appliers'
    BY <1>21, <1>0 DEF AttemptBackend, Transfer, Appliers
  <2> QED
    BY <2>1, <2>2, AppliersFrame
<1>22. ASSUME NEW x \in Clients \cup Workers, NEW j \in Jobs, AttemptRefused(x, j) PROVE ~Stranded'
  <2>1. UNCHANGED pending /\ memHeld \subseteq memHeld' /\ live \subseteq live'
    BY <1>22 DEF AttemptRefused
  <2>2. Appliers \subseteq Appliers'
    BY <1>22, <1>0 DEF AttemptRefused, Appliers
  <2> QED
    BY <2>1, <2>2, AppliersFrame
<1>23. ASSUME NEW p \in Pipelines, PipelineStart(p) PROVE ~Stranded'
  <2>1. UNCHANGED pending /\ memHeld \subseteq memHeld' /\ live \subseteq live'
    BY <1>23 DEF PipelineStart
  <2>2. Appliers \subseteq Appliers'
    BY <1>23, <1>0 DEF PipelineStart, Appliers
  <2> QED
    BY <2>1, <2>2, AppliersFrame
<1>24. ASSUME NEW p \in Pipelines, PipelineReserve(p) PROVE ~Stranded'
  BY <1>24, <1>0, ApplierStays DEF PipelineReserve
<1>25. ASSUME NEW p \in Pipelines, PipelineRelease(p) PROVE ~Stranded'
  BY <1>25, <1>0, ApplierStays DEF PipelineRelease
<1>26. ASSUME NEW p \in Pipelines, PipelineApply(p) PROVE ~Stranded'
  BY <1>26, ApplierApplies DEF PipelineApply
<1>27. CASE UpdateAdaptiveInputs
  BY <1>27, ProposalHasApplier DEF UpdateAdaptiveInputs
<1>28. CASE SetSchedulingPreference
  BY <1>28, ProposalHasApplier DEF SetSchedulingPreference
<1>29. CASE \E q \in Plans : RequestPlan(q)
  <2>1. UNCHANGED <<pending, memHeld, live, pc>>
    BY <1>29 DEF RequestPlan
  <2> QED
    BY <2>1, AppliersFrame DEF Appliers
<1>30. CASE ApplyPendingPlan
  <2>1. UNCHANGED <<pending, memHeld, live, pc>>
    BY <1>30 DEF ApplyPendingPlan
  <2> QED
    BY <2>1, AppliersFrame DEF Appliers
<1>31. CASE \E q \in Placements : RequestPlacement(q)
  <2>1. UNCHANGED <<pending, memHeld, live, pc>>
    BY <1>31 DEF RequestPlacement
  <2> QED
    BY <2>1, AppliersFrame DEF Appliers
<1>32. CASE ApplyPendingPlacement
  <2>1. UNCHANGED <<pending, memHeld, live, pc>>
    BY <1>32 DEF ApplyPendingPlacement
  <2> QED
    BY <2>1, AppliersFrame DEF Appliers
<1>33. CASE \E d \in Dispatchers : InstallDispatcher(d)
  <2>1. UNCHANGED <<pending, memHeld, live, pc>>
    BY <1>33 DEF InstallDispatcher
  <2> QED
    BY <2>1, AppliersFrame DEF Appliers
<1>34. CASE \E ps \in SUBSET Pairs : InstallContention(ps)
  <2>1. UNCHANGED <<pending, memHeld, live, pc>>
    BY <1>34 DEF InstallContention, ReplaceEvidence, schedVars
  <2> QED
    BY <2>1, AppliersFrame DEF Appliers
<1>35. CASE \E o \in Owners : BeginMaintenance(o) \/ EndMaintenance(o)
  <2>1. UNCHANGED <<pending, memHeld, live, pc>>
    BY <1>35 DEF BeginMaintenance, EndMaintenance
  <2> QED
    BY <2>1, AppliersFrame DEF Appliers
<1>36. CASE UNCHANGED vars
  <2>1. UNCHANGED <<pending, memHeld, live, pc>>
    BY <1>36 DEF vars, schedVars
  <2> QED
    BY <2>1, AppliersFrame DEF Appliers
<1> QED
  BY <1>1, <1>2, <1>3, <1>4, <1>5, <1>6, <1>7, <1>8, <1>9, <1>10, <1>12, <1>13,
     <1>14, <1>14c, <1>14m, <1>15, <1>16, <1>17, <1>18, <1>19,
     <1>19w, <1>19m, <1>19a, <1>20, <1>21, <1>22, <1>23, <1>24, <1>25,
     <1>26, <1>27, <1>28, <1>29, <1>30, <1>31, <1>32, <1>33, <1>34, <1>35, <1>36
     DEF Next, ClientNext, WorkerNext, CancelNext, FallbackNext, PipelineNext, ControlNext

(* update_adaptive_inputs: a relaxation it has deferred always has someone *)
(* left to apply it, whoever completes, steals, cancels or runs a pipeline *)
(* beside it.  The one step that strands one is the rollback of            *)
(* admit_next, which gives a reservation back and applies nothing.         *)
THEOREM SchedulerAppliesRelaxations == Spec => StrandedByRollbackOnly
<1>1. PartsInv /\ [Next]_vars
      => [Stranded' => Stranded \/ \E w \in Workers : RollBackAdmitted(w)]_vars
  BY ApplierNext
<1> QED
  BY <1>1, SchedulerParts, PTL DEF Spec, StrandedByRollbackOnly
=============================================================================
