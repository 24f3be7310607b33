--------------------------- MODULE SubmissionProofs ---------------------------
(***************************************************************************)
(* The submission scheduler for any number of workers, cancellers and      *)
(* tokens.  Each of its steps is a step of BasicScheduler or leaves that   *)
(* alone, so the invariants proved there carry over; what is added relates *)
(* the worker loops and the handles to the scheduler underneath.           *)
(***************************************************************************)
EXTENDS Submission, BasicSchedulerProofs

-----------------------------------------------------------------------------
(* The inductive invariant.  That an operation holds its reservation needs *)
(* to be known from the moment the scheduler admits the token, and that no *)
(* other worker or stale cancel can complete it.                           *)
(* A worker with an admission to run, and one with a command in hand.      *)
Admitted == {"fetch", "begin", "orphan", "drop", "operate", "complete"}
Working == Admitted \cup {"fail", "failing", "pop", "popQuietly"}

(* The loop of a worker and its calls into the scheduler go together: it   *)
(* runs an admission exactly while the scheduler counts it as running, on  *)
(* the same token, and it claims only inside a scheduler call.             *)
Aligned ==
    \A w \in Workers :
       /\ pc[w] = "running" <=> step[w] \in Admitted
       /\ step[w] \in Admitted => token[w] = work[w]
       /\ pc[w] \in Claiming => step[w] = "call"
       /\ w \in waiting => step[w] = "waiting"

(* A running token has left the queue for good and has one worker.         *)
RunnersApart ==
    \A w \in Workers :
       pc[w] = "running" =>
          /\ token[w] \in Tokens /\ token[w] \notin queued
          /\ \A v \in Workers :
                (pc[v] = "running" \/ pc[v] \in Claiming) /\ token[v] = token[w] => v = w

(* Whatever the handles and the workers know was submitted.                                 *)
Submitted ==
    /\ \A t \in Tokens : arrival[t] = NoEntry => state[t] = "none" /\ t \notin commands
    /\ \A w \in Workers :
          step[w] \in Working => work[w] \in Tokens /\ arrival[work[w]] # NoEntry

(* Past _begin a handle is no longer pending.                              *)
BegunOnce ==
    \A w \in Workers :
       step[w] \in {"operate", "complete", "drop", "pop", "popQuietly"} =>
          state[work[w]] # "pending"
(* A refused command is unregistered before its handle fails.              *)
RefusedGone == \A w \in Workers : step[w] = "failing" => work[w] \notin commands
PendingTracked ==
    \A t \in Tokens :
       state[t] = "pending" =>
          t \in commands \/ \E w \in Workers : work[w] = t /\ step[w] \in {"failing", "begin"}
SettledLeaves ==
    \A t \in commands :
       state[t] \in Settled => \E w \in Workers : work[w] = t /\ step[w] \in {"complete", "pop"}

(* A cancel asks the scheduler for the token it is to settle.              *)
CancelsOwn ==
    \A x \in Cancellers :
       /\ cstep[x] # "free" => ctoken[x] \in Tokens
       /\ cstep[x] = "active" => token[x] = ctoken[x]
(* An admitted token stays active until its worker completes it, or a      *)
(* cancel has taken it.                                                    *)
Taken(t) == t \in cancelTrue \/ \E x \in Cancellers : ctoken[x] = t /\ cstep[x] = "settle"
ActiveOrTaken ==
    \A w \in Workers : step[w] \in Admitted => work[w] \in queuedActive \/ Taken(work[w])

(* The part about the handles, and the part inherited from the scheduler.  *)
HandlesInv ==
    /\ HandlesTypeOK /\ Aligned /\ RunnersApart /\ Submitted /\ BegunOnce
    /\ RefusedGone /\ PendingTracked /\ SettledLeaves /\ CancelsOwn /\ ActiveOrTaken
SchedulerInv == PartsInv /\ BooksInv /\ OwnInv
SubInv == SchedulerInv /\ HandlesInv

LEMMA HandlesInvInit == SubInit => HandlesInv
<1> SUFFICES ASSUME SubInit PROVE HandlesInv
  OBVIOUS
<1> USE DEF SubInit
<1>1. HandlesTypeOK
  BY DEF HandlesTypeOK, Steps
<1>2. \A w \in Workers : pc[w] = "idle"
  BY DEF Init, SchedInit, Procs
<1>3. Aligned /\ RunnersApart
  BY <1>2 DEF Aligned, RunnersApart, Admitted, Claiming
<1>4. Submitted /\ BegunOnce /\ RefusedGone /\ PendingTracked /\ SettledLeaves
  BY DEF Submitted, BegunOnce, RefusedGone, PendingTracked, SettledLeaves, Admitted, Working
<1>5. CancelsOwn /\ ActiveOrTaken
  BY DEF CancelsOwn, ActiveOrTaken, Admitted
<1> QED
  BY <1>1, <1>3, <1>4, <1>5 DEF HandlesInv

-----------------------------------------------------------------------------
(* Every step of the submission scheduler is one of the scheduler's.       *)
LEMMA SubStep ==
  ASSUME SubInv, [SubNext]_allVars
  PROVE  [Next]_vars
<1>0. /\ \A w \in Workers : pc[w] = "running" => token[w] \in Jobs
      /\ \A w \in Workers : pc[w] # "held"
      /\ untried \in [Workers -> SUBSET Backends]
      /\ \A x \in Cancellers : cstep[x] # "free" => ctoken[x] \in Tokens
      /\ Workers \subseteq Procs /\ Cancellers \subseteq Procs
  BY DEF SubInv, SchedulerInv, PartsInv, SchedType, Roles, WorkerStates,
         WorksOnToken, Busy, Jobs, HandlesInv, HandlesTypeOK, CancelsOwn, Procs
<1>1. CASE Start
  BY <1>1 DEF Start
<1>2. CASE Shutdown
  BY <1>2 DEF Shutdown
<1>3. ASSUME NEW t \in Tokens, ShutdownSkips(t) PROVE [Next]_vars
  BY <1>3 DEF ShutdownSkips
<1>4. ASSUME NEW w \in Workers, LoopTop(w) PROVE [Next]_vars
  BY <1>4 DEF LoopTop
<1>5. ASSUME NEW w \in Workers, PopRefused(w) PROVE [Next]_vars
  BY <1>5 DEF PopRefused
<1>6. ASSUME NEW w \in Workers, FailHandle(w) PROVE [Next]_vars
  BY <1>6 DEF FailHandle
<1>7. ASSUME NEW w \in Workers, FetchCommand(w) PROVE [Next]_vars
  BY <1>7 DEF FetchCommand
<1>8. ASSUME NEW w \in Workers, Begin(w) PROVE [Next]_vars
  BY <1>8 DEF Begin
<1>9. ASSUME NEW w \in Workers, FinishHandle(w) PROVE [Next]_vars
  BY <1>9 DEF FinishHandle
<1>10. ASSUME NEW w \in Workers, PopCommand(w) PROVE [Next]_vars
  BY <1>10 DEF PopCommand
<1>11. ASSUME NEW x \in Cancellers, NEW t \in Tokens, CancelBegin(x, t) PROVE [Next]_vars
  BY <1>11 DEF CancelBegin
<1>12. ASSUME NEW x \in Cancellers, CancelSettle(x) PROVE [Next]_vars
  BY <1>12 DEF CancelSettle
<1>13. ASSUME NEW x \in Cancellers, CancelRefused(x) PROVE [Next]_vars
  BY <1>13 DEF CancelRefused
<1>14. ASSUME NEW t \in Tokens, SubmitCommand(t) PROVE [Next]_vars
  BY <1>14 DEF SubmitCommand, Next
<1>15. ASSUME NEW w \in Workers, SchedulerStep(w) PROVE [Next]_vars
  BY <1>15 DEF SchedulerStep, WorkerNext, Next
<1>16. ASSUME NEW w \in Workers, TrySteal(w) PROVE [Next]_vars
  BY <1>16, <1>0 DEF TrySteal, WorkerNext, Next
<1>17. ASSUME NEW w \in Workers, SchedulerIdle(w) PROVE [Next]_vars
  BY <1>17 DEF SchedulerIdle, WorkerNext, Next
<1>18. ASSUME NEW w \in Workers, SchedulerAdmits(w) PROVE [Next]_vars
  BY <1>18 DEF SchedulerAdmits, WorkerNext, Next
<1>19. ASSUME NEW w \in Workers, SchedulerRefuses(w) PROVE [Next]_vars
  BY <1>19 DEF SchedulerRefuses, WorkerNext, Next
<1>20. ASSUME NEW w \in Workers, Operate(w) PROVE [Next]_vars
  <2>1. work[w] \in Jobs
    BY <1>20, <1>0 DEF Operate, StartFallback, AttemptBackend, AttemptRefused, Holds
  <2> QED
    BY <1>20, <2>1 DEF Operate, FallbackNext, Next
<1>21. ASSUME NEW w \in Workers, CompleteCommand(w) PROVE [Next]_vars
  BY <1>21 DEF CompleteCommand, WorkerNext, Next
<1>22. ASSUME NEW x \in Cancellers, CancelQueueCall(x) PROVE [Next]_vars
  BY <1>22, <1>0 DEF CancelQueueCall, CancelNext, Next
<1>23. ASSUME NEW x \in Cancellers, CancelActiveCall(x) PROVE [Next]_vars
  BY <1>23 DEF CancelActiveCall, CancelNext, Next
<1>24. ASSUME NEW x \in Procs, Unlock(x) PROVE [Next]_vars
  BY <1>24 DEF Unlock, Next
<1>25. CASE ControlNext /\ UNCHANGED subVars
  BY <1>25 DEF Next
<1>26. CASE UNCHANGED allVars
  BY <1>26 DEF allVars
<1> QED
  BY <1>1, <1>2, <1>3, <1>4, <1>5, <1>6, <1>7, <1>8, <1>9, <1>10, <1>11, <1>12, <1>13,
     <1>14, <1>15, <1>16, <1>17, <1>18, <1>19, <1>20, <1>21, <1>22, <1>23, <1>24,
     <1>25, <1>26, <1>0
     DEF SubNext, WorkerStep, CancelInside, allVars

LEMMA SchedulerInvInit == SubInit => SchedulerInv
BY PartsInvInit, BooksInvInit, OwnInvInit DEF SubInit, SchedulerInv

LEMMA SchedulerInvNext == SubInv /\ [SubNext]_allVars => SchedulerInv'
<1> SUFFICES ASSUME SubInv, [SubNext]_allVars PROVE SchedulerInv'
  OBVIOUS
<1>1. [Next]_vars
  BY SubStep
<1> QED
  BY <1>1, PartsInvNext, BooksInvNext, OwnInvNext DEF SubInv, SchedulerInv

-----------------------------------------------------------------------------
(* What a scheduler call of a worker that is not running an admission can  *)
(* do to claims and tokens, until it ends in an admission.                 *)
CallMoves(w) ==
    /\ pc[w] # "running" /\ pc'[w] # "running"
    /\ \A v \in Procs \ {w} : pc'[v] = pc[v]
    /\ \A v \in (Workers \cup Cancellers) \ {w} : token'[v] = token[v]
    /\ UNCHANGED <<arrival, queuedActive>>
    /\ \A t \in queued' : t \in queued \/ (pc[w] \in Claiming /\ token[w] = t)
    /\ pc'[w] \in Claiming =>
          \/ pc[w] \in Claiming /\ token'[w] = token[w]
          \/ token'[w] \in queued
LEMMA CallStep ==
  ASSUME SchedulerInv, NEW w \in Workers,
         \/ Dequeue(w) \/ AdmitDequeued(w) \/ AdmitDequeuedFails(w) \/ StealNothing(w)
         \/ StealAdmit(w) \/ StealRestore(w) \/ StealUndo(w) \/ DequeueNothing(w)
         \/ RollBackAdmitted(w) \/ DropFailed(w) \/ StealRefused(w) \/ ApplyAndUnlock(w)
         \/ StealClaim(w) \/ StealMisses(w) \/ \E b \in Backends : StealPeek(w, b)
  PROVE  CallMoves(w)
<1>0. /\ pc \in [Procs -> States] /\ Workers \subseteq Procs
      /\ token \in [Workers \cup Cancellers -> Tokens \cup {None}]
  BY DEF SchedulerInv, PartsInv, SchedType, SchedTypeOK, Procs
<1> USE <1>0 DEF CallMoves, Claiming, Go, queueVars
<1>1. CASE Dequeue(w)
  BY <1>1 DEF Dequeue, ClaimHead, IsHead, IsLive
<1>2. CASE AdmitDequeued(w)
  BY <1>2 DEF AdmitDequeued, AdmitSelected
<1>3. CASE AdmitDequeuedFails(w)
  BY <1>3 DEF AdmitDequeuedFails
<1>4. CASE StealNothing(w)
  BY <1>4 DEF StealNothing, TrimHeap, schedVars
<1>5. CASE StealAdmit(w)
  BY <1>5 DEF StealAdmit, AdmitSelected
<1>6. CASE StealRestore(w)
  BY <1>6 DEF StealRestore, RestoreClaim, EndSteal
<1>7. CASE StealUndo(w)
  BY <1>7 DEF StealUndo
<1>8. CASE DequeueNothing(w)
  BY <1>8 DEF DequeueNothing, TrimHeap, schedVars
<1>9. CASE RollBackAdmitted(w)
  BY <1>9 DEF RollBackAdmitted
<1>10. CASE DropFailed(w)
  BY <1>10 DEF DropFailed, FinishIfClaimed, FinishClaim
<1>11. CASE StealRefused(w)
  BY <1>11 DEF StealRefused, FinishIfClaimed, FinishClaim, EndSteal
<1>12. CASE ApplyAndUnlock(w)
  BY <1>12 DEF ApplyAndUnlock
<1>13. ASSUME NEW b \in Backends, StealPeek(w, b) PROVE CallMoves(w)
  BY <1>13 DEF StealPeek, TrimHeap
<1>14. CASE StealClaim(w)
  BY <1>14 DEF StealClaim, ClaimHead, IsHead, IsLive
<1>15. CASE StealMisses(w)
  BY <1>15 DEF StealMisses, TrimHeap, EndSteal
<1> QED
  BY <1>1, <1>2, <1>3, <1>4, <1>5, <1>6, <1>7, <1>8, <1>9,
     <1>10, <1>11, <1>12, <1>13, <1>14, <1>15

LEMMA CallKeepsRunners ==
  ASSUME RunnersApart, OwnInv, NEW w \in Workers, CallMoves(w)
  PROVE  RunnersApart'
<1>0. Workers \subseteq Procs /\ Workers \subseteq Workers \cup Cancellers
  BY DEF Procs
<1> SUFFICES ASSUME NEW v \in Workers, pc'[v] = "running"
             PROVE  /\ token'[v] \in Tokens /\ token'[v] \notin queued'
                    /\ \A u \in Workers :
                          (pc'[u] = "running" \/ pc'[u] \in Claiming) /\ token'[u] = token'[v] => u = v
  BY DEF RunnersApart
<1>1. v # w /\ pc[v] = "running" /\ token'[v] = token[v]
  BY <1>0 DEF CallMoves
<1>2. token[v] \in Tokens /\ token[v] \notin queued
  BY <1>1 DEF RunnersApart
<1>3. pc[w] \in Claiming => token[w] # token[v]
  BY <1>1 DEF RunnersApart
<1>4. token'[v] \notin queued'
  BY <1>1, <1>2, <1>3 DEF CallMoves
<1>5. ASSUME NEW u \in Workers, pc'[u] = "running" \/ pc'[u] \in Claiming, token'[u] = token'[v]
      PROVE  u = v
  <2>1. CASE u = w
    BY <1>1, <1>2, <1>3, <1>5, <2>1 DEF CallMoves
  <2>2. CASE u # w
    BY <1>0, <1>1, <1>5, <2>2 DEF CallMoves, RunnersApart
  <2> QED
    BY <2>1, <2>2
<1> QED
  BY <1>1, <1>2, <1>4, <1>5

(* A call that ends without an admission leaves the loop aligned whatever  *)
(* step of the loop follows.                                               *)
LEMMA CallKeepsAligned ==
  ASSUME Aligned, NEW w \in Workers, CallMoves(w),
         UNCHANGED waiting, w \notin waiting,
         step[w] \notin Admitted, step'[w] \notin Admitted,
         pc'[w] \in Claiming => step'[w] = "call",
         \A v \in Workers \ {w} : step'[v] = step[v] /\ work'[v] = work[v]
  PROVE  Aligned'
<1>0. Workers \subseteq Procs /\ Workers \subseteq Workers \cup Cancellers
  BY DEF Procs
<1> SUFFICES ASSUME NEW v \in Workers
             PROVE  /\ pc'[v] = "running" <=> step'[v] \in Admitted
                    /\ step'[v] \in Admitted => token'[v] = work'[v]
                    /\ pc'[v] \in Claiming => step'[v] = "call"
                    /\ v \in waiting' => step'[v] = "waiting"
  BY DEF Aligned
<1>1. CASE v = w
  BY <1>1 DEF CallMoves
<1>2. CASE v # w
  BY <1>0, <1>2 DEF CallMoves, Aligned
<1> QED
  BY <1>1, <1>2

-----------------------------------------------------------------------------
(* The scheduler's variables the invariant speaks of.                      *)
SchedulerStill == UNCHANGED <<pc, token, queued, arrival, queuedActive>>
LEMMA StillStep ==
  ASSUME UNCHANGED vars \/ ControlNext
         \/ \E w \in Workers : Operate(w)
  PROVE  SchedulerStill
<1> USE DEF SchedulerStill, queueVars, schedVars, procVars
<1>1. CASE UNCHANGED vars
  BY <1>1 DEF vars
<1>2. CASE ControlNext
  BY <1>2 DEF ControlNext, UpdateAdaptiveInputs, SetSchedulingPreference, RequestPlan,
     ApplyPendingPlan, RequestPlacement, ApplyPendingPlacement, InstallDispatcher,
     InstallContention, BeginMaintenance, EndMaintenance
<1>3. ASSUME NEW w \in Workers, Operate(w) PROVE SchedulerStill
  BY <1>3 DEF Operate, StartFallback, AttemptBackend, AttemptRefused
<1> QED
  BY <1>1, <1>2, <1>3

LEMMA HandlesInvNext == SubInv /\ [SubNext]_allVars => HandlesInv'
<1> SUFFICES ASSUME SubInv, [SubNext]_allVars PROVE HandlesInv'
  OBVIOUS
<1>0. /\ SchedulerInv /\ OwnInv /\ HandlesTypeOK /\ Aligned /\ RunnersApart /\ Submitted
      /\ BegunOnce /\ RefusedGone /\ PendingTracked /\ SettledLeaves /\ CancelsOwn
      /\ ActiveOrTaken
  BY DEF SubInv, HandlesInv, SchedulerInv
<1>a. /\ pc \in [Procs -> States] /\ Workers \subseteq Procs /\ Cancellers \subseteq Procs
      /\ token \in [Workers \cup Cancellers -> Tokens \cup {None}]
      /\ Workers \cap Cancellers = {}
      /\ \A w \in Workers : pc[w] \in Claiming => token[w] \in Tokens
  BY ProcsDisjoint DEF SubInv, SchedulerInv, PartsInv, SchedType, SchedTypeOK, WorksOnToken,
     Busy,
     Claiming, Procs
<1> USE DEF To
<1>1. CASE Start
  <2>0. SchedulerStill
    BY <1>1, StillStep DEF Start
  <2>1. HandlesTypeOK'
    BY <1>0, <1>a, <1>1, <2>0 DEF Start, HandlesTypeOK, Steps, Settled, SchedulerStill
  <2>2. Aligned'
    BY <1>0, <1>a, <1>1, <2>0 DEF Start, HandlesTypeOK, Aligned, Admitted, SchedulerStill
  <2>3. RunnersApart'
    BY <1>0, <1>a, <1>1, <2>0 DEF Start, RunnersApart, SchedulerStill
  <2>4. Submitted'
    BY <1>0, <1>a, <1>1, <2>0 DEF Start, HandlesTypeOK, Submitted, Working, Admitted,
       SchedulerStill
  <2>5. BegunOnce' /\ RefusedGone'
    BY <1>0, <1>a, <1>1, <2>0 DEF Start, HandlesTypeOK, BegunOnce, RefusedGone,
       SchedulerStill
  <2>6. PendingTracked'
    BY <1>0, <1>a, <1>1, <2>0 DEF Start, HandlesTypeOK, PendingTracked, SchedulerStill
  <2>7. SettledLeaves'
    BY <1>0, <1>a, <1>1, <2>0 DEF Start, HandlesTypeOK, SettledLeaves, Settled,
       SchedulerStill
  <2>8. CancelsOwn'
    BY <1>0, <1>a, <1>1, <2>0 DEF Start, HandlesTypeOK, CancelsOwn, SchedulerStill
  <2>9. ActiveOrTaken'
    BY <1>0, <1>a, <1>1, <2>0 DEF Start, HandlesTypeOK, ActiveOrTaken, Admitted, Taken,
       SchedulerStill
  <2> QED
    BY <2>1, <2>2, <2>3, <2>4, <2>5, <2>6, <2>7, <2>8, <2>9 DEF HandlesInv
<1>2. CASE Shutdown
  <2>0. SchedulerStill
    BY <1>2, StillStep DEF Shutdown
  <2>1. HandlesTypeOK'
    BY <1>0, <1>a, <1>2, <2>0 DEF Shutdown, NotifyAll, HandlesTypeOK, Steps, Settled,
       SchedulerStill
  <2>2. Aligned'
    BY <1>0, <1>a, <1>2, <2>0 DEF Shutdown, NotifyAll, HandlesTypeOK, Aligned, Admitted,
       SchedulerStill
  <2>3. RunnersApart'
    BY <1>0, <1>a, <1>2, <2>0 DEF Shutdown, NotifyAll, RunnersApart, SchedulerStill
  <2>4. Submitted'
    BY <1>0, <1>a, <1>2, <2>0 DEF Shutdown, NotifyAll, HandlesTypeOK, Submitted, Working,
       Admitted, SchedulerStill
  <2>5. BegunOnce' /\ RefusedGone'
    BY <1>0, <1>a, <1>2, <2>0 DEF Shutdown, NotifyAll, HandlesTypeOK, BegunOnce,
       RefusedGone, SchedulerStill
  <2>6. PendingTracked'
    BY <1>0, <1>a, <1>2, <2>0 DEF Shutdown, NotifyAll, HandlesTypeOK, PendingTracked,
       SchedulerStill, Aligned
  <2>7. SettledLeaves'
    BY <1>0, <1>a, <1>2, <2>0 DEF Shutdown, NotifyAll, HandlesTypeOK, SettledLeaves,
       Settled, SchedulerStill, Aligned
  <2>8. CancelsOwn'
    BY <1>0, <1>a, <1>2, <2>0 DEF Shutdown, NotifyAll, HandlesTypeOK, CancelsOwn,
       SchedulerStill
  <2>9. ActiveOrTaken'
    BY <1>0, <1>a, <1>2, <2>0 DEF Shutdown, NotifyAll, HandlesTypeOK, ActiveOrTaken,
       Admitted, Taken, SchedulerStill
  <2> QED
    BY <2>1, <2>2, <2>3, <2>4, <2>5, <2>6, <2>7, <2>8, <2>9 DEF HandlesInv
<1>3. ASSUME NEW t \in Tokens, ShutdownSkips(t) PROVE HandlesInv'
  <2>0. SchedulerStill
    BY <1>3, StillStep DEF ShutdownSkips
  <2>1. HandlesTypeOK'
    BY <1>0, <1>a, <1>3, <2>0 DEF ShutdownSkips, HandlesTypeOK, Steps, Settled,
       SchedulerStill
  <2>2. Aligned'
    BY <1>0, <1>a, <1>3, <2>0 DEF ShutdownSkips, HandlesTypeOK, Aligned, Admitted,
       SchedulerStill
  <2>3. RunnersApart'
    BY <1>0, <1>a, <1>3, <2>0 DEF ShutdownSkips, RunnersApart, SchedulerStill
  <2>4. Submitted'
    BY <1>0, <1>a, <1>3, <2>0 DEF ShutdownSkips, HandlesTypeOK, Submitted, Working,
       Admitted, SchedulerStill
  <2>5. BegunOnce' /\ RefusedGone'
    BY <1>0, <1>a, <1>3, <2>0 DEF ShutdownSkips, HandlesTypeOK, BegunOnce, RefusedGone,
       SchedulerStill
  <2>6. PendingTracked'
    BY <1>0, <1>a, <1>3, <2>0 DEF ShutdownSkips, HandlesTypeOK, PendingTracked,
       SchedulerStill
  <2>7. SettledLeaves'
    BY <1>0, <1>a, <1>3, <2>0 DEF ShutdownSkips, HandlesTypeOK, SettledLeaves, Settled,
       SchedulerStill
  <2>8. CancelsOwn'
    BY <1>0, <1>a, <1>3, <2>0 DEF ShutdownSkips, HandlesTypeOK, CancelsOwn, SchedulerStill
  <2>9. ActiveOrTaken'
    BY <1>0, <1>a, <1>3, <2>0 DEF ShutdownSkips, HandlesTypeOK, ActiveOrTaken, Admitted,
       Taken, SchedulerStill
  <2> QED
    BY <2>1, <2>2, <2>3, <2>4, <2>5, <2>6, <2>7, <2>8, <2>9 DEF HandlesInv
<1>4. ASSUME NEW w \in Workers, LoopTop(w) PROVE HandlesInv'
  <2>0. SchedulerStill
    BY <1>4, StillStep DEF LoopTop
  <2>1. HandlesTypeOK'
    BY <1>0, <1>a, <1>4, <2>0 DEF LoopTop, HandlesTypeOK, Steps, Settled, SchedulerStill
  <2>2. Aligned'
    BY <1>0, <1>a, <1>4, <2>0 DEF LoopTop, HandlesTypeOK, Aligned, Admitted, SchedulerStill
  <2>3. RunnersApart'
    BY <1>0, <1>a, <1>4, <2>0 DEF LoopTop, RunnersApart, SchedulerStill
  <2>4. Submitted'
    BY <1>0, <1>a, <1>4, <2>0 DEF LoopTop, HandlesTypeOK, Submitted, Working, Admitted,
       SchedulerStill
  <2>5. BegunOnce' /\ RefusedGone'
    BY <1>0, <1>a, <1>4, <2>0 DEF LoopTop, HandlesTypeOK, BegunOnce, RefusedGone,
       SchedulerStill
  <2>6. PendingTracked'
    BY <1>0, <1>a, <1>4, <2>0 DEF LoopTop, HandlesTypeOK, PendingTracked, SchedulerStill
  <2>7. SettledLeaves'
    BY <1>0, <1>a, <1>4, <2>0 DEF LoopTop, HandlesTypeOK, SettledLeaves, Settled,
       SchedulerStill
  <2>8. CancelsOwn'
    BY <1>0, <1>a, <1>4, <2>0 DEF LoopTop, HandlesTypeOK, CancelsOwn, SchedulerStill
  <2>9. ActiveOrTaken'
    BY <1>0, <1>a, <1>4, <2>0 DEF LoopTop, HandlesTypeOK, ActiveOrTaken, Admitted, Taken,
       SchedulerStill
  <2> QED
    BY <2>1, <2>2, <2>3, <2>4, <2>5, <2>6, <2>7, <2>8, <2>9 DEF HandlesInv
<1>5. ASSUME NEW w \in Workers, PopRefused(w) PROVE HandlesInv'
  <2>0. SchedulerStill
    BY <1>5, StillStep DEF PopRefused
  <2>1. HandlesTypeOK'
    BY <1>0, <1>a, <1>5, <2>0 DEF PopRefused, HandlesTypeOK, Steps, Settled, SchedulerStill
  <2>2. Aligned'
    BY <1>0, <1>a, <1>5, <2>0 DEF PopRefused, HandlesTypeOK, Aligned, Admitted,
       SchedulerStill
  <2>3. RunnersApart'
    BY <1>0, <1>a, <1>5, <2>0 DEF PopRefused, RunnersApart, SchedulerStill
  <2>4. Submitted'
    BY <1>0, <1>a, <1>5, <2>0 DEF PopRefused, HandlesTypeOK, Submitted, Working, Admitted,
       SchedulerStill
  <2>5. BegunOnce' /\ RefusedGone'
    BY <1>0, <1>a, <1>5, <2>0 DEF PopRefused, HandlesTypeOK, BegunOnce, RefusedGone,
       SchedulerStill
  <2>6. PendingTracked'
    BY <1>0, <1>a, <1>5, <2>0 DEF PopRefused, HandlesTypeOK, PendingTracked, SchedulerStill
  <2>7. SettledLeaves'
    BY <1>0, <1>a, <1>5, <2>0 DEF PopRefused, HandlesTypeOK, SettledLeaves, Settled,
       SchedulerStill
  <2>8. CancelsOwn'
    BY <1>0, <1>a, <1>5, <2>0 DEF PopRefused, HandlesTypeOK, CancelsOwn, SchedulerStill
  <2>9. ActiveOrTaken'
    BY <1>0, <1>a, <1>5, <2>0 DEF PopRefused, HandlesTypeOK, ActiveOrTaken, Admitted, Taken,
       SchedulerStill
  <2> QED
    BY <2>1, <2>2, <2>3, <2>4, <2>5, <2>6, <2>7, <2>8, <2>9 DEF HandlesInv
<1>6. ASSUME NEW w \in Workers, FailHandle(w) PROVE HandlesInv'
  <2>0. SchedulerStill
    BY <1>6, StillStep DEF FailHandle
  <2>1. HandlesTypeOK'
    BY <1>0, <1>a, <1>6, <2>0 DEF FailHandle, HandlesTypeOK, Steps, Settled, SchedulerStill
  <2>2. Aligned'
    BY <1>0, <1>a, <1>6, <2>0 DEF FailHandle, HandlesTypeOK, Aligned, Admitted,
       SchedulerStill
  <2>3. RunnersApart'
    BY <1>0, <1>a, <1>6, <2>0 DEF FailHandle, RunnersApart, SchedulerStill
  <2>4. Submitted'
    BY <1>0, <1>a, <1>6, <2>0 DEF FailHandle, HandlesTypeOK, Submitted, Working, Admitted,
       SchedulerStill
  <2>5. BegunOnce' /\ RefusedGone'
    BY <1>0, <1>a, <1>6, <2>0 DEF FailHandle, HandlesTypeOK, BegunOnce, RefusedGone,
       SchedulerStill
  <2>6. PendingTracked'
    BY <1>0, <1>a, <1>6, <2>0 DEF FailHandle, HandlesTypeOK, PendingTracked, SchedulerStill
  <2>7. SettledLeaves'
    BY <1>0, <1>a, <1>6, <2>0 DEF FailHandle, HandlesTypeOK, SettledLeaves, Settled,
       SchedulerStill, RefusedGone
  <2>8. CancelsOwn'
    BY <1>0, <1>a, <1>6, <2>0 DEF FailHandle, HandlesTypeOK, CancelsOwn, SchedulerStill
  <2>9. ActiveOrTaken'
    BY <1>0, <1>a, <1>6, <2>0 DEF FailHandle, HandlesTypeOK, ActiveOrTaken, Admitted, Taken,
       SchedulerStill
  <2> QED
    BY <2>1, <2>2, <2>3, <2>4, <2>5, <2>6, <2>7, <2>8, <2>9 DEF HandlesInv
<1>7. ASSUME NEW w \in Workers, FetchCommand(w) PROVE HandlesInv'
  <2>0. SchedulerStill
    BY <1>7, StillStep DEF FetchCommand
  <2>1. HandlesTypeOK'
    BY <1>0, <1>a, <1>7, <2>0 DEF FetchCommand, HandlesTypeOK, Steps, Settled,
       SchedulerStill
  <2>2. Aligned'
    BY <1>0, <1>a, <1>7, <2>0 DEF FetchCommand, HandlesTypeOK, Aligned, Admitted,
       SchedulerStill
  <2>3. RunnersApart'
    BY <1>0, <1>a, <1>7, <2>0 DEF FetchCommand, RunnersApart, SchedulerStill
  <2>4. Submitted'
    BY <1>0, <1>a, <1>7, <2>0 DEF FetchCommand, HandlesTypeOK, Submitted, Working, Admitted,
       SchedulerStill
  <2>5. BegunOnce' /\ RefusedGone'
    BY <1>0, <1>a, <1>7, <2>0 DEF FetchCommand, HandlesTypeOK, BegunOnce, RefusedGone,
       SchedulerStill
  <2>6. PendingTracked'
    BY <1>0, <1>a, <1>7, <2>0 DEF FetchCommand, HandlesTypeOK, PendingTracked,
       SchedulerStill
  <2>7. SettledLeaves'
    BY <1>0, <1>a, <1>7, <2>0 DEF FetchCommand, HandlesTypeOK, SettledLeaves, Settled,
       SchedulerStill
  <2>8. CancelsOwn'
    BY <1>0, <1>a, <1>7, <2>0 DEF FetchCommand, HandlesTypeOK, CancelsOwn, SchedulerStill
  <2>9. ActiveOrTaken'
    BY <1>0, <1>a, <1>7, <2>0 DEF FetchCommand, HandlesTypeOK, ActiveOrTaken, Admitted,
       Taken, SchedulerStill
  <2> QED
    BY <2>1, <2>2, <2>3, <2>4, <2>5, <2>6, <2>7, <2>8, <2>9 DEF HandlesInv
<1>8. ASSUME NEW w \in Workers, Begin(w) PROVE HandlesInv'
  <2>0. SchedulerStill
    BY <1>8, StillStep DEF Begin
  <2>1. HandlesTypeOK'
    BY <1>0, <1>a, <1>8, <2>0 DEF Begin, HandlesTypeOK, Steps, Settled, SchedulerStill
  <2>2. Aligned'
    BY <1>0, <1>a, <1>8, <2>0 DEF Begin, HandlesTypeOK, Aligned, Admitted, SchedulerStill
  <2>3. RunnersApart'
    BY <1>0, <1>a, <1>8, <2>0 DEF Begin, RunnersApart, SchedulerStill
  <2>4. Submitted'
    BY <1>0, <1>a, <1>8, <2>0 DEF Begin, HandlesTypeOK, Submitted, Working, Admitted,
       SchedulerStill
  <2>5. BegunOnce' /\ RefusedGone'
    BY <1>0, <1>a, <1>8, <2>0 DEF Begin, HandlesTypeOK, BegunOnce, RefusedGone,
       SchedulerStill, Submitted, Working, Admitted
  <2>6. PendingTracked'
    BY <1>0, <1>a, <1>8, <2>0 DEF Begin, HandlesTypeOK, PendingTracked, SchedulerStill
  <2>7. SettledLeaves'
    BY <1>0, <1>a, <1>8, <2>0 DEF Begin, HandlesTypeOK, SettledLeaves, Settled,
       SchedulerStill
  <2>8. CancelsOwn'
    BY <1>0, <1>a, <1>8, <2>0 DEF Begin, HandlesTypeOK, CancelsOwn, SchedulerStill
  <2>9. ActiveOrTaken'
    BY <1>0, <1>a, <1>8, <2>0 DEF Begin, HandlesTypeOK, ActiveOrTaken, Admitted, Taken,
       SchedulerStill
  <2> QED
    BY <2>1, <2>2, <2>3, <2>4, <2>5, <2>6, <2>7, <2>8, <2>9 DEF HandlesInv
<1>9. ASSUME NEW w \in Workers, FinishHandle(w) PROVE HandlesInv'
  <2>0. SchedulerStill
    BY <1>9, StillStep DEF FinishHandle
  <2>1. HandlesTypeOK'
    <3>1. state' \in [Tokens -> {"none", "pending", "running"} \cup Settled]
      BY <1>0, <1>9 DEF FinishHandle, HandlesTypeOK, Settled
    <3> QED
      BY <1>0, <1>9, <3>1 DEF FinishHandle, HandlesTypeOK, Steps
  <2>2. Aligned'
    BY <1>0, <1>a, <1>9, <2>0 DEF FinishHandle, HandlesTypeOK, Aligned, Admitted,
       SchedulerStill
  <2>3. RunnersApart'
    BY <1>0, <1>a, <1>9, <2>0 DEF FinishHandle, RunnersApart, SchedulerStill
  <2>4. Submitted'
    BY <1>0, <1>a, <1>9, <2>0 DEF FinishHandle, HandlesTypeOK, Submitted, Working, Admitted,
       SchedulerStill
  <2>5. BegunOnce' /\ RefusedGone'
    BY <1>0, <1>a, <1>9, <2>0 DEF FinishHandle, HandlesTypeOK, BegunOnce, RefusedGone,
       SchedulerStill
  <2>6. PendingTracked'
    BY <1>0, <1>a, <1>9, <2>0 DEF FinishHandle, HandlesTypeOK, PendingTracked,
       SchedulerStill
  <2>7. SettledLeaves'
    BY <1>0, <1>a, <1>9, <2>0 DEF FinishHandle, HandlesTypeOK, SettledLeaves, Settled,
       SchedulerStill
  <2>8. CancelsOwn'
    BY <1>0, <1>a, <1>9, <2>0 DEF FinishHandle, HandlesTypeOK, CancelsOwn, SchedulerStill
  <2>9. ActiveOrTaken'
    BY <1>0, <1>a, <1>9, <2>0 DEF FinishHandle, HandlesTypeOK, ActiveOrTaken, Admitted,
       Taken, SchedulerStill
  <2> QED
    BY <2>1, <2>2, <2>3, <2>4, <2>5, <2>6, <2>7, <2>8, <2>9 DEF HandlesInv
<1>10. ASSUME NEW w \in Workers, PopCommand(w) PROVE HandlesInv'
  <2>0. SchedulerStill
    BY <1>10, StillStep DEF PopCommand
  <2>1. HandlesTypeOK'
    BY <1>0, <1>a, <1>10, <2>0 DEF PopCommand, HandlesTypeOK, Steps, Settled, SchedulerStill
  <2>2. Aligned'
    BY <1>0, <1>a, <1>10, <2>0 DEF PopCommand, HandlesTypeOK, Aligned, Admitted,
       SchedulerStill
  <2>3. RunnersApart'
    BY <1>0, <1>a, <1>10, <2>0 DEF PopCommand, RunnersApart, SchedulerStill
  <2>4. Submitted'
    BY <1>0, <1>a, <1>10, <2>0 DEF PopCommand, HandlesTypeOK, Submitted, Working, Admitted,
       SchedulerStill
  <2>5. BegunOnce' /\ RefusedGone'
    BY <1>0, <1>a, <1>10, <2>0 DEF PopCommand, HandlesTypeOK, BegunOnce, RefusedGone,
       SchedulerStill
  <2>6. PendingTracked'
    BY <1>0, <1>a, <1>10, <2>0 DEF PopCommand, HandlesTypeOK, PendingTracked,
       SchedulerStill, Aligned, BegunOnce
  <2>7. SettledLeaves'
    BY <1>0, <1>a, <1>10, <2>0 DEF PopCommand, HandlesTypeOK, SettledLeaves, Settled,
       SchedulerStill, Aligned
  <2>8. CancelsOwn'
    BY <1>0, <1>a, <1>10, <2>0 DEF PopCommand, HandlesTypeOK, CancelsOwn, SchedulerStill
  <2>9. ActiveOrTaken'
    BY <1>0, <1>a, <1>10, <2>0 DEF PopCommand, HandlesTypeOK, ActiveOrTaken, Admitted,
       Taken, SchedulerStill
  <2> QED
    BY <2>1, <2>2, <2>3, <2>4, <2>5, <2>6, <2>7, <2>8, <2>9 DEF HandlesInv
<1>11. ASSUME NEW x \in Cancellers, NEW t \in Tokens, CancelBegin(x, t) PROVE HandlesInv'
  <2>0. SchedulerStill
    BY <1>11, StillStep DEF CancelBegin
  <2>1. HandlesTypeOK'
    BY <1>0, <1>a, <1>11, <2>0 DEF CancelBegin, HandlesTypeOK, Steps, Settled,
       SchedulerStill
  <2>2. Aligned'
    BY <1>0, <1>a, <1>11, <2>0 DEF CancelBegin, HandlesTypeOK, Aligned, Admitted,
       SchedulerStill
  <2>3. RunnersApart'
    BY <1>0, <1>a, <1>11, <2>0 DEF CancelBegin, RunnersApart, SchedulerStill
  <2>4. Submitted'
    BY <1>0, <1>a, <1>11, <2>0 DEF CancelBegin, HandlesTypeOK, Submitted, Working, Admitted,
       SchedulerStill
  <2>5. BegunOnce' /\ RefusedGone'
    BY <1>0, <1>a, <1>11, <2>0 DEF CancelBegin, HandlesTypeOK, BegunOnce, RefusedGone,
       SchedulerStill
  <2>6. PendingTracked'
    BY <1>0, <1>a, <1>11, <2>0 DEF CancelBegin, HandlesTypeOK, PendingTracked,
       SchedulerStill
  <2>7. SettledLeaves'
    BY <1>0, <1>a, <1>11, <2>0 DEF CancelBegin, HandlesTypeOK, SettledLeaves, Settled,
       SchedulerStill
  <2>8. CancelsOwn'
    BY <1>0, <1>a, <1>11, <2>0 DEF CancelBegin, HandlesTypeOK, CancelsOwn, SchedulerStill
  <2>9. ActiveOrTaken'
    BY <1>0, <1>a, <1>11, <2>0 DEF CancelBegin, HandlesTypeOK, ActiveOrTaken, Admitted,
       Taken, SchedulerStill
  <2> QED
    BY <2>1, <2>2, <2>3, <2>4, <2>5, <2>6, <2>7, <2>8, <2>9 DEF HandlesInv
<1>12. ASSUME NEW x \in Cancellers, CancelSettle(x) PROVE HandlesInv'
  <2>0. SchedulerStill
    BY <1>12, StillStep DEF CancelSettle
  <2>1. HandlesTypeOK'
    <3>1. state' \in [Tokens -> {"none", "pending", "running"} \cup Settled]
      BY <1>0, <1>12 DEF CancelSettle, HandlesTypeOK, Settled
    <3>2. ctoken[x] \in Tokens /\ todo' \subseteq Tokens
      BY <1>0, <1>12 DEF CancelSettle, HandlesTypeOK, CancelsOwn
    <3> QED
      BY <1>0, <1>12, <3>1, <3>2 DEF CancelSettle, HandlesTypeOK
  <2>2. Aligned'
    BY <1>0, <1>a, <1>12, <2>0 DEF CancelSettle, HandlesTypeOK, Aligned, Admitted,
       SchedulerStill
  <2>3. RunnersApart'
    BY <1>0, <1>a, <1>12, <2>0 DEF CancelSettle, RunnersApart, SchedulerStill
  <2>4. Submitted'
    BY <1>0, <1>a, <1>12, <2>0 DEF CancelSettle, HandlesTypeOK, Submitted, Working,
       Admitted, SchedulerStill
  <2>5. BegunOnce' /\ RefusedGone'
    BY <1>0, <1>a, <1>12, <2>0 DEF CancelSettle, HandlesTypeOK, BegunOnce, RefusedGone,
       SchedulerStill
  <2>6. PendingTracked'
    BY <1>0, <1>a, <1>12, <2>0 DEF CancelSettle, HandlesTypeOK, PendingTracked,
       SchedulerStill
  <2>7. SettledLeaves'
    BY <1>0, <1>a, <1>12, <2>0 DEF CancelSettle, HandlesTypeOK, SettledLeaves, Settled,
       SchedulerStill
  <2>8. CancelsOwn'
    BY <1>0, <1>a, <1>12, <2>0 DEF CancelSettle, HandlesTypeOK, CancelsOwn, SchedulerStill
  <2>9. ActiveOrTaken'
    BY <1>0, <1>a, <1>12, <2>0 DEF CancelSettle, HandlesTypeOK, ActiveOrTaken, Admitted,
       Taken, SchedulerStill
  <2> QED
    BY <2>1, <2>2, <2>3, <2>4, <2>5, <2>6, <2>7, <2>8, <2>9 DEF HandlesInv
<1>13. ASSUME NEW x \in Cancellers, CancelRefused(x) PROVE HandlesInv'
  <2>0. SchedulerStill
    BY <1>13, StillStep DEF CancelRefused
  <2>1. HandlesTypeOK'
    BY <1>0, <1>a, <1>13, <2>0 DEF CancelRefused, HandlesTypeOK, Steps, Settled,
       SchedulerStill
  <2>2. Aligned'
    BY <1>0, <1>a, <1>13, <2>0 DEF CancelRefused, HandlesTypeOK, Aligned, Admitted,
       SchedulerStill
  <2>3. RunnersApart'
    BY <1>0, <1>a, <1>13, <2>0 DEF CancelRefused, RunnersApart, SchedulerStill
  <2>4. Submitted'
    BY <1>0, <1>a, <1>13, <2>0 DEF CancelRefused, HandlesTypeOK, Submitted, Working,
       Admitted, SchedulerStill
  <2>5. BegunOnce' /\ RefusedGone'
    BY <1>0, <1>a, <1>13, <2>0 DEF CancelRefused, HandlesTypeOK, BegunOnce, RefusedGone,
       SchedulerStill
  <2>6. PendingTracked'
    BY <1>0, <1>a, <1>13, <2>0 DEF CancelRefused, HandlesTypeOK, PendingTracked,
       SchedulerStill
  <2>7. SettledLeaves'
    BY <1>0, <1>a, <1>13, <2>0 DEF CancelRefused, HandlesTypeOK, SettledLeaves, Settled,
       SchedulerStill
  <2>8. CancelsOwn'
    BY <1>0, <1>a, <1>13, <2>0 DEF CancelRefused, HandlesTypeOK, CancelsOwn, SchedulerStill
  <2>9. ActiveOrTaken'
    BY <1>0, <1>a, <1>13, <2>0 DEF CancelRefused, HandlesTypeOK, ActiveOrTaken, Admitted,
       Taken, SchedulerStill
  <2> QED
    BY <2>1, <2>2, <2>3, <2>4, <2>5, <2>6, <2>7, <2>8, <2>9 DEF HandlesInv
<1>14. ASSUME NEW w \in Workers, Operate(w) PROVE HandlesInv'
  <2>0. SchedulerStill /\ UNCHANGED subVars
    BY <1>14, StillStep DEF Operate
  <2>1. HandlesTypeOK'
    BY <1>0, <1>a, <1>14, <2>0 DEF HandlesTypeOK, Steps, Settled, SchedulerStill, subVars
  <2>2. Aligned'
    BY <1>0, <1>a, <1>14, <2>0 DEF HandlesTypeOK, Aligned, Admitted, SchedulerStill, subVars
  <2>3. RunnersApart'
    BY <1>0, <1>a, <1>14, <2>0 DEF RunnersApart, SchedulerStill, subVars
  <2>4. Submitted'
    BY <1>0, <1>a, <1>14, <2>0 DEF HandlesTypeOK, Submitted, Working, Admitted,
       SchedulerStill, subVars
  <2>5. BegunOnce' /\ RefusedGone'
    BY <1>0, <1>a, <1>14, <2>0 DEF HandlesTypeOK, BegunOnce, RefusedGone, SchedulerStill,
       subVars
  <2>6. PendingTracked'
    BY <1>0, <1>a, <1>14, <2>0 DEF HandlesTypeOK, PendingTracked, SchedulerStill, subVars
  <2>7. SettledLeaves'
    BY <1>0, <1>a, <1>14, <2>0 DEF HandlesTypeOK, SettledLeaves, Settled, SchedulerStill,
       subVars
  <2>8. CancelsOwn'
    BY <1>0, <1>a, <1>14, <2>0 DEF HandlesTypeOK, CancelsOwn, SchedulerStill, subVars
  <2>9. ActiveOrTaken'
    BY <1>0, <1>a, <1>14, <2>0 DEF HandlesTypeOK, ActiveOrTaken, Admitted, Taken,
       SchedulerStill, subVars
  <2> QED
    BY <2>1, <2>2, <2>3, <2>4, <2>5, <2>6, <2>7, <2>8, <2>9 DEF HandlesInv
<1>15. CASE ControlNext /\ UNCHANGED subVars
  <2>0. SchedulerStill /\ UNCHANGED subVars
    BY <1>15, StillStep
  <2>1. HandlesTypeOK'
    BY <1>0, <1>a, <1>15, <2>0 DEF HandlesTypeOK, Steps, Settled, SchedulerStill, subVars
  <2>2. Aligned'
    BY <1>0, <1>a, <1>15, <2>0 DEF HandlesTypeOK, Aligned, Admitted, SchedulerStill, subVars
  <2>3. RunnersApart'
    BY <1>0, <1>a, <1>15, <2>0 DEF RunnersApart, SchedulerStill, subVars
  <2>4. Submitted'
    BY <1>0, <1>a, <1>15, <2>0 DEF HandlesTypeOK, Submitted, Working, Admitted,
       SchedulerStill, subVars
  <2>5. BegunOnce' /\ RefusedGone'
    BY <1>0, <1>a, <1>15, <2>0 DEF HandlesTypeOK, BegunOnce, RefusedGone, SchedulerStill,
       subVars
  <2>6. PendingTracked'
    BY <1>0, <1>a, <1>15, <2>0 DEF HandlesTypeOK, PendingTracked, SchedulerStill, subVars
  <2>7. SettledLeaves'
    BY <1>0, <1>a, <1>15, <2>0 DEF HandlesTypeOK, SettledLeaves, Settled, SchedulerStill,
       subVars
  <2>8. CancelsOwn'
    BY <1>0, <1>a, <1>15, <2>0 DEF HandlesTypeOK, CancelsOwn, SchedulerStill, subVars
  <2>9. ActiveOrTaken'
    BY <1>0, <1>a, <1>15, <2>0 DEF HandlesTypeOK, ActiveOrTaken, Admitted, Taken,
       SchedulerStill, subVars
  <2> QED
    BY <2>1, <2>2, <2>3, <2>4, <2>5, <2>6, <2>7, <2>8, <2>9 DEF HandlesInv
<1>16. CASE UNCHANGED allVars
  <2>0. SchedulerStill /\ UNCHANGED subVars
    BY <1>16, StillStep DEF allVars
  <2>1. HandlesTypeOK'
    BY <1>0, <1>a, <1>16, <2>0 DEF HandlesTypeOK, Steps, Settled, SchedulerStill, subVars
  <2>2. Aligned'
    BY <1>0, <1>a, <1>16, <2>0 DEF HandlesTypeOK, Aligned, Admitted, SchedulerStill, subVars
  <2>3. RunnersApart'
    BY <1>0, <1>a, <1>16, <2>0 DEF RunnersApart, SchedulerStill, subVars
  <2>4. Submitted'
    BY <1>0, <1>a, <1>16, <2>0 DEF HandlesTypeOK, Submitted, Working, Admitted,
       SchedulerStill, subVars
  <2>5. BegunOnce' /\ RefusedGone'
    BY <1>0, <1>a, <1>16, <2>0 DEF HandlesTypeOK, BegunOnce, RefusedGone, SchedulerStill,
       subVars
  <2>6. PendingTracked'
    BY <1>0, <1>a, <1>16, <2>0 DEF HandlesTypeOK, PendingTracked, SchedulerStill, subVars
  <2>7. SettledLeaves'
    BY <1>0, <1>a, <1>16, <2>0 DEF HandlesTypeOK, SettledLeaves, Settled, SchedulerStill,
       subVars
  <2>8. CancelsOwn'
    BY <1>0, <1>a, <1>16, <2>0 DEF HandlesTypeOK, CancelsOwn, SchedulerStill, subVars
  <2>9. ActiveOrTaken'
    BY <1>0, <1>a, <1>16, <2>0 DEF HandlesTypeOK, ActiveOrTaken, Admitted, Taken,
       SchedulerStill, subVars
  <2> QED
    BY <2>1, <2>2, <2>3, <2>4, <2>5, <2>6, <2>7, <2>8, <2>9 DEF HandlesInv
<1>17. ASSUME NEW t \in Tokens, SubmitCommand(t) PROVE HandlesInv'
  <2>0. /\ arrival[t] = NoEntry /\ arrival'[t] # NoEntry
        /\ \A u \in Tokens \ {t} : arrival'[u] = arrival[u]
        /\ queued' = queued \cup {t} /\ UNCHANGED <<pc, token, queuedActive>>
    BY <1>17 DEF SubmitCommand, Submit, Enqueue, Fresh, schedVars, SubInv, SchedulerInv,
       PartsInv,
       QueueInv, QueueTypeOK, NoEntry
  <2>1. HandlesTypeOK'
    BY <1>0, <1>a, <1>17, <2>0 DEF SubmitCommand, NotifyOne, HandlesTypeOK, Steps, Settled
  <2>2. Aligned'
    BY <1>0, <1>a, <1>17, <2>0 DEF SubmitCommand, NotifyOne, HandlesTypeOK, Aligned,
       Admitted
  <2>3. RunnersApart'
    <3>1. \A w \in Workers : pc[w] = "running" => token[w] # t
      BY <1>0, <2>0 DEF Aligned, Submitted, Working
    <3> QED
      BY <1>0, <2>0, <3>1 DEF RunnersApart
  <2>4. Submitted'
    BY <1>0, <1>a, <1>17, <2>0 DEF SubmitCommand, NotifyOne, HandlesTypeOK, Submitted,
       Working, Admitted
  <2>5. BegunOnce' /\ RefusedGone'
    BY <1>0, <1>a, <1>17, <2>0 DEF SubmitCommand, NotifyOne, HandlesTypeOK, BegunOnce,
       RefusedGone, Submitted, Working, Admitted
  <2>6. PendingTracked'
    BY <1>0, <1>a, <1>17, <2>0 DEF SubmitCommand, NotifyOne, HandlesTypeOK, PendingTracked,
       Aligned
  <2>7. SettledLeaves'
    BY <1>0, <1>a, <1>17, <2>0 DEF SubmitCommand, NotifyOne, HandlesTypeOK, SettledLeaves,
       Settled, Aligned
  <2>8. CancelsOwn'
    BY <1>0, <1>a, <1>17, <2>0 DEF SubmitCommand, NotifyOne, HandlesTypeOK, CancelsOwn
  <2>9. ActiveOrTaken'
    BY <1>0, <1>a, <1>17, <2>0 DEF SubmitCommand, NotifyOne, HandlesTypeOK, ActiveOrTaken,
       Admitted, Taken
  <2> QED
    BY <2>1, <2>2, <2>3, <2>4, <2>5, <2>6, <2>7, <2>8, <2>9 DEF HandlesInv
<1>18. ASSUME NEW w \in Workers, SchedulerStep(w) PROVE HandlesInv'
  <2>0. CallMoves(w)
    BY <1>18, <1>0, <1>a, CallStep DEF SchedulerStep
  <2>1. HandlesTypeOK'
    BY <1>0, <1>a, <1>18, <2>0 DEF SchedulerStep, subVars, HandlesTypeOK, Steps, Settled,
       CallMoves
  <2>2. Aligned'
    <3>1. w \notin waiting /\ step[w] \notin Admitted /\ step'[w] \notin Admitted
      BY <1>0, <1>18 DEF SchedulerStep, subVars, Aligned, Admitted, HandlesTypeOK
    <3>2. /\ UNCHANGED waiting
          /\ \A v \in Workers \ {w} : step'[v] = step[v] /\ work'[v] = work[v]
      BY <1>0, <1>18 DEF SchedulerStep, subVars, HandlesTypeOK
    <3>3. pc'[w] \in Claiming => step'[w] = "call"
      BY <1>18 DEF SchedulerStep, subVars
    <3> QED
      BY <1>0, <2>0, <3>1, <3>2, <3>3, CallKeepsAligned
  <2>3. RunnersApart'
    BY <1>0, <2>0, CallKeepsRunners
  <2>4. Submitted'
    BY <1>0, <1>a, <1>18, <2>0 DEF SchedulerStep, subVars, HandlesTypeOK, Submitted,
       Working, Admitted, CallMoves
  <2>5. BegunOnce' /\ RefusedGone'
    BY <1>0, <1>a, <1>18, <2>0 DEF SchedulerStep, subVars, HandlesTypeOK, BegunOnce,
       RefusedGone, CallMoves
  <2>6. PendingTracked'
    BY <1>0, <1>a, <1>18, <2>0 DEF SchedulerStep, subVars, HandlesTypeOK, PendingTracked,
       CallMoves
  <2>7. SettledLeaves'
    BY <1>0, <1>a, <1>18, <2>0 DEF SchedulerStep, subVars, HandlesTypeOK, SettledLeaves,
       Settled, CallMoves
  <2>8. CancelsOwn'
    BY <1>0, <1>a, <1>18, <2>0 DEF SchedulerStep, subVars, HandlesTypeOK, CancelsOwn,
       CallMoves
  <2>9. ActiveOrTaken'
    BY <1>0, <1>a, <1>18, <2>0 DEF SchedulerStep, subVars, HandlesTypeOK, ActiveOrTaken,
       Admitted, Taken, CallMoves
  <2> QED
    BY <2>1, <2>2, <2>3, <2>4, <2>5, <2>6, <2>7, <2>8, <2>9 DEF HandlesInv
<1>19. ASSUME NEW w \in Workers, TrySteal(w) PROVE HandlesInv'
  <2>0. CallMoves(w)
    BY <1>19, <1>0, <1>a, CallStep DEF TrySteal, HandlesTypeOK
  <2>1. HandlesTypeOK'
    BY <1>0, <1>a, <1>19, <2>0 DEF TrySteal, HandlesTypeOK, Steps, Settled, CallMoves
  <2>2. Aligned'
    <3>1. w \notin waiting /\ step[w] \notin Admitted /\ step'[w] \notin Admitted
      BY <1>0, <1>19 DEF TrySteal, Aligned, Admitted, HandlesTypeOK
    <3>2. /\ UNCHANGED waiting
          /\ \A v \in Workers \ {w} : step'[v] = step[v] /\ work'[v] = work[v]
      BY <1>0, <1>19 DEF TrySteal, HandlesTypeOK
    <3>3. pc'[w] \in Claiming => step'[w] = "call"
      BY <1>19 DEF TrySteal
    <3> QED
      BY <1>0, <2>0, <3>1, <3>2, <3>3, CallKeepsAligned
  <2>3. RunnersApart'
    BY <1>0, <2>0, CallKeepsRunners
  <2>4. Submitted'
    BY <1>0, <1>a, <1>19, <2>0 DEF TrySteal, HandlesTypeOK, Submitted, Working, Admitted,
       CallMoves
  <2>5. BegunOnce' /\ RefusedGone'
    BY <1>0, <1>a, <1>19, <2>0 DEF TrySteal, HandlesTypeOK, BegunOnce, RefusedGone,
       CallMoves
  <2>6. PendingTracked'
    BY <1>0, <1>a, <1>19, <2>0 DEF TrySteal, HandlesTypeOK, PendingTracked, CallMoves
  <2>7. SettledLeaves'
    BY <1>0, <1>a, <1>19, <2>0 DEF TrySteal, HandlesTypeOK, SettledLeaves, Settled,
       CallMoves
  <2>8. CancelsOwn'
    BY <1>0, <1>a, <1>19, <2>0 DEF TrySteal, HandlesTypeOK, CancelsOwn, CallMoves
  <2>9. ActiveOrTaken'
    BY <1>0, <1>a, <1>19, <2>0 DEF TrySteal, HandlesTypeOK, ActiveOrTaken, Admitted, Taken,
       CallMoves
  <2> QED
    BY <2>1, <2>2, <2>3, <2>4, <2>5, <2>6, <2>7, <2>8, <2>9 DEF HandlesInv
<1>20. ASSUME NEW w \in Workers, SchedulerIdle(w), DequeueNothing(w) \/ RollBackAdmitted(w) PROVE HandlesInv'
  <2>0. CallMoves(w)
    BY <1>20, <1>0, <1>a, CallStep DEF SchedulerIdle
  <2>1. HandlesTypeOK'
    BY <1>0, <1>a, <1>20, <2>0 DEF SchedulerIdle, HandlesTypeOK, Steps, Settled, CallMoves
  <2>2. Aligned'
    <3>1. w \notin waiting /\ step[w] \notin Admitted /\ step'[w] \notin Admitted
      BY <1>0, <1>20 DEF SchedulerIdle, Aligned, Admitted, HandlesTypeOK
    <3>2. /\ UNCHANGED waiting
          /\ \A v \in Workers \ {w} : step'[v] = step[v] /\ work'[v] = work[v]
      BY <1>0, <1>20 DEF SchedulerIdle, HandlesTypeOK
    <3>3. pc'[w] \in Claiming => step'[w] = "call"
      BY <1>a, <1>20 DEF DequeueNothing, RollBackAdmitted, schedVars, Go, Claiming
    <3> QED
      BY <1>0, <2>0, <3>1, <3>2, <3>3, CallKeepsAligned
  <2>3. RunnersApart'
    BY <1>0, <2>0, CallKeepsRunners
  <2>4. Submitted'
    BY <1>0, <1>a, <1>20, <2>0 DEF SchedulerIdle, HandlesTypeOK, Submitted, Working,
       Admitted, CallMoves
  <2>5. BegunOnce' /\ RefusedGone'
    BY <1>0, <1>a, <1>20, <2>0 DEF SchedulerIdle, HandlesTypeOK, BegunOnce, RefusedGone,
       CallMoves
  <2>6. PendingTracked'
    BY <1>0, <1>a, <1>20, <2>0 DEF SchedulerIdle, HandlesTypeOK, PendingTracked, CallMoves
  <2>7. SettledLeaves'
    BY <1>0, <1>a, <1>20, <2>0 DEF SchedulerIdle, HandlesTypeOK, SettledLeaves, Settled,
       CallMoves
  <2>8. CancelsOwn'
    BY <1>0, <1>a, <1>20, <2>0 DEF SchedulerIdle, HandlesTypeOK, CancelsOwn, CallMoves
  <2>9. ActiveOrTaken'
    BY <1>0, <1>a, <1>20, <2>0 DEF SchedulerIdle, HandlesTypeOK, ActiveOrTaken, Admitted,
       Taken, CallMoves
  <2> QED
    BY <2>1, <2>2, <2>3, <2>4, <2>5, <2>6, <2>7, <2>8, <2>9 DEF HandlesInv
<1>21. ASSUME NEW w \in Workers, SchedulerIdle(w), pc[w] = "idle", UNCHANGED vars PROVE HandlesInv'
  <2>0. SchedulerStill /\ pc[w] \notin Claiming
    BY <1>21, StillStep, <1>a DEF SchedulerIdle, DequeueNothing, RollBackAdmitted, Claiming
  <2>1. HandlesTypeOK'
    BY <1>0, <1>a, <1>21, <2>0 DEF SchedulerIdle, HandlesTypeOK, Steps, Settled,
       SchedulerStill
  <2>2. Aligned'
    BY <1>0, <1>a, <1>21, <2>0 DEF SchedulerIdle, HandlesTypeOK, Aligned, Admitted,
       SchedulerStill
  <2>3. RunnersApart'
    BY <1>0, <1>a, <1>21, <2>0 DEF SchedulerIdle, RunnersApart, SchedulerStill
  <2>4. Submitted'
    BY <1>0, <1>a, <1>21, <2>0 DEF SchedulerIdle, HandlesTypeOK, Submitted, Working,
       Admitted, SchedulerStill
  <2>5. BegunOnce' /\ RefusedGone'
    BY <1>0, <1>a, <1>21, <2>0 DEF SchedulerIdle, HandlesTypeOK, BegunOnce, RefusedGone,
       SchedulerStill
  <2>6. PendingTracked'
    BY <1>0, <1>a, <1>21, <2>0 DEF SchedulerIdle, HandlesTypeOK, PendingTracked,
       SchedulerStill
  <2>7. SettledLeaves'
    BY <1>0, <1>a, <1>21, <2>0 DEF SchedulerIdle, HandlesTypeOK, SettledLeaves, Settled,
       SchedulerStill
  <2>8. CancelsOwn'
    BY <1>0, <1>a, <1>21, <2>0 DEF SchedulerIdle, HandlesTypeOK, CancelsOwn, SchedulerStill
  <2>9. ActiveOrTaken'
    BY <1>0, <1>a, <1>21, <2>0 DEF SchedulerIdle, HandlesTypeOK, ActiveOrTaken, Admitted,
       Taken, SchedulerStill
  <2> QED
    BY <2>1, <2>2, <2>3, <2>4, <2>5, <2>6, <2>7, <2>8, <2>9 DEF HandlesInv
<1>22. ASSUME NEW w \in Workers, SchedulerRefuses(w) PROVE HandlesInv'
  <2>0. CallMoves(w) /\ pc'[w] = "idle" /\ pc[w] \in Claiming
    BY <1>22, <1>0, <1>a, CallStep DEF SchedulerRefuses, DropFailed, StealRefused, EndSteal,
       Go, Claiming
  <2>1. HandlesTypeOK'
    BY <1>0, <1>a, <1>22, <2>0 DEF SchedulerRefuses, HandlesTypeOK, Steps, Settled,
       CallMoves
  <2>2. Aligned'
    <3>1. w \notin waiting /\ step[w] \notin Admitted /\ step'[w] \notin Admitted
      BY <1>0, <1>22 DEF SchedulerRefuses, Aligned, Admitted, HandlesTypeOK
    <3>2. /\ UNCHANGED waiting
          /\ \A v \in Workers \ {w} : step'[v] = step[v] /\ work'[v] = work[v]
      BY <1>0, <1>22 DEF SchedulerRefuses, HandlesTypeOK
    <3>3. pc'[w] \in Claiming => step'[w] = "call"
      BY <2>0 DEF Claiming
    <3> QED
      BY <1>0, <2>0, <3>1, <3>2, <3>3, CallKeepsAligned
  <2>3. RunnersApart'
    BY <1>0, <2>0, CallKeepsRunners
  <2>4. Submitted'
    <3>1. token[w] \in Tokens /\ arrival[token[w]] # NoEntry
      BY <1>0, <1>a, <2>0 DEF OwnInv, ClaimersApart
    <3> QED
      BY <1>0, <1>a, <1>22, <2>0, <3>1 DEF SchedulerRefuses, CallMoves, HandlesTypeOK,
         Submitted, Working, Admitted
  <2>5. BegunOnce' /\ RefusedGone'
    BY <1>0, <1>a, <1>22, <2>0 DEF SchedulerRefuses, HandlesTypeOK, BegunOnce, RefusedGone,
       CallMoves
  <2>6. PendingTracked'
    BY <1>0, <1>a, <1>22, <2>0 DEF SchedulerRefuses, HandlesTypeOK, PendingTracked,
       CallMoves
  <2>7. SettledLeaves'
    BY <1>0, <1>a, <1>22, <2>0 DEF SchedulerRefuses, HandlesTypeOK, SettledLeaves, Settled,
       CallMoves
  <2>8. CancelsOwn'
    BY <1>0, <1>a, <1>22, <2>0 DEF SchedulerRefuses, HandlesTypeOK, CancelsOwn, CallMoves
  <2>9. ActiveOrTaken'
    BY <1>0, <1>a, <1>22, <2>0 DEF SchedulerRefuses, HandlesTypeOK, ActiveOrTaken, Admitted,
       Taken, CallMoves
  <2> QED
    BY <2>1, <2>2, <2>3, <2>4, <2>5, <2>6, <2>7, <2>8, <2>9 DEF HandlesInv
<1>23. ASSUME NEW w \in Workers, SchedulerAdmits(w) PROVE HandlesInv'
  <2>0. /\ pc[w] \in Claiming /\ pc' = [pc EXCEPT ![w] = "running"]
        /\ queuedActive' = queuedActive \cup {token[w]}
        /\ UNCHANGED <<token, queued, arrival>>
        /\ token[w] \in Tokens /\ token[w] \notin queued /\ arrival[token[w]] # NoEntry
        /\ \A v \in Workers : pc[v] \in Claiming /\ token[v] = token[w] => v = w
    <3>1. /\ pc[w] \in Claiming /\ pc' = [pc EXCEPT ![w] = "running"]
          /\ queuedActive' = queuedActive \cup {token[w]}
          /\ UNCHANGED <<token, queued, arrival>>
      BY <1>23 DEF SchedulerAdmits, ActivateAdmitted, StealActivate, FinishClaim, EndSteal,
         Go, Claiming
    <3> QED
      BY <1>0, <1>a, <3>1 DEF OwnInv, ClaimersApart, ClaimersDistinct
  <2>1. HandlesTypeOK'
    BY <1>0, <1>a, <1>23, <2>0 DEF SchedulerAdmits, HandlesTypeOK, Steps, Settled
  <2>2. Aligned'
    BY <1>0, <1>a, <1>23, <2>0 DEF SchedulerAdmits, HandlesTypeOK, Aligned, Admitted,
       Claiming
  <2>3. RunnersApart'
    BY <1>0, <1>a, <1>23, <2>0 DEF SchedulerAdmits, RunnersApart
  <2>4. Submitted'
    BY <1>0, <1>a, <1>23, <2>0 DEF SchedulerAdmits, HandlesTypeOK, Submitted, Working,
       Admitted
  <2>5. BegunOnce' /\ RefusedGone'
    BY <1>0, <1>a, <1>23, <2>0 DEF SchedulerAdmits, HandlesTypeOK, BegunOnce, RefusedGone
  <2>6. PendingTracked'
    BY <1>0, <1>a, <1>23, <2>0 DEF SchedulerAdmits, HandlesTypeOK, PendingTracked
  <2>7. SettledLeaves'
    BY <1>0, <1>a, <1>23, <2>0 DEF SchedulerAdmits, HandlesTypeOK, SettledLeaves, Settled
  <2>8. CancelsOwn'
    BY <1>0, <1>a, <1>23, <2>0 DEF SchedulerAdmits, HandlesTypeOK, CancelsOwn
  <2>9. ActiveOrTaken'
    BY <1>0, <1>a, <1>23, <2>0 DEF SchedulerAdmits, HandlesTypeOK, ActiveOrTaken, Admitted,
       Taken
  <2> QED
    BY <2>1, <2>2, <2>3, <2>4, <2>5, <2>6, <2>7, <2>8, <2>9 DEF HandlesInv
<1>24. ASSUME NEW w \in Workers, CompleteCommand(w) PROVE HandlesInv'
  <2>0. /\ pc[w] = "running" /\ pc'[w] \in {"applying", "idle"}
        /\ \A v \in Procs \ {w} : pc'[v] = pc[v]
        /\ \A v \in (Workers \cup Cancellers) \ {w} : token'[v] = token[v]
        /\ \A t \in queuedActive : t # token[w] => t \in queuedActive'
        /\ UNCHANGED <<queued, arrival>>
    BY <1>a, <1>24 DEF CompleteCommand, CompleteQueued, Go, queueVars
  <2>1. HandlesTypeOK'
    BY <1>0, <1>a, <1>24, <2>0 DEF CompleteCommand, HandlesTypeOK, Steps, Settled
  <2>2. Aligned'
    BY <1>0, <1>a, <1>24, <2>0 DEF CompleteCommand, HandlesTypeOK, Aligned, Admitted,
       Claiming
  <2>3. RunnersApart'
    BY <1>0, <1>a, <1>24, <2>0 DEF CompleteCommand, RunnersApart, Claiming
  <2>4. Submitted'
    BY <1>0, <1>a, <1>24, <2>0 DEF CompleteCommand, HandlesTypeOK, Submitted, Working,
       Admitted
  <2>5. BegunOnce' /\ RefusedGone'
    BY <1>0, <1>a, <1>24, <2>0 DEF CompleteCommand, HandlesTypeOK, BegunOnce, RefusedGone
  <2>6. PendingTracked'
    BY <1>0, <1>a, <1>24, <2>0 DEF CompleteCommand, HandlesTypeOK, PendingTracked
  <2>7. SettledLeaves'
    BY <1>0, <1>a, <1>24, <2>0 DEF CompleteCommand, HandlesTypeOK, SettledLeaves, Settled
  <2>8. CancelsOwn'
    BY <1>0, <1>a, <1>24, <2>0 DEF CompleteCommand, HandlesTypeOK, CancelsOwn
  <2>9. ActiveOrTaken'
    <3>1. \A v \in Workers : step'[v] \in Admitted => v # w /\ step[v] \in Admitted
      BY <1>0, <1>24 DEF CompleteCommand, HandlesTypeOK, Admitted
    <3>2. \A v \in Workers \ {w} : step[v] \in Admitted => work[v] # token[w]
      BY <1>0, <2>0 DEF Aligned, RunnersApart
    <3> QED
      BY <1>0, <1>24, <2>0, <3>1, <3>2 DEF CompleteCommand, ActiveOrTaken, Taken
  <2> QED
    BY <2>1, <2>2, <2>3, <2>4, <2>5, <2>6, <2>7, <2>8, <2>9 DEF HandlesInv
<1>25. ASSUME NEW x \in Cancellers, CancelQueueCall(x) PROVE HandlesInv'
  <2>0. /\ \A v \in Workers : pc'[v] = pc[v] /\ token'[v] = token[v]
        /\ \A y \in Cancellers \ {x} : token'[y] = token[y]
        /\ cstep'[x] = "active" => token'[x] = ctoken[x]
        /\ queued' \subseteq queued /\ UNCHANGED <<arrival, queuedActive>>
        /\ cstep'[x] \in {"settle", "active"} /\ \A y \in Cancellers \ {x} : cstep'[y] = cstep[y]
    BY <1>0, <1>a, <1>25 DEF CancelQueueCall, CancelWaiting, CancelMisses, QueueCancel,
       CancelQueued,
       CancelClaimed, schedVars, Go, queueVars, HandlesTypeOK
  <2>1. HandlesTypeOK'
    BY <1>0, <1>a, <1>25, <2>0 DEF CancelQueueCall, HandlesTypeOK, Steps, Settled
  <2>2. Aligned'
    BY <1>0, <1>a, <1>25, <2>0 DEF CancelQueueCall, HandlesTypeOK, Aligned, Admitted
  <2>3. RunnersApart'
    BY <1>0, <1>a, <1>25, <2>0 DEF CancelQueueCall, RunnersApart
  <2>4. Submitted'
    BY <1>0, <1>a, <1>25, <2>0 DEF CancelQueueCall, HandlesTypeOK, Submitted, Working,
       Admitted
  <2>5. BegunOnce' /\ RefusedGone'
    BY <1>0, <1>a, <1>25, <2>0 DEF CancelQueueCall, HandlesTypeOK, BegunOnce, RefusedGone
  <2>6. PendingTracked'
    BY <1>0, <1>a, <1>25, <2>0 DEF CancelQueueCall, HandlesTypeOK, PendingTracked
  <2>7. SettledLeaves'
    BY <1>0, <1>a, <1>25, <2>0 DEF CancelQueueCall, HandlesTypeOK, SettledLeaves, Settled
  <2>8. CancelsOwn'
    BY <1>0, <1>a, <1>25, <2>0 DEF CancelQueueCall, HandlesTypeOK, CancelsOwn
  <2>9. ActiveOrTaken'
    BY <1>0, <1>a, <1>25, <2>0 DEF CancelQueueCall, HandlesTypeOK, ActiveOrTaken, Admitted,
       Taken
  <2> QED
    BY <2>1, <2>2, <2>3, <2>4, <2>5, <2>6, <2>7, <2>8, <2>9 DEF HandlesInv
<1>26. ASSUME NEW x \in Cancellers, CancelActiveCall(x) PROVE HandlesInv'
  <2>0. /\ \A v \in Workers : pc'[v] = pc[v] /\ token'[v] = token[v]
        /\ \A y \in Cancellers \ {x} : token'[y] = token[y]
        /\ \A t \in queuedActive : t \in queuedActive' \/ (t = ctoken[x] /\ cstep'[x] = "settle")
        /\ cstep'[x] \in {"settle", "refused"} /\ \A y \in Cancellers \ {x} : cstep'[y] = cstep[y]
        /\ UNCHANGED <<queued, arrival>>
    BY <1>0, <1>a, <1>26 DEF CancelActiveCall, CancelActive, Go, queueVars, HandlesTypeOK,
       CancelsOwn
  <2>1. HandlesTypeOK'
    BY <1>0, <1>a, <1>26, <2>0 DEF CancelActiveCall, HandlesTypeOK, Steps, Settled
  <2>2. Aligned'
    BY <1>0, <1>a, <1>26, <2>0 DEF CancelActiveCall, HandlesTypeOK, Aligned, Admitted
  <2>3. RunnersApart'
    BY <1>0, <1>a, <1>26, <2>0 DEF CancelActiveCall, RunnersApart
  <2>4. Submitted'
    BY <1>0, <1>a, <1>26, <2>0 DEF CancelActiveCall, HandlesTypeOK, Submitted, Working,
       Admitted
  <2>5. BegunOnce' /\ RefusedGone'
    BY <1>0, <1>a, <1>26, <2>0 DEF CancelActiveCall, HandlesTypeOK, BegunOnce, RefusedGone
  <2>6. PendingTracked'
    BY <1>0, <1>a, <1>26, <2>0 DEF CancelActiveCall, HandlesTypeOK, PendingTracked
  <2>7. SettledLeaves'
    BY <1>0, <1>a, <1>26, <2>0 DEF CancelActiveCall, HandlesTypeOK, SettledLeaves, Settled
  <2>8. CancelsOwn'
    BY <1>0, <1>a, <1>26, <2>0 DEF CancelActiveCall, HandlesTypeOK, CancelsOwn
  <2>9. ActiveOrTaken'
    BY <1>0, <1>a, <1>26, <2>0 DEF CancelActiveCall, HandlesTypeOK, ActiveOrTaken, Admitted,
       Taken
  <2> QED
    BY <2>1, <2>2, <2>3, <2>4, <2>5, <2>6, <2>7, <2>8, <2>9 DEF HandlesInv
<1>27. ASSUME NEW x \in Cancellers, Unlock(x) PROVE HandlesInv'
  <2>0. /\ \A v \in Workers : pc'[v] = pc[v]
        /\ UNCHANGED <<token, queued, arrival, queuedActive>> /\ UNCHANGED subVars
    BY <1>a, <1>27 DEF Unlock, ApplyAndUnlock, Go, queueVars
  <2>1. HandlesTypeOK'
    BY <1>0, <1>a, <1>27, <2>0 DEF subVars, HandlesTypeOK, Steps, Settled
  <2>2. Aligned'
    BY <1>0, <1>a, <1>27, <2>0 DEF subVars, HandlesTypeOK, Aligned, Admitted
  <2>3. RunnersApart'
    BY <1>0, <1>a, <1>27, <2>0 DEF subVars, RunnersApart
  <2>4. Submitted'
    BY <1>0, <1>a, <1>27, <2>0 DEF subVars, HandlesTypeOK, Submitted, Working, Admitted
  <2>5. BegunOnce' /\ RefusedGone'
    BY <1>0, <1>a, <1>27, <2>0 DEF subVars, HandlesTypeOK, BegunOnce, RefusedGone
  <2>6. PendingTracked'
    BY <1>0, <1>a, <1>27, <2>0 DEF subVars, HandlesTypeOK, PendingTracked
  <2>7. SettledLeaves'
    BY <1>0, <1>a, <1>27, <2>0 DEF subVars, HandlesTypeOK, SettledLeaves, Settled
  <2>8. CancelsOwn'
    BY <1>0, <1>a, <1>27, <2>0 DEF subVars, HandlesTypeOK, CancelsOwn
  <2>9. ActiveOrTaken'
    BY <1>0, <1>a, <1>27, <2>0 DEF subVars, HandlesTypeOK, ActiveOrTaken, Admitted, Taken
  <2> QED
    BY <2>1, <2>2, <2>3, <2>4, <2>5, <2>6, <2>7, <2>8, <2>9 DEF HandlesInv
<1>28. ASSUME NEW w \in Workers, Unlock(w) PROVE HandlesInv'
  <2>0. CallMoves(w)
    BY <1>28, <1>0, <1>a, CallStep DEF Unlock
  <2>1. HandlesTypeOK'
    BY <1>0, <1>a, <1>28, <2>0 DEF Unlock, subVars, HandlesTypeOK, Steps, Settled, CallMoves
  <2>2. Aligned'
    <3>1. pc[w] \notin Claiming /\ pc'[w] \notin Claiming
      BY <1>a, <1>28 DEF Unlock, ApplyAndUnlock, Go, Claiming
    <3> QED
      BY <1>0, <1>a, <2>0, <3>1, <1>28 DEF Unlock, subVars, CallMoves, Aligned
  <2>3. RunnersApart'
    BY <1>0, <2>0, CallKeepsRunners
  <2>4. Submitted'
    BY <1>0, <1>a, <1>28, <2>0 DEF Unlock, subVars, HandlesTypeOK, Submitted, Working,
       Admitted, CallMoves
  <2>5. BegunOnce' /\ RefusedGone'
    BY <1>0, <1>a, <1>28, <2>0 DEF Unlock, subVars, HandlesTypeOK, BegunOnce, RefusedGone,
       CallMoves
  <2>6. PendingTracked'
    BY <1>0, <1>a, <1>28, <2>0 DEF Unlock, subVars, HandlesTypeOK, PendingTracked, CallMoves
  <2>7. SettledLeaves'
    BY <1>0, <1>a, <1>28, <2>0 DEF Unlock, subVars, HandlesTypeOK, SettledLeaves, Settled,
       CallMoves
  <2>8. CancelsOwn'
    BY <1>0, <1>a, <1>28, <2>0 DEF Unlock, subVars, HandlesTypeOK, CancelsOwn, CallMoves
  <2>9. ActiveOrTaken'
    BY <1>0, <1>a, <1>28, <2>0 DEF Unlock, subVars, HandlesTypeOK, ActiveOrTaken, Admitted,
       Taken, CallMoves
  <2> QED
    BY <2>1, <2>2, <2>3, <2>4, <2>5, <2>6, <2>7, <2>8, <2>9 DEF HandlesInv
<1>b. \A w \in Workers : SchedulerIdle(w) =>
         DequeueNothing(w) \/ RollBackAdmitted(w) \/ (pc[w] = "idle" /\ UNCHANGED vars)
  BY DEF SchedulerIdle
<1> QED
  BY <1>1, <1>2, <1>3, <1>4, <1>5, <1>6, <1>7, <1>8, <1>9, <1>10, <1>11, <1>12, <1>13,
     <1>14, <1>15, <1>16, <1>17, <1>18, <1>19, <1>20, <1>21, <1>22, <1>23, <1>24,
     <1>25, <1>26, <1>27, <1>28, <1>0, <1>b
     DEF SubNext, WorkerStep, CancelInside, allVars

-----------------------------------------------------------------------------
LEMMA SubInvNext == SubInv /\ [SubNext]_allVars => SubInv'
BY SchedulerInvNext, HandlesInvNext DEF SubInv

(* The submission scheduler keeps the scheduler's invariants and its own.  *)
THEOREM SubmissionSafety == SubSpec => []SubInv
<1>1. SubInit => SubInv
  BY SchedulerInvInit, HandlesInvInit DEF SubInv
<1> QED
  BY <1>1, SubInvNext, PTL DEF SubSpec

(* GlobalSubmissionScheduler uses the scheduler only as its specification  *)
(* allows, so every theorem about BasicScheduler holds of it underneath.   *)
THEOREM SubmissionImplementsScheduler == SubSpec => Spec
<1>1. SubInit => Init
  BY DEF SubInit
<1>2. SubInv /\ [SubNext]_allVars => [Next]_vars
  BY SubStep
<1> QED
  BY <1>1, <1>2, SubmissionSafety, PTL DEF SubSpec, Spec

(* The submission scheduler is type correct.                               *)
THEOREM SubmissionTypeCorrect == SubSpec => []SubTypeOK
<1>1. SubInv => SubTypeOK
  BY DEF SubInv, SchedulerInv, PartsInv, SchedType, QueueInv, LedgerInv, HandlesInv,
         TypeOK, SubTypeOK
<1> QED
  BY <1>1, SubmissionSafety, PTL

(* No handle is forgotten: an unsettled one is registered or in a worker's *)
(* hands, and a settled one that is still registered is about to leave.    *)
THEOREM SubmissionTracksHandles == SubSpec => []HandlesTracked
<1>1. SubInv => HandlesTracked
  BY DEF SubInv, HandlesInv, PendingTracked, SettledLeaves, HandlesTracked
<1> QED
  BY <1>1, SubmissionSafety, PTL

(* An operation keeps its memory and device reservation until its worker   *)
(* completes it, unless a cancel that found the handle pending took it.    *)
THEOREM SubmissionHoldsReservation == SubSpec => []OperationHoldsReservation
<1>1. SubInv => OperationHoldsReservation
  <2> SUFFICES ASSUME SubInv, NEW w \in Workers, step[w] = "operate"
               PROVE  \/ work[w] \in memHeld \cap live
                      \/ work[w] \in cancelTrue
                      \/ \E x \in Cancellers : ctoken[x] = work[w] /\ cstep[x] = "settle"
    BY DEF OperationHoldsReservation
  <2>1. work[w] \in queuedActive \/ Taken(work[w])
    BY DEF SubInv, HandlesInv, ActiveOrTaken, Admitted
  <2>2. ASSUME work[w] \in queuedActive PROVE work[w] \in memHeld \cap live
    <3>1. work[w] \in Jobs
      BY <2>2 DEF SubInv, SchedulerInv, PartsInv, SchedType, SchedTypeOK, Jobs
    <3>2. work[w] \in memHeld
      BY <2>2, <3>1 DEF SubInv, SchedulerInv, OwnInv, HeldIsOwned, IsOwned
    <3> QED
      BY <3>2 DEF SubInv, SchedulerInv, BooksInv, Paired
  <2> QED
    BY <2>1, <2>2 DEF Taken
<1> QED
  BY <1>1, SubmissionSafety, PTL

(* Only five actions touch a handle's state, each behind a test of it.     *)
LEMMA SettledStays ==
  ASSUME SubInv, [SubNext]_allVars, NEW t \in Tokens, state[t] \in Settled
  PROVE  state'[t] = state[t]
<1>0. HandlesTypeOK /\ arrival[t] # NoEntry
  BY DEF SubInv, HandlesInv, Submitted, Settled
<1> USE <1>0 DEF HandlesTypeOK, Settled
<1>1. CASE Start
  BY <1>1 DEF Start
<1>2. CASE Shutdown
  BY <1>2 DEF Shutdown
<1>3. ASSUME NEW u \in Tokens, ShutdownSkips(u) PROVE state'[t] = state[t]
  BY <1>3 DEF ShutdownSkips
<1>4. ASSUME NEW w \in Workers, LoopTop(w) PROVE state'[t] = state[t]
  BY <1>4 DEF LoopTop
<1>5. ASSUME NEW w \in Workers, PopRefused(w) PROVE state'[t] = state[t]
  BY <1>5 DEF PopRefused
<1>6. ASSUME NEW w \in Workers, FailHandle(w) PROVE state'[t] = state[t]
  BY <1>6 DEF FailHandle
<1>7. ASSUME NEW w \in Workers, FetchCommand(w) PROVE state'[t] = state[t]
  BY <1>7 DEF FetchCommand
<1>8. ASSUME NEW w \in Workers, Begin(w) PROVE state'[t] = state[t]
  BY <1>8 DEF Begin
<1>9. ASSUME NEW w \in Workers, FinishHandle(w) PROVE state'[t] = state[t]
  BY <1>9 DEF FinishHandle
<1>10. ASSUME NEW w \in Workers, PopCommand(w) PROVE state'[t] = state[t]
  BY <1>10 DEF PopCommand
<1>11. ASSUME NEW x \in Cancellers, NEW u \in Tokens, CancelBegin(x, u) PROVE state'[t] = state[t]
  BY <1>11 DEF CancelBegin
<1>12. ASSUME NEW x \in Cancellers, CancelSettle(x) PROVE state'[t] = state[t]
  BY <1>12 DEF CancelSettle
<1>13. ASSUME NEW x \in Cancellers, CancelRefused(x) PROVE state'[t] = state[t]
  BY <1>13 DEF CancelRefused
<1>14. ASSUME NEW u \in Tokens, SubmitCommand(u) PROVE state'[t] = state[t]
  BY <1>14 DEF SubmitCommand, Submit, Enqueue, Fresh
<1>15. ASSUME NEW w \in Workers, SchedulerStep(w) PROVE state'[t] = state[t]
  BY <1>15 DEF SchedulerStep, subVars
<1>16. ASSUME NEW w \in Workers, TrySteal(w) PROVE state'[t] = state[t]
  BY <1>16 DEF TrySteal
<1>17. ASSUME NEW w \in Workers, SchedulerIdle(w) PROVE state'[t] = state[t]
  BY <1>17 DEF SchedulerIdle
<1>18. ASSUME NEW w \in Workers, SchedulerAdmits(w) PROVE state'[t] = state[t]
  BY <1>18 DEF SchedulerAdmits
<1>19. ASSUME NEW w \in Workers, SchedulerRefuses(w) PROVE state'[t] = state[t]
  BY <1>19 DEF SchedulerRefuses
<1>20. ASSUME NEW w \in Workers, Operate(w) PROVE state'[t] = state[t]
  BY <1>20 DEF Operate, subVars
<1>21. ASSUME NEW w \in Workers, CompleteCommand(w) PROVE state'[t] = state[t]
  BY <1>21 DEF CompleteCommand
<1>22. ASSUME NEW x \in Cancellers, CancelQueueCall(x) PROVE state'[t] = state[t]
  BY <1>22 DEF CancelQueueCall
<1>23. ASSUME NEW x \in Cancellers, CancelActiveCall(x) PROVE state'[t] = state[t]
  BY <1>23 DEF CancelActiveCall
<1>24. ASSUME NEW x \in Procs, Unlock(x) PROVE state'[t] = state[t]
  BY <1>24 DEF Unlock, subVars
<1>25. CASE ControlNext /\ UNCHANGED subVars
  BY <1>25 DEF subVars
<1>26. CASE UNCHANGED allVars
  BY <1>26 DEF allVars, subVars
<1>p. Workers \subseteq Procs /\ Cancellers \subseteq Procs
  BY DEF Procs
<1> QED
  BY <1>1, <1>2, <1>3, <1>4, <1>5, <1>6, <1>7, <1>8, <1>9, <1>10, <1>11, <1>12, <1>13,
     <1>14, <1>15, <1>16, <1>17, <1>18, <1>19, <1>20, <1>21, <1>22, <1>23, <1>24,
     <1>25, <1>26, <1>p
     DEF SubNext, WorkerStep, CancelInside, allVars

(* A handle settles once, whichever of its worker and a cancel is late.    *)
THEOREM SubmissionSettlesOnce == SubSpec => SettlesOnce
<1>1. SubInv /\ [SubNext]_allVars
        => [\A t \in Tokens : state[t] \in Settled => state'[t] = state[t]]_allVars
  BY SettledStays
<1> QED
  BY <1>1, SubmissionSafety, PTL DEF SubSpec, SettlesOnce
=============================================================================
