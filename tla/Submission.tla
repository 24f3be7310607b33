------------------------------ MODULE Submission ------------------------------
(***************************************************************************)
(* GlobalSubmissionScheduler and SubmissionHandle of                       *)
(* vllm_apple/submission.py on top of the scheduler: the worker threads,   *)
(* the handles they settle, cancellation by other threads, and shutdown.   *)
(*                                                                         *)
(* cond is the owner of the submission scheduler's condition; a handle's   *)
(* own lock guards single tests and assignments, which are single actions. *)
(* The scheduler calls of a worker are the actions of BasicScheduler.      *)
(***************************************************************************)
EXTENDS BasicScheduler

CONSTANT Stopper      \* the thread that calls shutdown; one of Cancellers

ASSUME SubmissionAssumption == Stopper \in Cancellers

VARIABLES
    state,       \* _state of a token's handle; "none" before submit
    commands,    \* keys of _commands
    cond,        \* owner of _condition between two actions
    step,        \* where a worker is in _run_worker
    work,        \* the token of its QueuedAdmission or QueuedAdmissionError
    untried,     \* steal targets left in this iteration of _run_worker
    waiting,     \* workers in _condition.wait()
    stopping,    \* _stopping
    todo,        \* tokens shutdown has still to cancel
    cstep,       \* where a canceller is in _cancel_pending
    ctoken,      \* the token it cancels
    cancelTrue   \* tokens for which cancel returned True (history)

subVars == <<state, commands, cond, step, work, untried, waiting, stopping, todo, cstep, ctoken, cancelTrue>>
allVars == <<vars, subVars>>

Settled == {"succeeded", "failed", "cancelled"}
Steps == {"unborn", "top", "waiting", "call", "fail", "failing", "fetch", "begin",
          "orphan", "drop", "operate", "complete", "pop", "popQuietly", "exited"}

HandlesTypeOK ==
    /\ state \in [Tokens -> {"none", "pending", "running"} \cup Settled]
    /\ commands \subseteq Tokens
    /\ cond \in Procs \cup {None}
    /\ step \in [Workers -> Steps]
    /\ work \in [Workers -> Tokens \cup {None}]
    /\ untried \in [Workers -> SUBSET Backends]
    /\ waiting \subseteq Workers
    /\ stopping \in BOOLEAN
    /\ todo \subseteq Tokens
    /\ cstep \in [Cancellers -> {"free", "queue", "active", "settle", "refused"}]
    /\ ctoken \in [Cancellers -> Tokens \cup {None}]
    /\ cancelTrue \subseteq Tokens
SubTypeOK == TypeOK /\ HandlesTypeOK

SubInit ==
    /\ Init
    /\ state = [t \in Tokens |-> "none"]
    /\ commands = {}
    /\ cond = None
    /\ step = [w \in Workers |-> "unborn"]
    /\ work = [w \in Workers |-> None]
    /\ untried = [w \in Workers |-> {}]
    /\ waiting = {}
    /\ stopping = FALSE
    /\ todo = {}
    /\ cstep = [x \in Cancellers |-> "free"]
    /\ ctoken = [x \in Cancellers |-> None]
    /\ cancelTrue = {}

CondFree == cond = None
To(w, s) == step' = [step EXCEPT ![w] = s]

-----------------------------------------------------------------------------
Start ==
    /\ CondFree /\ ~stopping
    /\ \A w \in Workers : step[w] = "unborn"
    /\ step' = [w \in Workers |-> "top"]
    /\ UNCHANGED <<vars, state, commands, cond, work, waiting, stopping, todo, untried, cstep, ctoken, cancelTrue>>

(* submit: enqueue, register the handle and notify one waiting worker.     *)
NotifyNobody == UNCHANGED <<waiting, step>>
NotifyOne ==
    IF waiting = {} THEN UNCHANGED <<waiting, step>>
    ELSE \E w \in waiting : waiting' = waiting \ {w} /\ To(w, "top")
NotifyAll ==
    /\ waiting' = {}
    /\ step' = [w \in Workers |-> IF w \in waiting THEN "top" ELSE step[w]]
SubmitCommand(t) ==
    /\ CondFree /\ ~stopping
    /\ Submit(t)
    /\ state' = [state EXCEPT ![t] = "pending"]
    /\ commands' = commands \cup {t}
    /\ NotifyOne
    /\ UNCHANGED <<cond, work, stopping, todo, untried, cstep, ctoken, cancelTrue>>

-----------------------------------------------------------------------------
(* _run_worker: wait for work, stop, or call the scheduler.                *)
LoopTop(w) ==
    /\ step[w] = "top" /\ pc[w] = "idle" /\ CondFree
    /\ IF commands # {} THEN To(w, "call") /\ UNCHANGED waiting
       ELSE IF stopping THEN To(w, "exited") /\ UNCHANGED waiting
       ELSE To(w, "waiting") /\ waiting' = waiting \cup {w}
    /\ untried' = [untried EXCEPT ![w] = Backends]
    /\ work' = [work EXCEPT ![w] = None]
    /\ UNCHANGED <<vars, state, commands, cond, stopping, todo, cstep, ctoken, cancelTrue>>

(* steal_next for each target, then admit_next(timeout=0).                 *)
SchedulerStep(w) ==
    /\ step[w] = "call"
    /\ \/ Dequeue(w) \/ AdmitDequeued(w) \/ AdmitDequeuedFails(w)
       \/ StealNothing(w) \/ StealClaim(w) \/ StealMisses(w)
       \/ StealAdmit(w) \/ StealRestore(w) \/ StealUndo(w)
    /\ UNCHANGED subVars
TrySteal(w) ==
    /\ step[w] = "call"
    /\ \E b \in untried[w] :
          StealPeek(w, b) /\ untried' = [untried EXCEPT ![w] = @ \ {b}]
    /\ UNCHANGED <<state, commands, cond, step, work, waiting, stopping, todo, cstep, ctoken, cancelTrue>>
SchedulerIdle(w) ==
    /\ step[w] = "call"
    /\ \/ DequeueNothing(w)
       \/ RollBackAdmitted(w)
       \/ pc[w] = "idle" /\ heap = {} /\ UNCHANGED vars
    /\ To(w, "top")
    /\ UNCHANGED <<state, commands, cond, work, waiting, stopping, todo, untried, cstep, ctoken, cancelTrue>>
SchedulerAdmits(w) ==
    /\ step[w] = "call"
    /\ ActivateAdmitted(w) \/ StealActivate(w)
    /\ To(w, "fetch")
    /\ work' = [work EXCEPT ![w] = token[w]]
    /\ UNCHANGED <<state, commands, cond, waiting, stopping, todo, untried, cstep, ctoken, cancelTrue>>
SchedulerRefuses(w) ==
    /\ step[w] = "call"
    /\ DropFailed(w) \/ StealRefused(w)
    /\ To(w, "fail")
    /\ work' = [work EXCEPT ![w] = token[w]]
    /\ UNCHANGED <<state, commands, cond, waiting, stopping, todo, untried, cstep, ctoken, cancelTrue>>

(* QueuedAdmissionError: pop the command, then _begin and _finish(error).  *)
PopRefused(w) ==
    /\ step[w] = "fail" /\ CondFree
    /\ commands' = commands \ {work[w]}
    /\ To(w, IF work[w] \in commands THEN "failing" ELSE "top")
    /\ UNCHANGED <<vars, state, cond, work, waiting, stopping, todo, untried, cstep, ctoken, cancelTrue>>
FailHandle(w) ==
    /\ step[w] = "failing"
    /\ state' = [state EXCEPT ![work[w]] = IF @ = "pending" THEN "failed" ELSE @]
    /\ To(w, "top")
    /\ UNCHANGED <<vars, commands, cond, work, waiting, stopping, todo, untried, cstep, ctoken, cancelTrue>>

(* An admission: look the command up, begin, operate, finish.              *)
FetchCommand(w) ==
    /\ step[w] = "fetch" /\ CondFree
    /\ To(w, IF work[w] \in commands THEN "begin" ELSE "orphan")
    /\ UNCHANGED <<vars, state, commands, cond, work, waiting, stopping, todo, untried, cstep, ctoken, cancelTrue>>
BeginUnchecked(w) ==
    /\ step[w] = "begin"
    /\ state' = [state EXCEPT ![work[w]] = "running"] /\ To(w, "operate")
    /\ UNCHANGED <<vars, commands, cond, work, waiting, stopping, todo, untried, cstep, ctoken, cancelTrue>>
Begin(w) ==
    /\ step[w] = "begin"
    /\ IF state[work[w]] = "pending"
       THEN state' = [state EXCEPT ![work[w]] = "running"] /\ To(w, "operate")
       ELSE UNCHANGED state /\ To(w, "drop")
    /\ UNCHANGED <<vars, commands, cond, work, waiting, stopping, todo, untried, cstep, ctoken, cancelTrue>>
Operate(w) ==
    /\ step[w] = "operate"
    /\ StartFallback(w, work[w]) \/ AttemptBackend(w, work[w]) \/ AttemptRefused(w, work[w])
    /\ UNCHANGED subVars
FinishHandle(w) ==
    /\ step[w] = "operate" /\ chain[work[w]] = <<>>
    /\ \E outcome \in {"succeeded", "failed"} :
          state' = [state EXCEPT ![work[w]] = IF @ = "running" THEN outcome ELSE @]
    /\ To(w, "complete")
    /\ UNCHANGED <<vars, commands, cond, work, waiting, stopping, todo, untried, cstep, ctoken, cancelTrue>>
(* complete_queued on each of the three paths that call it.                *)
CompleteCommand(w) ==
    /\ step[w] \in {"complete", "drop", "orphan"}
    /\ CompleteQueued(w)
    /\ To(w, CASE step[w] = "complete" -> "pop"
               [] step[w] = "drop" -> "popQuietly"
               [] step[w] = "orphan" -> "top")
    /\ UNCHANGED <<state, commands, cond, work, waiting, stopping, todo, untried, cstep, ctoken, cancelTrue>>
PopCommandNever(w) ==
    /\ step[w] \in {"pop", "popQuietly"} /\ pc[w] = "idle" /\ CondFree
    /\ To(w, "top")
    /\ UNCHANGED <<vars, commands, waiting, state, cond, work, stopping, todo, untried, cstep, ctoken, cancelTrue>>
PopCommand(w) ==
    /\ step[w] \in {"pop", "popQuietly"} /\ pc[w] = "idle" /\ CondFree
    /\ commands' = commands \ {work[w]}
    /\ LET woken == IF step[w] = "pop" THEN waiting ELSE {} IN
          /\ waiting' = waiting \ woken
          /\ step' = [v \in Workers |-> IF v = w \/ v \in woken THEN "top" ELSE step[v]]
    /\ UNCHANGED <<vars, state, cond, work, stopping, todo, untried, cstep, ctoken, cancelTrue>>

-----------------------------------------------------------------------------
(* _cancel_pending holds the condition to its end.                         *)
CancelBegin(x, t) ==
    /\ cstep[x] = "free" /\ CondFree
    /\ t \in commands /\ state[t] = "pending"
    /\ x = Stopper => t \in todo
    /\ cond' = x
    /\ ctoken' = [ctoken EXCEPT ![x] = t]
    /\ cstep' = [cstep EXCEPT ![x] = "queue"]
    /\ UNCHANGED <<vars, state, commands, step, work, waiting, stopping, todo, untried, cancelTrue>>
(* scheduler.cancel: the queue, or the active reservation.                 *)
CancelQueueCall(x) ==
    /\ cstep[x] = "queue"
    /\ \/ CancelWaiting(x, ctoken[x]) /\ cstep' = [cstep EXCEPT ![x] = "settle"]
       \/ CancelMisses(x, ctoken[x]) /\ cstep' = [cstep EXCEPT ![x] = "active"]
    /\ UNCHANGED <<state, commands, cond, step, work, waiting, stopping, todo, untried, ctoken, cancelTrue>>
CancelActiveCall(x) ==
    /\ cstep[x] = "active"
    /\ CancelActive(x)
    /\ cstep' = [cstep EXCEPT ![x] = IF token[x] \in queuedActive THEN "settle" ELSE "refused"]
    /\ UNCHANGED <<state, commands, cond, step, work, waiting, stopping, todo, untried, ctoken, cancelTrue>>
CancelSettle(x) ==
    /\ cstep[x] = "settle" /\ pc[x] = "idle"
    /\ commands' = commands \ {ctoken[x]}
    /\ state' = [state EXCEPT ![ctoken[x]] = IF @ = "pending" THEN "cancelled" ELSE @]
    /\ cancelTrue' = cancelTrue \cup {ctoken[x]}
    /\ cond' = None
    /\ cstep' = [cstep EXCEPT ![x] = "free"]
    /\ todo' = IF x = Stopper THEN todo \ {ctoken[x]} ELSE todo
    /\ ctoken' = [ctoken EXCEPT ![x] = None]
    /\ UNCHANGED <<vars, step, work, waiting, stopping, untried>>
CancelRefused(x) ==
    /\ cstep[x] = "refused"
    /\ cond' = None
    /\ cstep' = [cstep EXCEPT ![x] = "free"]
    /\ todo' = IF x = Stopper THEN todo \ {ctoken[x]} ELSE todo
    /\ ctoken' = [ctoken EXCEPT ![x] = None]
    /\ UNCHANGED <<vars, state, commands, step, work, waiting, stopping, untried, cancelTrue>>

(* shutdown: stop, wake everyone, then cancel what was registered.         *)
ShutdownSilently ==
    /\ ~stopping /\ CondFree
    /\ stopping' = TRUE
    /\ todo' = commands
    /\ UNCHANGED <<vars, state, commands, cond, step, work, waiting, untried, cstep, ctoken, cancelTrue>>
Shutdown ==
    /\ ~stopping /\ CondFree
    /\ stopping' = TRUE
    /\ todo' = commands
    /\ NotifyAll
    /\ UNCHANGED <<vars, state, commands, cond, work, untried, cstep, ctoken, cancelTrue>>
ShutdownSkips(t) ==
    /\ cstep[Stopper] = "free" /\ CondFree
    /\ t \in todo
    /\ t \notin commands \/ state[t] # "pending"
    /\ todo' = todo \ {t}
    /\ UNCHANGED <<vars, state, commands, cond, step, work, waiting, stopping, untried, cstep, ctoken, cancelTrue>>

-----------------------------------------------------------------------------
Unlock(x) == ApplyAndUnlock(x) /\ UNCHANGED subVars

WorkerStep(w) ==
    \/ LoopTop(w) \/ TrySteal(w) \/ SchedulerStep(w) \/ SchedulerIdle(w)
    \/ SchedulerAdmits(w) \/ SchedulerRefuses(w)
    \/ PopRefused(w) \/ FailHandle(w)
    \/ FetchCommand(w) \/ Begin(w) \/ Operate(w) \/ FinishHandle(w)
    \/ CompleteCommand(w) \/ PopCommand(w) \/ Unlock(w)
CancelInside(x) ==
    \/ CancelQueueCall(x) \/ CancelActiveCall(x)
    \/ CancelSettle(x) \/ CancelRefused(x) \/ Unlock(x)
ShutdownStep ==
    \/ \E t \in Tokens : CancelBegin(Stopper, t) \/ ShutdownSkips(t)
    \/ CancelInside(Stopper)

SubNext ==
    \/ Start \/ Shutdown
    \/ \E t \in Tokens : SubmitCommand(t)
    \/ \E w \in Workers : WorkerStep(w)
    \/ \E x \in Cancellers, t \in Tokens : CancelBegin(x, t)
    \/ \E x \in Cancellers : CancelInside(x)
    \/ \E t \in Tokens : ShutdownSkips(t)
    \/ ControlNext /\ UNCHANGED subVars

(* Threads that have started keep running, and so does a thread inside     *)
(* cancel or shutdown.  Nobody has to submit, cancel, start or stop.       *)
(* Operations end, however many fallback attempts they make.               *)
SubSpec ==
    /\ SubInit /\ [][SubNext]_allVars
    /\ \A w \in Workers : WF_allVars(WorkerStep(w)) /\ SF_allVars(FinishHandle(w))
    /\ \A x \in Cancellers : WF_allVars(CancelInside(x))
    /\ WF_allVars(ShutdownStep)

-----------------------------------------------------------------------------
(* A handle settles once: a late cancel never overwrites a result, nor a   *)
(* late result a cancellation.                                             *)
SettlesOnce ==
    [][\A t \in Tokens : state[t] \in Settled => state'[t] = state[t]]_allVars

(* No handle is forgotten: an unsettled one is registered, held by a       *)
(* worker, or being cancelled; and a settled one that is still registered  *)
(* has a worker about to remove it.                                        *)
HandlesTracked ==
    /\ \A t \in Tokens :
          state[t] = "pending" =>
             t \in commands \/ \E w \in Workers : work[w] = t /\ step[w] \in {"failing", "begin"}
    /\ \A t \in commands :
          state[t] \in Settled =>
             \E w \in Workers : work[w] = t /\ step[w] \in {"begin", "drop", "popQuietly", "complete", "pop"}

(* A running operation holds its reservation to the end, unless a cancel   *)
(* that found the handle still pending has taken it away.                  *)
OperationHoldsReservation ==
    \A w \in Workers :
       step[w] = "operate" =>
          \/ work[w] \in memHeld \cap live
          \/ work[w] \in cancelTrue
          \/ \E x \in Cancellers : ctoken[x] = work[w] /\ cstep[x] = "settle"

(* SubmissionHandle.cancel returning True means the command was cancelled. *)
CancelHonoured == \A t \in cancelTrue : state[t] = "cancelled"

(* Every submitted command settles once the workers run.                   *)
EveryCommandSettles ==
    \A t \in Tokens :
       (state[t] = "pending" /\ \A w \in Workers : step[w] # "unborn") ~> (state[t] \in Settled)

(* shutdown terminates: every started worker leaves its loop.              *)
ShutdownEnds ==
    (stopping /\ \A w \in Workers : step[w] # "unborn")
       ~> (\A w \in Workers : step[w] = "exited")
=============================================================================
