----------------------------- MODULE ThreadEngine -----------------------------
(***************************************************************************)
(* ThreadAffineInferenceEngine (managed_engine.py): one owner thread        *)
(* creates, calls and closes a native engine; handler threads put commands *)
(* in a bounded queue and wait; a cancelled handler leaves while its       *)
(* command is queued or running.                                           *)
(*                                                                         *)
(* The FIFO queue is the set of its commands with their tickets; the None  *)
(* that close() puts after draining it is the flag sentinel.  The queue's  *)
(* mutex covers one get, put or sweep; _state_lock covers a put and the    *)
(* drain of close(), which takes the queue's mutex once per command.       *)
(***************************************************************************)
EXTENDS InferenceRequest

CONSTANT MaxQueued   \* maximum_pending_requests of this engine

ASSUME ThreadAssumption == MaxQueued \in Nat \ {0}

VARIABLES
    queued,        \* commands waiting in _commands
    ticket,        \* the order in which they were put
    cmdCancelled,  \* commands whose cancelled event is set
    dropping,      \* per handler: removed by its sweep, not yet finished
    sentinel,      \* the None that ends the owner is in the queue
    drained,       \* commands close() took from the queue and must finish
    owner,         \* where the owner thread is
    current,       \* the command it took
    ran            \* commands whose native call has begun (history)

queueVars == <<queued, ticket, sentinel>>
closeVars == <<closed, closer, drained>>
ownerVars == <<owner, current, ran>>
threadVars == <<queued, ticket, cmdCancelled, dropping, sentinel, closed, closer,
                drained, owner, current, ran, constructor>>
engineVars == <<requestVars, threadVars>>

ThreadClients == {"idle", "admitted", "sweeping", "waiting", "cancelling",
                  "abandoning", "left"}

ThreadTypeOK ==
    /\ RequestTypeOK
    /\ client \in [Requests -> ThreadClients]
    /\ queued \subseteq Requests
    /\ ticket \in [Requests -> Nat]
    /\ cmdCancelled \subseteq Requests
    /\ dropping \in [Requests -> SUBSET Requests]
    /\ sentinel \in BOOLEAN
    /\ closed \in BOOLEAN
    /\ closer \in {"open", "draining", "finishing", "closed"}
    /\ drained \subseteq Requests
    /\ owner \in {"starting", "getting", "took", "running", "returned",
                  "exiting", "failed", "stopped"}
    /\ current \in Requests \cup {None}
    /\ ran \subseteq Requests
    /\ constructor \in {"waiting", "timed_out", "built", "raised"}

ThreadInit ==
    /\ RequestInit
    /\ queued = {}
    /\ ticket = [r \in Requests |-> 0]
    /\ cmdCancelled = {}
    /\ dropping = [r \in Requests |-> {}]
    /\ sentinel = FALSE
    /\ drained = {}
    /\ owner = "starting"
    /\ current = None
    /\ ran = {}

-----------------------------------------------------------------------------
(* The queue.                                                              *)
IsFirst(r) == r \in queued /\ \A q \in queued : ticket[r] <= ticket[q]
NextTicket == Cardinality({q \in Requests : ticket[q] > 0}) + 1
QueueFull == Cardinality(queued) + (IF sentinel THEN 1 ELSE 0) >= MaxQueued
StateLockFree == closer # "draining"

(* discard_cancelled, called by handler r: every queued command that was   *)
(* cancelled or has expired leaves the queue; r finishes them afterwards,  *)
(* outside the mutex.                                                      *)
Stale(marked) == {q \in queued : q \in marked \/ Cancelled(q)}
SweepCopies(r, marked) ==
    /\ dropping' = [dropping EXCEPT ![r] = Stale(marked)]
    /\ cmdCancelled' = marked \cup Stale(marked)
    /\ UNCHANGED queueVars
Sweep(r, marked) ==
    /\ queued' = queued \ Stale(marked)
    /\ dropping' = [dropping EXCEPT ![r] = Stale(marked)]
    /\ cmdCancelled' = marked \cup Stale(marked)
    /\ UNCHANGED <<ticket, sentinel>>

-----------------------------------------------------------------------------
(* Handler threads: chat_completions_with_request_context.                 *)
ThreadAdmit(r) ==
    /\ constructor = "built"
    /\ Admit(r)
    /\ UNCHANGED threadVars

ThreadInterrupt(r) == Interrupt(r) /\ UNCHANGED threadVars

RefuseCancelled(r) ==
    /\ client[r] = "admitted"
    /\ Cancelled(r)
    /\ Leave(r)
    /\ UNCHANGED threadVars

Enter(r) ==
    /\ client[r] = "admitted"
    /\ ~Cancelled(r)
    /\ Sweep(r, cmdCancelled)
    /\ client' = [client EXCEPT ![r] = "sweeping"]
    /\ UNCHANGED <<lease, context, finished, watching, closeVars, ownerVars,
                   constructor>>

FinishDropped(r, q) ==
    /\ q \in dropping[r]
    /\ Finish(q)
    /\ dropping' = [dropping EXCEPT ![r] = @ \ {q}]
    /\ UNCHANGED <<queueVars, cmdCancelled, closeVars, ownerVars, constructor>>

(* The engine is closed, or its queue is full.                             *)
PutRefused(r) ==
    /\ client[r] = "sweeping"
    /\ dropping[r] = {}
    /\ StateLockFree
    /\ closed \/ QueueFull
    /\ Leave(r)
    /\ UNCHANGED threadVars

Put(r) ==
    /\ client[r] = "sweeping"
    /\ dropping[r] = {}
    /\ StateLockFree
    /\ ~closed
    /\ ~QueueFull
    /\ queued' = queued \cup {r}
    /\ ticket' = [ticket EXCEPT ![r] = NextTicket]
    /\ client' = [client EXCEPT ![r] = "waiting"]
    /\ UNCHANGED <<lease, context, finished, watching, cmdCancelled, dropping,
                   sentinel, closeVars, ownerVars, constructor>>

(* done is set: the handler returns the result or raises the error.        *)
ThreadAnswered(r) ==
    /\ client[r] = "waiting"
    /\ finished[r] > 0
    /\ Leave(r)
    /\ UNCHANGED threadVars

(* A wait ends without done and the context is cancelled.  The command may *)
(* be finished before the handler acts on it.                              *)
ThreadObserveCancelled(r) ==
    /\ client[r] = "waiting"
    /\ finished[r] = 0
    /\ Cancelled(r)
    /\ client' = [client EXCEPT ![r] = "cancelling"]
    /\ UNCHANGED <<lease, context, finished, watching, threadVars>>

Abandon(r) ==
    /\ client[r] = "cancelling"
    /\ Sweep(r, cmdCancelled \cup {r})
    /\ client' = [client EXCEPT ![r] = "abandoning"]
    /\ UNCHANGED <<lease, context, finished, watching, closeVars, ownerVars,
                   constructor>>

RaiseCancelledLeaves(r) ==
    /\ client[r] = "abandoning"
    /\ dropping[r] = {}
    /\ Leave(r)
    /\ UNCHANGED threadVars
RaiseCancelled(r) ==
    /\ client[r] = "abandoning"
    /\ dropping[r] = {}
    /\ LeaveOnCompletion(r)
    /\ UNCHANGED threadVars

-----------------------------------------------------------------------------
(* __init__ waits for the startup event.                                   *)
StartupTimesOut ==
    /\ constructor = "waiting"
    /\ owner = "starting"
    /\ constructor' = "timed_out"
    /\ UNCHANGED <<requestVars, queueVars, cmdCancelled, dropping, closeVars, ownerVars>>

ThreadBuilt ==
    /\ constructor = "waiting"
    /\ owner # "starting"
    /\ constructor' = IF owner \in {"failed", "stopped"} THEN "raised" ELSE "built"
    /\ UNCHANGED <<requestVars, queueVars, cmdCancelled, dropping, closeVars, ownerVars>>

(* _request_close, called by close() or by the startup that timed out.     *)
ThreadCloseStart ==
    /\ closer = "open"
    /\ constructor \in {"timed_out", "built"}
    /\ closed' = TRUE
    /\ closer' = "draining"
    /\ UNCHANGED <<requestVars, queueVars, cmdCancelled, dropping, drained, ownerVars,
                   constructor>>

DrainOne(r) ==
    /\ closer = "draining"
    /\ IsFirst(r)
    /\ queued' = queued \ {r}
    /\ drained' = drained \cup {r}
    /\ UNCHANGED <<requestVars, ticket, sentinel, cmdCancelled, dropping, closed, closer,
                   ownerVars, constructor>>

DrainEnd ==
    /\ closer = "draining"
    /\ queued = {}
    /\ sentinel' = TRUE
    /\ closer' = "finishing"
    /\ UNCHANGED <<requestVars, queued, ticket, cmdCancelled, dropping, closed, drained,
                   ownerVars, constructor>>

FinishDrained(q) ==
    /\ closer = "finishing"
    /\ q \in drained
    /\ Finish(q)
    /\ drained' = drained \ {q}
    /\ UNCHANGED <<queueVars, cmdCancelled, dropping, closed, closer, ownerVars, constructor>>

(* close() reports success only after the owner exits; a join that times   *)
(* out is repeated by the caller.                                          *)
ThreadCloseEnd ==
    /\ closer = "finishing"
    /\ drained = {}
    /\ owner = "stopped"
    /\ closer' = "closed"
    /\ UNCHANGED <<requestVars, queueVars, cmdCancelled, dropping, closed, drained, ownerVars,
                   constructor>>

-----------------------------------------------------------------------------
(* The owner thread: _run.                                                 *)
ownerFrame == <<queueVars, cmdCancelled, dropping, closeVars, constructor>>

OwnerStarts ==
    /\ owner = "starting"
    /\ \E next \in {"getting", "failed"} :
          owner' = IF closed /\ next = "getting" THEN "exiting" ELSE next
    /\ UNCHANGED <<requestVars, current, ran, ownerFrame>>

OwnerTakes(r) ==
    /\ owner = "getting"
    /\ IsFirst(r)
    /\ queued' = queued \ {r}
    /\ owner' = "took"
    /\ current' = r
    /\ UNCHANGED <<requestVars, ticket, sentinel, cmdCancelled, dropping, closeVars, ran,
                   constructor>>

OwnerTakesNone ==
    /\ owner = "getting"
    /\ queued = {}
    /\ sentinel
    /\ sentinel' = FALSE
    /\ owner' = "exiting"
    /\ UNCHANGED <<requestVars, queued, ticket, cmdCancelled, dropping, closeVars, current, ran,
                   constructor>>

Rejected(r) == r \in cmdCancelled \/ closed \/ Cancelled(r)

OwnerRejects ==
    /\ owner = "took"
    /\ Rejected(current)
    /\ Finish(current)
    /\ owner' = "getting"
    /\ current' = None
    /\ UNCHANGED <<ran, ownerFrame>>

OwnerCalls ==
    /\ owner = "took"
    /\ ~Rejected(current)
    /\ owner' = "running"
    /\ ran' = ran \cup {current}
    /\ UNCHANGED <<requestVars, current, ownerFrame>>

(* The native call returns a result or raises.                             *)
OwnerReturns ==
    /\ owner = "running"
    /\ owner' = "returned"
    /\ UNCHANGED <<requestVars, current, ran, ownerFrame>>

OwnerFinishes ==
    /\ owner = "returned"
    /\ Finish(current)
    /\ owner' = "getting"
    /\ current' = None
    /\ UNCHANGED <<ran, ownerFrame>>

(* The outer finally closes the native engine.                             *)
OwnerExits ==
    /\ owner \in {"exiting", "failed"}
    /\ owner' = "stopped"
    /\ UNCHANGED <<requestVars, current, ran, ownerFrame>>

-----------------------------------------------------------------------------
ClientStep(r) ==
    \/ RefuseCancelled(r)
    \/ Enter(r)
    \/ \E q \in Requests : FinishDropped(r, q)
    \/ PutRefused(r)
    \/ Put(r)
    \/ ThreadAnswered(r)
    \/ ThreadObserveCancelled(r)
    \/ Abandon(r)
    \/ RaiseCancelled(r)

ThreadCloserStep ==
    \/ \E r \in Requests : DrainOne(r) \/ FinishDrained(r)
    \/ DrainEnd
    \/ ThreadCloseEnd

OwnerStep ==
    \/ OwnerStarts
    \/ \E r \in Requests : OwnerTakes(r)
    \/ OwnerTakesNone
    \/ OwnerRejects
    \/ OwnerCalls
    \/ OwnerReturns
    \/ OwnerFinishes
    \/ OwnerExits

ThreadNext ==
    \/ \E r \in Requests : ThreadAdmit(r) \/ ThreadInterrupt(r) \/ ClientStep(r)
    \/ StartupTimesOut
    \/ ThreadBuilt
    \/ ThreadCloseStart
    \/ ThreadCloserStep
    \/ OwnerStep

(* Every thread is scheduled; the native call returns.  Nothing obliges a  *)
(* client to ask, to disconnect or to close.                               *)
ThreadFairness ==
    /\ \A r \in Requests : WF_engineVars(ClientStep(r))
    /\ WF_engineVars(ThreadCloserStep)
    /\ WF_engineVars(OwnerStep)

ThreadSpec == ThreadInit /\ [][ThreadNext]_engineVars /\ ThreadFairness

-----------------------------------------------------------------------------
(* The native call under way is the command the owner runs.                *)
ThreadExecution ==
    [r \in Requests |-> IF owner = "running" /\ current = r THEN "running"
                        ELSE IF r \in ran THEN "over" ELSE "none"]

ThreadLease == INSTANCE InferenceLease WITH execution <- ThreadExecution

(* The engine implements the lease: a request that was cancelled, swept,   *)
(* drained or answered gives its lease back only when its native call is   *)
(* over and can no longer begin, and runs at most once.                    *)
ThreadKeepsLease == ThreadLease!LeaseSpec

(* close() leaves nothing behind: when it has returned success and the     *)
(* owner is gone, no command waits in the queue, and a handler that still  *)
(* waits is answered already or is about to be by the handler that swept   *)
(* its command.                                                            *)
ClosedIsEmpty ==
    closer = "closed" /\ owner = "stopped" =>
        /\ queued = {} /\ drained = {} /\ current = None
        /\ \A r \in Requests : client[r] = "waiting" => finished[r] > 0
                                  \/ \E c \in Requests : r \in dropping[c]
=============================================================================
