------------------------------- MODULE MCEngines -------------------------------
(* What the daemon serves with, for TLC, one per behaviour: an engine of   *)
(* its own, or a backend server it supervises, which two threads may also  *)
(* recycle on purpose.  Of the engines, two handlers meet the owner        *)
(* thread's queue of one; a chat request and a diagnostics call share the  *)
(* child process, each behind the other, while it may die, break the       *)
(* protocol or be closed.                                                  *)
EXTENDS ThreadEngine, ProcessEngine, BackendSupervision

CONSTANT Idle      \* requests that do not come to the process engine

VARIABLE engine    \* what the daemon was started with

ownThread == <<queued, ticket, cmdCancelled, dropping, sentinel, drained, owner, current, ran>>
ownProcess == <<diag, diagDone, pending, code, ready, startup, stdinClosed, closerFails,
                reader, answering, readerFails, childVars, toChild, toParent>>
threadAll == <<requestVars, lifeVars, ownThread>>
processAll == <<requestVars, lifeVars, ownProcess>>
mcVars == <<engine, requestVars, lifeVars, ownThread, ownProcess, backendVars>>

Thread(A) == engine = "thread" /\ A /\ UNCHANGED <<engine, ownProcess, backendVars>>
Process(A) ==
    /\ engine = "process"
    /\ A
    /\ UNCHANGED <<engine, ownThread, backendVars>>
    /\ \A r \in Idle : client'[r] = "idle"
Backend(A) ==
    /\ engine = "backend"
    /\ A
    /\ UNCHANGED <<engine, requestVars, lifeVars, ownThread, ownProcess>>

MCInit ==
    /\ ThreadInit
    /\ ProcessInit
    /\ BackendInit
    /\ engine \in {"thread", "process", "backend"}

MCNext == Thread(ThreadNext) \/ Process(ProcessNext) \/ Backend(BackendNext)

MCFairness ==
    /\ \A r \in Requests : WF_threadAll(engine = "thread" /\ ClientStep(r))
    /\ WF_threadAll(engine = "thread" /\ ThreadCloserStep)
    /\ WF_threadAll(engine = "thread" /\ OwnerStep)
    /\ \A r \in Requests \ Idle : WF_processAll(engine = "process" /\ HandlerStep(r))
    /\ WF_processAll(engine = "process" /\ ProcessCloserStep)
    /\ WF_processAll(engine = "process" /\ ReaderStep)
    /\ WF_processAll(engine = "process" /\ IntakeStep)
    /\ WF_processAll(engine = "process" /\ MainStep)
    /\ WF_backendVars(engine = "backend" /\ LockedStep)
    /\ WF_backendVars(engine = "backend" /\ WatchdogTurns)
    /\ SF_backendVars(engine = "backend" /\ WatchdogRestarts)
    /\ WF_backendVars(engine = "backend" /\ KilledDies)

MCSpec == MCInit /\ [][MCNext]_mcVars /\ MCFairness
=============================================================================
