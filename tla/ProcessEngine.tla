----------------------------- MODULE ProcessEngine -----------------------------
(***************************************************************************)
(* MainThreadSubprocessInferenceEngine (process_inference_engine.py) and   *)
(* its worker (main_thread_process_worker.py): handlers of the parent      *)
(* register a request in a bounded table and write it to the child's       *)
(* stdin; the child's reader thread queues it for the child's main thread, *)
(* which runs the model and answers on stdout; the parent's reader thread  *)
(* finishes what is answered.                                              *)
(*                                                                         *)
(* The child may die at any time, or break the protocol; a handler may     *)
(* disconnect or time out at any time; close() may come at any time.       *)
(* Pipes are reliable and ordered; what a dead child has not read is lost, *)
(* what it has written can still be read.                                  *)
(***************************************************************************)
EXTENDS InferenceRequest, Sequences

CONSTANTS
    MaxPending,  \* maximum_pending_requests of this engine
    Diags,       \* calls of diagnostics()
    Oversized    \* requests whose encoding exceeds MAX_PROCESS_MESSAGE_BYTES

Ids == Requests \cup Diags

ASSUME ProcessAssumption ==
    /\ MaxPending \in Nat \ {0}
    /\ Requests \cap Diags = {}
    /\ None \notin Diags
    /\ Oversized \subseteq Requests

VARIABLES
    diag,          \* where the caller of a diagnostics() is
    diagDone,      \* diagnostics whose pending entry is finished
    pending,       \* _pending: the ids waiting for a terminal response
    code,          \* what finish() left for the handler
    ready,         \* _ready
    startup,       \* the startup event: "unset", "ready" or "error"
    stdinClosed,   \* close() closed the parent's end of stdin
    closerFails,   \* entries close() took in _fail_pending
    reader,        \* where the parent's reader thread is
    answering,     \* the entry it popped for a response
    readerFails,   \* entries it took in _fail_pending
    toChild,       \* stdin of the child
    toParent,      \* stdout of the child
    alive,         \* the child process exists
    intake,        \* where the child's reader thread is
    cancelId,      \* the id of the cancel it handles
    cqueue,        \* ids in the child's command queue
    cticket,       \* their order
    csentinel,     \* the None in it
    cancellations, \* ids with a cancellation event
    cevents,       \* ids whose event is set
    main,          \* where the child's main thread is
    serving,       \* the id it took
    executed       \* requests whose native call has begun (history)

parentVars == <<diag, diagDone, pending, code, ready, startup, constructor, closed,
                stdinClosed, closer, closerFails, reader, answering, readerFails>>
childVars == <<alive, intake, cancelId, cqueue, cticket, csentinel, cancellations,
               cevents, main, serving, executed>>
processVars == <<parentVars, childVars, toChild, toParent>>
procVars == <<requestVars, processVars>>

Commands == {"request", "expired_request", "diagnostics", "cancel", "shutdown"}
Answers == {"result", "cancelled", "failed"}
Responses == Answers \cup {"ready", "garbage"}
ProcessClients == {"idle", "admitted", "entered", "registered", "rejecting", "waiting",
                   "cancelling", "withdrawing", "left"}
NoneOr(S) == S \cup {None}

ProcessTypeOK ==
    /\ RequestTypeOK
    /\ client \in [Requests -> ProcessClients]
    /\ diag \in [Diags -> {"idle", "entered", "registered", "waiting", "cancelling", "left"}]
    /\ diagDone \subseteq Diags
    /\ pending \subseteq Ids
    /\ code \in [Requests -> Answers \cup {"none"}]
    /\ ready \in BOOLEAN
    /\ startup \in {"unset", "ready", "error"}
    /\ constructor \in {"waiting", "built", "raised"}
    /\ closed \in BOOLEAN
    /\ stdinClosed \in BOOLEAN
    /\ closer \in {"open", "shutdown", "waiting", "reaped", "failing", "closed"}
    /\ closerFails \subseteq Ids
    /\ reader \in {"reading", "answering", "reaping", "reaped", "failing", "done"}
    /\ answering \in NoneOr(Ids)
    /\ readerFails \subseteq Ids
    /\ toChild \in Seq([kind : Commands, id : NoneOr(Ids)])
    /\ toParent \in Seq([kind : Responses, id : NoneOr(Ids)])
    /\ alive \in BOOLEAN
    /\ intake \in {"unborn", "reading", "cancelling", "stopping", "stopped"}
    /\ cancelId \in NoneOr(Ids)
    /\ cqueue \subseteq Ids
    /\ cticket \in [Ids -> Nat]
    /\ csentinel \in BOOLEAN
    /\ cancellations \subseteq Ids
    /\ cevents \subseteq Ids
    /\ main \in {"starting", "getting", "took", "executing", "cleaning", "exiting", "dead"}
    /\ serving \in NoneOr(Ids)
    /\ executed \subseteq Requests

ProcessInit ==
    /\ RequestInit
    /\ diag = [d \in Diags |-> "idle"]
    /\ diagDone = {}
    /\ pending = {}
    /\ code = [r \in Requests |-> "none"]
    /\ ready = FALSE
    /\ startup = "unset"
    /\ stdinClosed = FALSE
    /\ closerFails = {}
    /\ reader = "reading"
    /\ answering = None
    /\ readerFails = {}
    /\ toChild = <<>>
    /\ toParent = <<>>
    /\ alive = TRUE
    /\ intake = "unborn"
    /\ cancelId = None
    /\ cqueue = {}
    /\ cticket = [x \in Ids |-> 0]
    /\ csentinel = FALSE
    /\ cancellations = {}
    /\ cevents = {}
    /\ main = "starting"
    /\ serving = None
    /\ executed = {}

-----------------------------------------------------------------------------
(* Helpers of the parent.                                                  *)
Ready == ready /\ ~closed /\ alive
TableFull == Cardinality(pending) >= MaxPending
Message(kind, id) == [kind |-> kind, id |-> id]
Send(kind, id) == toChild' = Append(toChild, Message(kind, id))
(* _write to a child that is gone raises BrokenPipeError, after close() it *)
(* raises ValueError.                                                      *)
Writable == alive /\ ~stdinClosed

(* finish() of a table entry, with the outcome its handler will find.      *)
FinishEntry(x, outcome) ==
    IF x \in Requests
    THEN /\ Finish(x)
         /\ code' = [code EXCEPT ![x] = outcome]
         /\ UNCHANGED diagDone
    ELSE /\ diagDone' = diagDone \cup {x}
         /\ UNCHANGED <<requestVars, code>>

(* What is left of the child when it has exited, crashed or was killed.    *)
Dead ==
    /\ alive' = FALSE
    /\ intake' = "stopped"
    /\ cancelId' = None
    /\ cqueue' = {}
    /\ csentinel' = FALSE
    /\ cancellations' = {}
    /\ cevents' = {}
    /\ main' = "dead"
    /\ serving' = None
    /\ cticket' = [x \in Ids |-> 0]
    /\ toChild' = <<>>
    /\ UNCHANGED <<toParent, executed>>

-----------------------------------------------------------------------------
(* Handlers: chat_completions_with_request_context.                        *)
ProcessAdmit(r) ==
    /\ constructor = "built"
    /\ Admit(r)
    /\ UNCHANGED processVars

ProcessInterrupt(r) == Interrupt(r) /\ UNCHANGED processVars

(* The context is cancelled, or the engine is not ready.                   *)
RefuseRequest(r) ==
    /\ client[r] = "admitted"
    /\ Cancelled(r) \/ ~Ready
    /\ Leave(r)
    /\ UNCHANGED processVars

Step(r, pc) ==
    /\ client' = [client EXCEPT ![r] = pc]
    /\ UNCHANGED <<lease, context, finished, watching>>

EnterRequest(r) ==
    /\ client[r] = "admitted"
    /\ ~Cancelled(r)
    /\ Ready
    /\ Step(r, "entered")
    /\ UNCHANGED processVars

(* A full table refuses the request as busy.                               *)
Register(r) ==
    /\ client[r] = "entered"
    /\ IF TableFull
       THEN Leave(r) /\ UNCHANGED pending
       ELSE Step(r, "registered") /\ pending' = pending \cup {r}
    /\ UNCHANGED <<diag, diagDone, code, ready, startup, constructor, closed, stdinClosed,
                   closer, closerFails, reader, answering, readerFails, childVars,
                   toChild, toParent>>

(* The deadline that passed since the check leaves zero seconds to send.   *)
WriteRequest(r) ==
    /\ client[r] = "registered"
    /\ r \notin Oversized
    /\ Writable
    /\ Send(IF context[r] = "expired" THEN "expired_request" ELSE "request", r)
    /\ Step(r, "waiting")
    /\ UNCHANGED <<parentVars, childVars, toParent>>

(* BrokenPipeError leaves the call as it is; the entry stays in the table. *)
WriteBreaks(r) ==
    /\ client[r] = "registered"
    /\ r \notin Oversized
    /\ ~alive
    /\ ~stdinClosed
    /\ Leave(r)
    /\ UNCHANGED processVars

(* ValueError: too large, or stdin is closed.  The handler takes its own   *)
(* entry back, unless _fail_pending has it already.                        *)
WriteRejected(r) ==
    /\ client[r] = "registered"
    /\ r \in Oversized \/ stdinClosed
    /\ IF r \in pending
       THEN Step(r, "rejecting") /\ pending' = pending \ {r}
       ELSE Leave(r) /\ UNCHANGED pending
    /\ UNCHANGED <<diag, diagDone, code, ready, startup, constructor, closed, stdinClosed,
                   closer, closerFails, reader, answering, readerFails, childVars,
                   toChild, toParent>>

(* removed.finish(), then the error goes to the handler.                   *)
RaiseRejected(r) ==
    /\ client[r] = "rejecting"
    /\ finished' = [finished EXCEPT ![r] = @ + 1]
    /\ client' = [client EXCEPT ![r] = "left"]
    /\ lease' = [lease EXCEPT ![r] = "released"]
    /\ UNCHANGED <<context, watching, processVars>>

(* done is set.  A cancelled or timed-out answer still sends a cancel.     *)
ProcessAnswered(r) ==
    /\ client[r] = "waiting"
    /\ finished[r] > 0
    /\ IF code[r] = "cancelled" THEN Step(r, "withdrawing") ELSE Leave(r)
    /\ UNCHANGED processVars

ProcessObserveCancelled(r) ==
    /\ client[r] = "waiting"
    /\ finished[r] = 0
    /\ Cancelled(r)
    /\ Step(r, "cancelling")
    /\ UNCHANGED processVars

(* _cancel ignores a broken pipe; the ValueError of a closed stdin takes   *)
(* the place of the cancellation and loses its completion future.          *)
CancelRequestLeaves(r) ==
    /\ client[r] \in {"cancelling", "withdrawing"}
    /\ Leave(r)
    /\ IF Writable THEN Send("cancel", r) ELSE UNCHANGED toChild
    /\ UNCHANGED <<parentVars, childVars, toParent>>
CancelRequest(r) ==
    /\ \/ client[r] = "cancelling" /\ ~stdinClosed /\ LeaveOnCompletion(r)
       \/ client[r] = "cancelling" /\ stdinClosed /\ Leave(r)
       \/ client[r] = "withdrawing" /\ Leave(r)
    /\ IF Writable THEN Send("cancel", r) ELSE UNCHANGED toChild
    /\ UNCHANGED <<parentVars, childVars, toParent>>

-----------------------------------------------------------------------------
(* diagnostics().                                                          *)
DiagStep(d, pc) == diag' = [diag EXCEPT ![d] = pc]
diagFrame == <<diagDone, code, ready, startup, constructor, closed, stdinClosed,
               closer, closerFails, reader, answering, readerFails>>

DiagEnter(d) ==
    /\ diag[d] = "idle"
    /\ Ready
    /\ DiagStep(d, "entered")
    /\ UNCHANGED <<requestVars, pending, diagFrame, childVars, toChild, toParent>>

DiagRegister(d) ==
    /\ diag[d] = "entered"
    /\ IF TableFull
       THEN DiagStep(d, "left") /\ UNCHANGED pending
       ELSE DiagStep(d, "registered") /\ pending' = pending \cup {d}
    /\ UNCHANGED <<requestVars, diagFrame, childVars, toChild, toParent>>

(* No handler: a write that fails leaves the entry in the table.           *)
DiagWrite(d) ==
    /\ diag[d] = "registered"
    /\ IF Writable
       THEN DiagStep(d, "waiting") /\ Send("diagnostics", d)
       ELSE DiagStep(d, "left") /\ UNCHANGED toChild
    /\ UNCHANGED <<requestVars, pending, diagFrame, childVars, toParent>>

DiagAnswered(d) ==
    /\ diag[d] = "waiting"
    /\ d \in diagDone
    /\ DiagStep(d, "left")
    /\ UNCHANGED <<requestVars, pending, diagFrame, childVars, toChild, toParent>>

DiagTimesOut(d) ==
    /\ diag[d] = "waiting"
    /\ d \notin diagDone
    /\ DiagStep(d, "cancelling")
    /\ UNCHANGED <<requestVars, pending, diagFrame, childVars, toChild, toParent>>

(* "Keep timed-out diagnostics bounded until the child replies."           *)
DiagCancelForgets(d) ==
    /\ diag[d] = "cancelling"
    /\ DiagStep(d, "left")
    /\ IF Writable THEN Send("cancel", d) ELSE UNCHANGED toChild
    /\ pending' = pending \ {d}
    /\ UNCHANGED <<requestVars, diagFrame, childVars, toParent>>
DiagCancel(d) ==
    /\ diag[d] = "cancelling"
    /\ DiagStep(d, "left")
    /\ IF Writable THEN Send("cancel", d) ELSE UNCHANGED toChild
    /\ UNCHANGED <<requestVars, pending, diagFrame, childVars, toParent>>

-----------------------------------------------------------------------------
(* __init__ waits for the startup event.                                   *)
constructorFrame == <<requestVars, diag, diagDone, pending, code, ready, startup, closed,
                      stdinClosed, closer, closerFails, reader, answering, readerFails,
                      childVars, toChild, toParent>>

ProcessBuilt ==
    /\ constructor = "waiting"
    /\ startup = "ready"
    /\ constructor' = "built"
    /\ UNCHANGED constructorFrame

(* An error, or no answer in time; both call close() before they raise.    *)
StartupFails ==
    /\ constructor = "waiting"
    /\ startup # "ready"
    /\ constructor' = "raised"
    /\ UNCHANGED constructorFrame

-----------------------------------------------------------------------------
(* close().                                                                *)
closeFrame == <<diag, diagDone, code, startup, constructor, reader, answering, readerFails>>

ProcessCloseStart ==
    /\ closer = "open"
    /\ constructor \in {"built", "raised"}
    /\ closed' = TRUE
    /\ ready' = FALSE
    /\ closer' = "shutdown"
    /\ UNCHANGED <<requestVars, pending, stdinClosed, closerFails, closeFrame, childVars,
                   toChild, toParent>>

CloseWrites ==
    /\ closer = "shutdown"
    /\ closer' = "waiting"
    /\ IF alive THEN Send("shutdown", None) ELSE UNCHANGED toChild
    /\ UNCHANGED <<requestVars, pending, ready, closed, stdinClosed, closerFails, closeFrame,
                   childVars, toParent>>

(* The child exits within the shutdown timeout, or is terminated or killed.*)
CloseWaits ==
    /\ closer = "waiting"
    /\ closer' = "reaped"
    /\ IF alive THEN Dead ELSE UNCHANGED <<childVars, toChild, toParent>>
    /\ UNCHANGED <<requestVars, pending, ready, closed, stdinClosed, closerFails, closeFrame>>

CloseTakesPending ==
    /\ closer = "reaped"
    /\ closer' = "failing"
    /\ closerFails' = pending
    /\ pending' = {}
    /\ UNCHANGED <<requestVars, ready, closed, stdinClosed, closeFrame, childVars, toChild,
                   toParent>>

CloseFails(x) ==
    /\ closer = "failing"
    /\ x \in closerFails
    /\ FinishEntry(x, "failed")
    /\ closerFails' = closerFails \ {x}
    /\ UNCHANGED <<pending, ready, closed, stdinClosed, closer, diag, startup, constructor,
                   reader, answering, readerFails, childVars, toChild, toParent>>

ProcessCloseEnd ==
    /\ closer = "failing"
    /\ closerFails = {}
    /\ closer' = "closed"
    /\ stdinClosed' = TRUE
    /\ UNCHANGED <<requestVars, pending, ready, closed, closerFails, closeFrame, childVars,
                   toChild, toParent>>

-----------------------------------------------------------------------------
(* The parent's reader thread: _read_responses.                            *)
readerFrame == <<requestVars, diag, diagDone, code, constructor, closed, stdinClosed,
                 closer, closerFails>>
Received(kind) == toParent # <<>> /\ Head(toParent).kind = kind

ReadReady ==
    /\ reader = "reading"
    /\ Received("ready")
    /\ ready' = TRUE
    /\ startup' = "ready"
    /\ toParent' = Tail(toParent)
    /\ UNCHANGED <<readerFrame, pending, reader, answering, readerFails, childVars, toChild>>

(* A response to an entry that is not in the table any more is skipped.    *)
ReadAnswer ==
    /\ reader = "reading"
    /\ toParent # <<>>
    /\ Head(toParent).kind \in Answers
    /\ IF Head(toParent).id \in pending
       THEN /\ reader' = "answering"
            /\ answering' = Head(toParent).id
            /\ pending' = pending \ {Head(toParent).id}
            /\ UNCHANGED toParent
       ELSE /\ toParent' = Tail(toParent)
            /\ UNCHANGED <<reader, answering, pending>>
    /\ UNCHANGED <<readerFrame, ready, startup, readerFails, childVars, toChild>>

FinishAnswer ==
    /\ reader = "answering"
    /\ FinishEntry(answering, Head(toParent).kind)
    /\ toParent' = Tail(toParent)
    /\ reader' = IF closed THEN "reaping" ELSE "reading"
    /\ answering' = None
    /\ UNCHANGED <<diag, pending, ready, startup, constructor, closed, stdinClosed, closer,
                   closerFails, readerFails, childVars, toChild>>

(* End of file, or a line that is not a response.                          *)
ReadEnds ==
    /\ reader = "reading"
    /\ Received("garbage") \/ (toParent = <<>> /\ ~alive)
    /\ reader' = "reaping"
    /\ UNCHANGED <<readerFrame, pending, ready, startup, answering, readerFails, childVars,
                   toChild, toParent>>

(* "A broken protocol/EOF cannot acknowledge native completion": the child *)
(* is waited for, terminated or killed before anything is released.        *)
Reap ==
    /\ reader = "reaping"
    /\ reader' = "reaped"
    /\ ready' = FALSE
    /\ startup' = IF startup = "unset" THEN "error" ELSE startup
    /\ IF alive THEN Dead ELSE UNCHANGED <<childVars, toChild, toParent>>
    /\ UNCHANGED <<readerFrame, pending, answering, readerFails>>

ReaderTakesPending ==
    /\ reader = "reaped"
    /\ reader' = "failing"
    /\ readerFails' = pending
    /\ pending' = {}
    /\ UNCHANGED <<readerFrame, ready, startup, answering, childVars, toChild, toParent>>

ReaderFailsEntry(x) ==
    /\ reader = "failing"
    /\ x \in readerFails
    /\ FinishEntry(x, "failed")
    /\ readerFails' = readerFails \ {x}
    /\ UNCHANGED <<diag, pending, ready, startup, constructor, closed, stdinClosed, closer,
                   closerFails, reader, answering, childVars, toChild, toParent>>

ReaderEnds ==
    /\ reader = "failing"
    /\ readerFails = {}
    /\ reader' = "done"
    /\ UNCHANGED <<readerFrame, pending, ready, startup, answering, readerFails, childVars,
                   toChild, toParent>>

-----------------------------------------------------------------------------
(* The child's reader thread: _reader.                                     *)
intakeFrame == <<requestVars, parentVars, alive, main, serving, executed>>
ChildFull == Cardinality(cqueue) + (IF csentinel THEN 1 ELSE 0) >= MaxPending
(* Tickets of the queued ids number them 1, 2, ... in the order of put.    *)
NextChildTicket == Cardinality(cqueue) + 1
WithoutTicket(x) == [y \in Ids |-> IF y = x \/ y \notin cqueue THEN 0
                                   ELSE IF cticket[y] > cticket[x] THEN cticket[y] - 1
                                   ELSE cticket[y]]
Reply(kind, id) == toParent' = Append(toParent, Message(kind, id))
Incoming(kinds) ==
    /\ alive
    /\ intake = "reading"
    /\ toChild # <<>>
    /\ Head(toChild).kind \in kinds
    /\ toChild' = Tail(toChild)

(* A request without time left is not valid.                               *)
IntakeInvalid ==
    /\ Incoming({"expired_request"})
    /\ Reply("failed", Head(toChild).id)
    /\ UNCHANGED <<intakeFrame, intake, cancelId, cqueue, cticket, csentinel, cancellations,
                   cevents>>

(* put_nowait; a full queue answers engine_busy.                           *)
IntakeCommand ==
    LET x == Head(toChild).id IN
    /\ Incoming({"request", "diagnostics"})
    /\ IF ChildFull
       THEN Reply("failed", x) /\ UNCHANGED <<cqueue, cticket, cancellations>>
       ELSE /\ cqueue' = cqueue \cup {x}
            /\ cticket' = [cticket EXCEPT ![x] = NextChildTicket]
            /\ cancellations' = IF x \in Requests THEN cancellations \cup {x}
                                ELSE cancellations
            /\ UNCHANGED toParent
    /\ UNCHANGED <<intakeFrame, intake, cancelId, csentinel, cevents>>

IntakeCancel ==
    /\ Incoming({"cancel"})
    /\ IF Head(toChild).id \in cancellations
       THEN /\ cevents' = cevents \cup {Head(toChild).id}
            /\ cancelId' = Head(toChild).id
            /\ intake' = "cancelling"
       ELSE UNCHANGED <<cevents, cancelId, intake>>
    /\ UNCHANGED <<intakeFrame, cqueue, cticket, csentinel, cancellations, toParent>>

(* cancel_waiting: "Remove only a command which the model owner has not    *)
(* claimed."                                                               *)
CancelWaiting ==
    /\ intake = "cancelling"
    /\ intake' = "reading"
    /\ cancelId' = None
    /\ IF cancelId \in cqueue
       THEN /\ cqueue' = cqueue \ {cancelId}
            /\ cticket' = WithoutTicket(cancelId)
            /\ cancellations' = cancellations \ {cancelId}
            /\ cevents' = cevents \ {cancelId}
            /\ Reply("cancelled", cancelId)
       ELSE UNCHANGED <<cqueue, cticket, cancellations, cevents, toParent>>
    /\ UNCHANGED <<intakeFrame, csentinel, toChild>>

IntakeShutdown ==
    /\ Incoming({"shutdown"})
    /\ intake' = "stopping"
    /\ UNCHANGED <<intakeFrame, cancelId, cqueue, cticket, csentinel, cancellations, cevents,
                   toParent>>

(* put(None) waits for room.                                               *)
IntakeStops ==
    /\ intake = "stopping"
    /\ ~ChildFull
    /\ intake' = "stopped"
    /\ csentinel' = TRUE
    /\ UNCHANGED <<intakeFrame, cancelId, cqueue, cticket, cancellations, cevents, toChild,
                   toParent>>

-----------------------------------------------------------------------------
(* The child's main thread: run.                                           *)
mainFrame == <<requestVars, parentVars, alive, cancelId, toChild>>
mainQueue == <<cqueue, cticket, cancellations, cevents>>
IsNext(x) == x \in cqueue /\ \A y \in cqueue : cticket[x] <= cticket[y]
(* context.raise_if_cancelled in the child; its deadline is no earlier     *)
(* than the handler's.                                                     *)
ChildCancelled(r) == r \in cevents \/ context[r] = "expired"

(* The factory loads the model, ready is sent, the reader thread starts.   *)
MainStarts ==
    /\ main = "starting"
    /\ main' = "getting"
    /\ intake' = "reading"
    /\ Reply("ready", None)
    /\ UNCHANGED <<mainFrame, executed, mainQueue, csentinel, serving>>

MainTakes(x) ==
    /\ main = "getting"
    /\ IsNext(x)
    /\ main' = "took"
    /\ serving' = x
    /\ cqueue' = cqueue \ {x}
    /\ cticket' = WithoutTicket(x)
    /\ UNCHANGED <<mainFrame, executed, intake, csentinel, cancellations, cevents, toParent>>

MainTakesNone ==
    /\ main = "getting"
    /\ cqueue = {}
    /\ csentinel
    /\ csentinel' = FALSE
    /\ main' = "exiting"
    /\ UNCHANGED <<mainFrame, executed, intake, mainQueue, serving, toParent>>

MainDiagnoses ==
    /\ main = "took"
    /\ serving \in Diags
    /\ \E kind \in {"result", "failed"} : Reply(kind, serving)
    /\ main' = "getting"
    /\ serving' = None
    /\ UNCHANGED <<mainFrame, executed, intake, mainQueue, csentinel>>

MainRejects ==
    /\ main = "took"
    /\ serving \in Requests
    /\ ChildCancelled(serving)
    /\ Reply("cancelled", serving)
    /\ main' = "cleaning"
    /\ UNCHANGED <<mainFrame, executed, intake, mainQueue, csentinel, serving>>

MainCalls ==
    /\ main = "took"
    /\ serving \in Requests
    /\ serving \notin cevents
    /\ main' = "executing"
    /\ executed' = executed \cup {serving}
    /\ UNCHANGED <<mainFrame, intake, mainQueue, csentinel, serving, toParent>>

(* The model returns or raises and the answer is written.                  *)
MainReturns ==
    /\ main = "executing"
    /\ \E kind \in Answers :
          /\ kind = "cancelled" => ChildCancelled(serving)
          /\ kind = "result" => serving \notin cevents
          /\ Reply(kind, serving)
    /\ main' = "cleaning"
    /\ UNCHANGED <<mainFrame, executed, intake, mainQueue, csentinel, serving>>

MainCleans ==
    /\ main = "cleaning"
    /\ cancellations' = cancellations \ {serving}
    /\ cevents' = cevents \ {serving}
    /\ main' = "getting"
    /\ serving' = None
    /\ UNCHANGED <<mainFrame, executed, intake, cqueue, cticket, csentinel, toParent>>

(* delegate.close() and the end of the process.                            *)
MainExits ==
    /\ main = "exiting"
    /\ Dead
    /\ UNCHANGED <<requestVars, parentVars>>

(* The process dies: a native fault, or the system kills it for memory.    *)
Crash ==
    /\ alive
    /\ Dead
    /\ UNCHANGED <<requestVars, parentVars>>

(* The model prints on the standard output that carries the protocol.      *)
BreakProtocol ==
    /\ main = "executing"
    /\ \A i \in 1 .. Len(toParent) : toParent[i].kind # "garbage"
    /\ Reply("garbage", None)
    /\ UNCHANGED <<requestVars, parentVars, childVars, toChild>>

-----------------------------------------------------------------------------
HandlerStep(r) ==
    \/ RefuseRequest(r)
    \/ EnterRequest(r)
    \/ Register(r)
    \/ WriteRequest(r)
    \/ WriteBreaks(r)
    \/ WriteRejected(r)
    \/ RaiseRejected(r)
    \/ ProcessAnswered(r)
    \/ ProcessObserveCancelled(r)
    \/ CancelRequest(r)

DiagnosticsStep(d) ==
    \/ DiagRegister(d)
    \/ DiagWrite(d)
    \/ DiagAnswered(d)
    \/ DiagTimesOut(d)
    \/ DiagCancel(d)

ProcessCloserStep ==
    \/ CloseWrites
    \/ CloseWaits
    \/ CloseTakesPending
    \/ \E x \in Ids : CloseFails(x)
    \/ ProcessCloseEnd

ReaderStep ==
    \/ ReadReady
    \/ ReadAnswer
    \/ FinishAnswer
    \/ ReadEnds
    \/ Reap
    \/ ReaderTakesPending
    \/ \E x \in Ids : ReaderFailsEntry(x)
    \/ ReaderEnds

IntakeStep ==
    \/ IntakeInvalid
    \/ IntakeCommand
    \/ IntakeCancel
    \/ CancelWaiting
    \/ IntakeShutdown
    \/ IntakeStops

MainStep ==
    \/ MainStarts
    \/ \E x \in Ids : MainTakes(x)
    \/ MainTakesNone
    \/ MainDiagnoses
    \/ MainRejects
    \/ MainCalls
    \/ MainReturns
    \/ MainCleans
    \/ MainExits

ProcessNext ==
    \/ \E r \in Requests : ProcessAdmit(r) \/ ProcessInterrupt(r) \/ HandlerStep(r)
    \/ \E d \in Diags : DiagEnter(d) \/ DiagnosticsStep(d)
    \/ ProcessBuilt
    \/ StartupFails
    \/ ProcessCloseStart
    \/ ProcessCloserStep
    \/ ReaderStep
    \/ IntakeStep
    \/ MainStep
    \/ Crash
    \/ BreakProtocol

(* Every thread of both processes is scheduled and the model returns, or   *)
(* its process dies.                                                       *)
ProcessFairness ==
    /\ \A r \in Requests : WF_procVars(HandlerStep(r))
    /\ WF_procVars(ProcessCloserStep)
    /\ WF_procVars(ReaderStep)
    /\ WF_procVars(IntakeStep)
    /\ WF_procVars(MainStep)

ProcessSpec == ProcessInit /\ [][ProcessNext]_procVars /\ ProcessFairness

-----------------------------------------------------------------------------
(* The native call under way is the one the living child executes.         *)
ProcessExecution ==
    [r \in Requests |-> IF main = "executing" /\ serving = r THEN "running"
                        ELSE IF r \in executed THEN "over" ELSE "none"]

ProcessLease == INSTANCE InferenceLease WITH execution <- ProcessExecution

(* The engine implements the lease across two processes: whatever is       *)
(* cancelled, answered, lost with a dead child or failed by close(), no    *)
(* lease goes back while the child may still execute the request.          *)
ProcessKeepsLease == ProcessLease!LeaseSpec

(* The parent's table bounds the child: whatever the child has not         *)
(* answered is still in the table, so its queue has room for every command *)
(* that was sent ("Keep timed-out diagnostics bounded until the child      *)
(* replies") and a request the parent accepted is never refused as busy.   *)
ChildWithinTable ==
    alive => /\ cqueue \subseteq pending
             /\ main \in {"took", "executing"} => serving \in pending
             /\ \A i \in 1 .. Len(toChild) :
                   toChild[i].kind \in {"request", "diagnostics"} => toChild[i].id \in pending
=============================================================================
