---------------------------- MODULE ResidentRuntime ----------------------------
(***************************************************************************)
(* The resident tensor worker: its Unix socket server                      *)
(* (qwen4_runtime_transport.py), the command service with sequence numbers *)
(* and a bounded replay cache (qwen4_runtime_protocol.py), the resident    *)
(* store (qwen4_resident_store.py), its memory admission                   *)
(* (qwen4_component_loader.py) and the one-shot artifacts                  *)
(* (numeric_artifact.py).                                                  *)
(*                                                                         *)
(* One thread serves each connection and the main thread accepts them.  A  *)
(* command runs under the service's lock from its checks to its cached     *)
(* response; a cancel takes only _active_lock.  A load holds the store's   *)
(* lock, which main also takes when it closes the worker.  The clients and *)
(* the tensor backend are external: a client may disconnect, replay or     *)
(* race another one for a sequence number, a conversion may raise and so   *)
(* may a release.                                                          *)
(***************************************************************************)
EXTENDS ByteTotals, Sequences, Functions

CONSTANTS
    Connections,
    Commands,      \* requests, told apart by their request_id
    Op,            \* operation of a command
    Sequence,      \* sequence of a command
    Subject,       \* the load that an unload or a cancel names
    Artifacts,
    ArtifactOf,    \* artifact_name of a numeric load
    Needs,         \* reserved_bytes of a load while it converts
    Keeps,         \* its destination_bytes
    PoolBytes,     \* capacity_bytes of Qwen4MemoryAdmission
    MaxCached,     \* MAX_CACHED_RESPONSES
    MaxCommands,   \* MAX_COMMANDS_PER_CONNECTION
    Agendas,       \* which commands each connection's client may come to send
    NoCommand      \* no frame, no lock holder, no subject

Loads == {r \in Commands : Op[r] \in {"load", "load_numeric", "load_numeric_streaming"}}
Numeric(r) == Op[r] \in {"load_numeric", "load_numeric_streaming"}

ASSUME RuntimeAssumption ==
    /\ Op \in [Commands -> {"load", "load_numeric", "load_numeric_streaming", "unload",
                            "status", "retry_quarantine", "shutdown", "cancel"}]
    /\ Sequence \in [Commands -> Nat \ {0}]
    /\ Subject \in [Commands -> Loads \cup {NoCommand}]
    /\ ArtifactOf \in [{r \in Commands : Numeric(r)} -> Artifacts]
    /\ Needs \in [Loads -> Nat] /\ Keeps \in [Loads -> Nat]
    /\ \A r \in Loads : Keeps[r] <= Needs[r]
    /\ Agendas \subseteq [Connections -> SUBSET Commands]
    /\ NoCommand \notin Connections \cup Commands
    /\ PoolBytes \in Nat /\ MaxCached \in Nat \ {0} /\ MaxCommands \in Nat \ {0}

VARIABLES
    agenda,      \* the clients' commands in this behaviour (input)
    conn,        \* per connection: where its thread is
    frame,       \* per connection: the frame its client has sent
    request,     \* per connection: the command it serves
    reply,       \* per connection: the response it sends
    served,      \* per connection: how many commands it served
    busy,        \* _busy_connections
    gone,        \* connections whose client has disconnected
    cut,         \* connections that _interrupt_connections shut down
    main,        \* the main thread: serve_until_shutdown and close
    aborted,     \* main left serve_until_shutdown by an exception
    holder,      \* the connection that has the service's _lock
    signal,      \* the cancellation event of the active request is set
    lastSeq,     \* _last_sequence
    replays,     \* _cache, oldest first: the responses
    sessionOver, \* _closed
    storeHeld,   \* a load holds the store's _lock
    records,     \* _records
    quarantine,  \* _quarantined
    pool,        \* _reserved_bytes
    alive,       \* the backend's resources that are not released
    inbox,       \* artifacts in the inbox
    deleted,     \* artifacts of which no copy is left
    runs,        \* executions of each command so far (history)
    kept,        \* every allocation that became a record (history)
    answers      \* the responses its clients were sent, per ordered command (history)

wireVars == <<agenda, conn, frame, request, reply, served, busy, gone, cut, answers>>
mainVars == <<main, aborted>>
commandVars == <<holder, signal, lastSeq, replays, sessionOver, runs>>
residentVars == <<storeHeld, records, quarantine, pool, alive, kept>>
artifactVars == <<inbox, deleted>>
runtimeVars == <<wireVars, mainVars, commandVars, residentVars, artifactVars>>

RuntimeInit ==
    /\ agenda \in Agendas
    /\ conn = [c \in Connections |-> "unopened"]
    /\ frame = [c \in Connections |-> NoCommand]
    /\ request = [c \in Connections |-> NoCommand]
    /\ reply = [c \in Connections |-> NoCommand]
    /\ served = [c \in Connections |-> 0]
    /\ busy = {} /\ gone = {} /\ cut = {}
    /\ answers = [r \in Commands |-> {}]
    /\ main = "serving"
    /\ aborted = FALSE
    /\ holder = NoCommand
    /\ signal = FALSE
    /\ lastSeq = 0
    /\ replays = <<>>
    /\ sessionOver = FALSE
    /\ runs = [r \in Commands |-> 0]
    /\ storeHeld = FALSE
    /\ records = {} /\ quarantine = {} /\ alive = {} /\ kept = {}
    /\ pool = 0
    /\ inbox = Artifacts
    /\ deleted = {}

Moves(c, s) == conn' = [conn EXCEPT ![c] = s]

(* The thread ends: serve_connection returns, or an exception leaves it.   *)
(* The connection is closed and nothing of it is left.                     *)
ConnectionEnds(c) ==
    /\ Moves(c, "ended")
    /\ frame' = [frame EXCEPT ![c] = NoCommand]
    /\ request' = [request EXCEPT ![c] = NoCommand]
    /\ reply' = [reply EXCEPT ![c] = NoCommand]
    /\ served' = [served EXCEPT ![c] = 0]
    /\ busy' = busy \ {c}
    /\ gone' = gone \ {c}
    /\ UNCHANGED agenda

(* An allocation is named by the command and the execution that made it.   *)
Allocation(c) == <<request[c], runs[request[c]]>>
Of(r) == {a \in records : a[1] = r}

-----------------------------------------------------------------------------
(* The clients.  Each sends the commands it may, one at a time, and waits  *)
(* for the answer.  That it left is noticed only while the thread reads    *)
(* (ReceiveFails), converts or sends, and so happens only there.           *)
ClientSends(c, r) ==
    /\ conn[c] = "receiving"
    /\ c \notin gone \cup cut
    /\ frame[c] = NoCommand
    /\ r \in agenda[c]
    /\ Op[r] = "unload" => \E x \in answers[Subject[r]] : x.passed
    /\ frame' = [frame EXCEPT ![c] = r]
    /\ UNCHANGED <<agenda, conn, request, reply, served, busy, gone, cut, answers,
                   mainVars, commandVars, residentVars, artifactVars>>
Disconnects(c) ==
    /\ conn[c] \in {"converting", "sending"}
    /\ c \notin gone
    /\ gone' = gone \cup {c}
    /\ UNCHANGED <<agenda, conn, frame, request, reply, served, busy, cut, answers,
                   mainVars, commandVars, residentVars, artifactVars>>

-----------------------------------------------------------------------------
(* The main thread.  service.closed waits for the service's lock; a client *)
(* connects, and the thread of its connection starts some time later.      *)
Accepts(c) ==
    /\ main = "serving"
    /\ holder = NoCommand /\ ~sessionOver
    /\ conn[c] = "unopened"
    /\ Moves(c, "accepted")
    /\ UNCHANGED <<agenda, frame, request, reply, served, busy, gone, cut, answers,
                   mainVars, commandVars, residentVars, artifactVars>>
MainSeesClosed ==
    /\ main = "serving"
    /\ holder = NoCommand /\ sessionOver
    /\ main' = "joining"
    /\ UNCHANGED <<wireVars, aborted, commandVars, residentVars, artifactVars>>
(* Every join returns, by its timeout at the latest.                       *)
MainJoins ==
    /\ main = "joining"
    /\ main' = "closing"
    /\ UNCHANGED <<wireVars, aborted, commandVars, residentVars, artifactVars>>
MainAborts ==
    /\ main \in {"serving", "joining"}
    /\ main' = "closing"
    /\ aborted' = TRUE
    /\ UNCHANGED <<wireVars, commandVars, residentVars, artifactVars>>

(* _interrupt_connections: the idle ones are shut down, so that their      *)
(* threads stop waiting for a frame; a busy one finishes its command.      *)
Registered(c) == conn[c] \notin {"unopened", "accepted", "ended"}
InterruptedBusyOnly(others) == {c \in others : Registered(c) /\ c \in busy}
Interrupted(others) == {c \in others : Registered(c) /\ c \notin busy}

(* close(): connections, then Qwen4ResidentStore.shutdown.                 *)
MainInterrupts ==
    /\ main = "closing"
    /\ cut' = cut \cup Interrupted(Connections)
    /\ main' = "releasing"
    /\ UNCHANGED <<agenda, conn, frame, request, reply, served, busy, gone, answers,
                   aborted, commandVars, residentVars, artifactVars>>

(* The backend releases those of the allocations whose release does not    *)
(* raise; each gives its reservation back.                                 *)
FreesThose(allocations, freed) ==
    /\ freed \subseteq allocations
    /\ alive' = alive \ freed
    /\ records' = records \ freed
    /\ quarantine' = quarantine \ freed
    /\ pool' = pool - (TotalBytes(freed \cap records, Keeps) + TotalBytes(freed \cap quarantine, Needs))
    /\ UNCHANGED <<storeHeld, kept>>

MainReleases ==
    /\ main = "releasing"
    /\ ~storeHeld
    /\ \E freed \in SUBSET (records \cup quarantine) :
          FreesThose(records \cup quarantine, freed)
    /\ main' = "ended"
    /\ UNCHANGED <<wireVars, aborted, commandVars, artifactVars>>

MainStep == MainSeesClosed \/ MainJoins \/ MainInterrupts \/ MainReleases

-----------------------------------------------------------------------------
(* serve_connection.                                                       *)
Registers(c) ==
    /\ conn[c] = "accepted"
    /\ Moves(c, "checking")
    /\ UNCHANGED <<agenda, frame, request, reply, served, busy, gone, cut, answers,
                   mainVars, commandVars, residentVars, artifactVars>>
ChecksClosed(c) ==
    /\ conn[c] = "checking"
    /\ holder = NoCommand
    /\ ~sessionOver
    /\ Moves(c, "receiving")
    /\ UNCHANGED <<agenda, frame, request, reply, served, busy, gone, cut, answers,
                   mainVars, commandVars, residentVars, artifactVars>>
SeesClosed(c) ==
    /\ conn[c] = "checking"
    /\ holder = NoCommand
    /\ sessionOver
    /\ ConnectionEnds(c)
    /\ cut' = cut \ {c}
    /\ UNCHANGED <<answers, mainVars, commandVars, residentVars, artifactVars>>
(* A frame arrives; the socket was shut down or its client is known to be  *)
(* gone; or the client leaves now, or the read times out.                  *)
Receives(c) ==
    /\ conn[c] = "receiving"
    /\ frame[c] # NoCommand
    /\ request' = [request EXCEPT ![c] = frame[c]]
    /\ frame' = [frame EXCEPT ![c] = NoCommand]
    /\ Moves(c, "received")
    /\ UNCHANGED <<agenda, reply, served, busy, gone, cut, answers,
                   mainVars, commandVars, residentVars, artifactVars>>
ReceivesEnd(c) ==
    /\ conn[c] = "receiving"
    /\ c \in cut \/ (c \in gone /\ frame[c] = NoCommand)
    /\ ConnectionEnds(c)
    /\ cut' = cut \ {c}
    /\ UNCHANGED <<answers, mainVars, commandVars, residentVars, artifactVars>>
ReceiveFails(c) ==
    /\ conn[c] = "receiving"
    /\ frame[c] = NoCommand
    /\ ConnectionEnds(c)
    /\ cut' = cut \ {c}
    /\ UNCHANGED <<answers, mainVars, commandVars, residentVars, artifactVars>>
MarksBusy(c) ==
    /\ conn[c] = "received"
    /\ busy' = busy \cup {c}
    /\ Moves(c, IF Op[request[c]] = "cancel" THEN "cancelling" ELSE "waiting")
    /\ UNCHANGED <<agenda, frame, request, reply, served, gone, cut, answers,
                   mainVars, commandVars, residentVars, artifactVars>>

Replies(c, x) ==
    /\ reply' = [reply EXCEPT ![c] = x]
    /\ Moves(c, "sending")
    /\ UNCHANGED <<agenda, frame, request, served, busy, gone, cut, answers>>
Response(r, ok) == [command |-> r, passed |-> ok]

Delivered(c) ==
    answers' = IF Op[request[c]] = "cancel" THEN answers
               ELSE [answers EXCEPT ![request[c]] = @ \cup {reply[c]}]
Delivers(c) ==
    /\ conn[c] = "sending"
    /\ c \notin cut
    /\ Delivered(c)
    /\ LET over == Op[request[c]] = "shutdown" /\ reply[c].passed
       IN  /\ over \/ served[c] + 1 < MaxCommands
           /\ Moves(c, IF over THEN "interrupting" ELSE "checking")
    /\ busy' = busy \ {c}
    /\ served' = [served EXCEPT ![c] = @ + 1]
    /\ request' = [request EXCEPT ![c] = NoCommand]
    /\ reply' = [reply EXCEPT ![c] = NoCommand]
    /\ UNCHANGED <<agenda, frame, gone, cut, mainVars, commandVars, residentVars, artifactVars>>
(* The command limit of a connection ends it after its last answer.        *)
DeliversLast(c) ==
    /\ conn[c] = "sending"
    /\ c \notin cut
    /\ Delivered(c)
    /\ ~(Op[request[c]] = "shutdown" /\ reply[c].passed)
    /\ served[c] + 1 = MaxCommands
    /\ ConnectionEnds(c)
    /\ UNCHANGED <<cut, mainVars, commandVars, residentVars, artifactVars>>
DeliveryFails(c) ==
    /\ conn[c] = "sending"
    /\ c \in cut \cup gone
    /\ ConnectionEnds(c)
    /\ cut' = cut \ {c}
    /\ UNCHANGED <<answers, mainVars, commandVars, residentVars, artifactVars>>
InterruptsOthers(c) ==
    /\ conn[c] = "interrupting"
    /\ ConnectionEnds(c)
    /\ cut' = (cut \ {c}) \cup Interrupted(Connections \ {c})
    /\ UNCHANGED <<answers, mainVars, commandVars, residentVars, artifactVars>>

-----------------------------------------------------------------------------
(* Qwen4RuntimeCommandService.handle.  A cancel needs no sequence and no   *)
(* lock; it finds the command that executes.                               *)
HandlesCancel(c) ==
    LET hit == holder # NoCommand /\ request[holder] = Subject[request[c]]
    IN  /\ conn[c] = "cancelling"
        /\ signal' = (signal \/ hit)
        /\ Replies(c, Response(request[c], hit))
        /\ UNCHANGED <<mainVars, holder, lastSeq, replays, sessionOver, runs,
                       residentVars, artifactVars>>

CachedFor(r) == {x \in Range(replays) : Sequence[x.command] = Sequence[r]}
Fresh(r) == Sequence[r] = lastSeq + 1
SameSequence(r) == CachedFor(r) # {}
SameContent(r) == \E x \in CachedFor(r) : x.command = r

Replays(c) ==
    /\ conn[c] = "waiting"
    /\ holder = NoCommand
    /\ SameContent(request[c])
    /\ \E x \in CachedFor(request[c]) : Replies(c, x)
    /\ UNCHANGED <<mainVars, commandVars, residentVars, artifactVars>>
Refuses(c) ==
    /\ conn[c] = "waiting"
    /\ holder = NoCommand
    /\ IF SameSequence(request[c])
       THEN ~SameContent(request[c])
       ELSE ~Fresh(request[c]) \/ sessionOver
    /\ ConnectionEnds(c)
    /\ cut' = cut \ {c}
    /\ UNCHANGED <<answers, mainVars, commandVars, residentVars, artifactVars>>
Executes(c) ==
    /\ conn[c] = "waiting"
    /\ holder = NoCommand
    /\ ~SameSequence(request[c])
    /\ Fresh(request[c])
    /\ ~sessionOver
    /\ holder' = c
    /\ runs' = [runs EXCEPT ![request[c]] = @ + 1]
    /\ Moves(c, CASE Numeric(request[c]) -> "claiming"
                  [] Op[request[c]] = "load" -> "reserving"
                  [] OTHER -> "executing")
    /\ UNCHANGED <<agenda, frame, request, reply, served, busy, gone, cut, answers,
                   mainVars, signal, lastSeq, replays, sessionOver, residentVars, artifactVars>>

(* A command that ends, well or by one of the caught exceptions, uses up   *)
(* its sequence number and its response is cached.  The oldest ones go.    *)
Trimmed(s) == IF Len(s) > MaxCached THEN Tail(s) ELSE s
Answered(c, ok) ==
    /\ Replies(c, Response(request[c], ok))
    /\ lastSeq' = Sequence[request[c]]
    /\ replays' = Trimmed(Append(replays, Response(request[c], ok)))
    /\ holder' = NoCommand
    /\ signal' = FALSE
    /\ UNCHANGED <<runs, mainVars>>

(* Any other exception ends the connection and uses up nothing.            *)
Escapes(c) ==
    /\ ConnectionEnds(c)
    /\ cut' = cut \ {c}
    /\ holder' = NoCommand
    /\ signal' = FALSE
    /\ UNCHANGED <<answers, lastSeq, replays, sessionOver, runs, mainVars>>

-----------------------------------------------------------------------------
(* Numeric artifacts: claim() moves one out of the inbox before the load.  *)
ClaimsCopy(c) ==
    /\ conn[c] = "claiming"
    /\ ArtifactOf[request[c]] \in inbox
    /\ Moves(c, "reserving")
    /\ UNCHANGED <<agenda, frame, request, reply, served, busy, gone, cut, answers,
                   mainVars, commandVars, residentVars, artifactVars>>
Claims(c) ==
    /\ conn[c] = "claiming"
    /\ ArtifactOf[request[c]] \in inbox
    /\ inbox' = inbox \ {ArtifactOf[request[c]]}
    /\ Moves(c, "reserving")
    /\ UNCHANGED <<agenda, frame, request, reply, served, busy, gone, cut, answers,
                   mainVars, commandVars, residentVars, deleted>>
(* It is missing or unsafe and stays where it is, or is quarantined for    *)
(* its digest or contents.  Where a companion file cannot be unlinked, the *)
(* rollback of _claim_file_artifact deletes the quarantined copy of a      *)
(* manifest that is already out of the inbox.                              *)
ClaimFails(c) ==
    LET a == ArtifactOf[request[c]]
    IN  /\ conn[c] = "claiming"
        /\ \/ UNCHANGED <<inbox, deleted>>
           \/ inbox' = inbox \ {a} /\ UNCHANGED deleted
           \/ a \in inbox /\ inbox' = inbox \ {a} /\ deleted' = deleted \cup {a}
        /\ Answered(c, FALSE)
        /\ UNCHANGED <<sessionOver, residentVars>>
(* consume() deletes it, or leaves it in quarantine; the load is done.     *)
Consumes(c) ==
    /\ conn[c] = "consuming"
    /\ deleted' \in {deleted, deleted \cup {ArtifactOf[request[c]]}}
    /\ Answered(c, TRUE)
    /\ UNCHANGED <<sessionOver, residentVars, inbox>>

-----------------------------------------------------------------------------
(* Qwen4ResidentStore.  A load keeps the store's lock from the reservation *)
(* to its end.                                                             *)
Reserves(c) ==
    /\ conn[c] = "reserving"
    /\ ~storeHeld
    /\ pool + Needs[request[c]] <= PoolBytes
    /\ pool' = pool + Needs[request[c]]
    /\ storeHeld' = TRUE
    /\ Moves(c, "converting")
    /\ UNCHANGED <<agenda, frame, request, reply, served, busy, gone, cut, answers,
                   mainVars, commandVars, records, quarantine, alive, kept, artifactVars>>
ReservationRefused(c) ==
    /\ conn[c] = "reserving"
    /\ ~storeHeld
    /\ pool + Needs[request[c]] > PoolBytes
    /\ Answered(c, FALSE)
    /\ UNCHANGED <<sessionOver, residentVars, artifactVars>>

GivesBack(c) ==
    /\ storeHeld' = FALSE
    /\ pool' = pool - Needs[request[c]]
    /\ UNCHANGED <<records, quarantine, alive, kept>>
(* A streaming load looks for a cancel and for its client at every tile.   *)
Stopped(c) == Op[request[c]] = "load_numeric_streaming" /\ (signal \/ c \in gone \cup cut)
Converts(c) ==
    /\ conn[c] = "converting"
    /\ ~Stopped(c)
    /\ Moves(c, "converted")
    /\ UNCHANGED <<agenda, frame, request, reply, served, busy, gone, cut, answers,
                   mainVars, commandVars, residentVars, artifactVars>>
(* It is stopped, or the backend raises, and there is no allocation: the   *)
(* reservation goes back.                                                  *)
ConversionFails(c) ==
    /\ conn[c] = "converting"
    /\ GivesBack(c)
    /\ \/ Answered(c, FALSE) /\ UNCHANGED sessionOver
       \/ ~Stopped(c) /\ Escapes(c)
    /\ UNCHANGED artifactVars
(* The evidence is right: the reservation shrinks to the destination.      *)
Retains(c) ==
    /\ conn[c] = "converted"
    /\ storeHeld' = FALSE
    /\ pool' = pool - (Needs[request[c]] - Keeps[request[c]])
    /\ alive' = alive \cup {Allocation(c)}
    /\ records' = records \cup {Allocation(c)}
    /\ kept' = kept \cup {Allocation(c)}
    /\ IF Numeric(request[c])
       THEN /\ Moves(c, "consuming")
            /\ UNCHANGED <<agenda, frame, request, reply, served, busy, gone, cut, answers,
                           mainVars, commandVars>>
       ELSE Answered(c, TRUE) /\ UNCHANGED sessionOver
    /\ UNCHANGED <<quarantine, artifactVars>>
(* It is wrong: the resource is released, or kept in quarantine with the   *)
(* whole reservation.                                                      *)
Discards(c) ==
    /\ conn[c] = "converted"
    /\ GivesBack(c)
    /\ Answered(c, FALSE)
    /\ UNCHANGED <<sessionOver, artifactVars>>
QuarantinesUnreserved(c) ==
    /\ conn[c] = "converted"
    /\ storeHeld' = FALSE
    /\ pool' = pool - Needs[request[c]]
    /\ alive' = alive \cup {Allocation(c)}
    /\ quarantine' = quarantine \cup {Allocation(c)}
    /\ Answered(c, FALSE)
    /\ UNCHANGED <<sessionOver, records, kept, artifactVars>>
Quarantines(c) ==
    /\ conn[c] = "converted"
    /\ storeHeld' = FALSE
    /\ alive' = alive \cup {Allocation(c)}
    /\ quarantine' = quarantine \cup {Allocation(c)}
    /\ Answered(c, FALSE)
    /\ UNCHANGED <<sessionOver, pool, records, kept, artifactVars>>

-----------------------------------------------------------------------------
(* unload, status, retry_quarantine and shutdown.  The release of an       *)
(* unload may raise something uncaught, and a status may be too large for  *)
(* a response.                                                             *)
Unloads(c) ==
    /\ conn[c] = "executing"
    /\ Op[request[c]] = "unload"
    /\ ~storeHeld
    /\ \/ /\ \E freed \in SUBSET Of(Subject[request[c]]) :
                /\ FreesThose(Of(Subject[request[c]]), freed)
                /\ Answered(c, freed # {})
          /\ UNCHANGED sessionOver
       \/ /\ Of(Subject[request[c]]) # {}
          /\ Escapes(c)
          /\ UNCHANGED residentVars
    /\ UNCHANGED artifactVars
ReportsStatus(c) ==
    /\ conn[c] = "executing"
    /\ Op[request[c]] = "status"
    /\ ~storeHeld
    /\ \/ Answered(c, TRUE) /\ UNCHANGED sessionOver
       \/ Escapes(c)
    /\ UNCHANGED <<residentVars, artifactVars>>
RetriesQuarantine(c) ==
    /\ conn[c] = "executing"
    /\ Op[request[c]] = "retry_quarantine"
    /\ ~storeHeld
    /\ \E freed \in SUBSET quarantine : FreesThose(quarantine, freed)
    /\ Answered(c, TRUE)
    /\ UNCHANGED <<sessionOver, artifactVars>>
ShutsDownAnyway(c) ==
    /\ conn[c] = "executing"
    /\ Op[request[c]] = "shutdown"
    /\ ~storeHeld
    /\ \E freed \in SUBSET (records \cup quarantine) :
          FreesThose(records \cup quarantine, freed)
    /\ sessionOver' = TRUE
    /\ Answered(c, TRUE)
    /\ UNCHANGED artifactVars
(* The session is over only if nothing was retained.                       *)
ShutsDown(c) ==
    /\ conn[c] = "executing"
    /\ Op[request[c]] = "shutdown"
    /\ ~storeHeld
    /\ \E freed \in SUBSET (records \cup quarantine) :
          /\ FreesThose(records \cup quarantine, freed)
          /\ sessionOver' = (freed = records \cup quarantine)
          /\ Answered(c, freed = records \cup quarantine)
    /\ UNCHANGED artifactVars

HandlesCommand(c) ==
    \/ HandlesCancel(c)
    \/ Replays(c)
    \/ Refuses(c)
    \/ Executes(c)
    \/ Claims(c)
    \/ ClaimFails(c)
    \/ Consumes(c)
    \/ Reserves(c)
    \/ ReservationRefused(c)
    \/ Converts(c)
    \/ ConversionFails(c)
    \/ Retains(c)
    \/ Discards(c)
    \/ Quarantines(c)
    \/ Unloads(c)
    \/ ReportsStatus(c)
    \/ RetriesQuarantine(c)
    \/ ShutsDown(c)

ServesConnection(c) ==
    \/ Registers(c)
    \/ ChecksClosed(c)
    \/ SeesClosed(c)
    \/ Receives(c)
    \/ ReceivesEnd(c)
    \/ MarksBusy(c)
    \/ HandlesCommand(c)
    \/ Delivers(c)
    \/ DeliversLast(c)
    \/ DeliveryFails(c)
    \/ InterruptsOthers(c)

RuntimeNext ==
    \/ MainStep
    \/ MainAborts
    \/ \E c \in Connections :
          \/ Accepts(c)
          \/ \E r \in Commands : ClientSends(c, r)
          \/ Disconnects(c)
          \/ ServesConnection(c)
          \/ ReceiveFails(c)

(* Threads are scheduled, a lock that stays free is taken, a conversion    *)
(* and a join end.  Nothing is assumed of the clients or of the read       *)
(* timeout.                                                                *)
RuntimeFairness ==
    /\ WF_runtimeVars(MainStep)
    /\ \A c \in Connections : WF_runtimeVars(ServesConnection(c))

RuntimeSpec == RuntimeInit /\ [][RuntimeNext]_runtimeVars /\ RuntimeFairness

-----------------------------------------------------------------------------
Responses == [command : Commands, passed : BOOLEAN]

WireTypeOK ==
    /\ agenda \in [Connections -> SUBSET Commands]
    /\ conn \in [Connections -> {"unopened", "accepted", "checking", "receiving",
          "received", "cancelling", "waiting", "claiming", "reserving", "converting",
          "converted", "consuming", "executing", "sending", "interrupting", "ended"}]
    /\ frame \in [Connections -> Commands \cup {NoCommand}]
    /\ request \in [Connections -> Commands \cup {NoCommand}]
    /\ reply \in [Connections -> Responses \cup {NoCommand}]
    /\ served \in [Connections -> 0 .. MaxCommands]
    /\ busy \subseteq Connections /\ gone \subseteq Connections /\ cut \subseteq Connections
    /\ answers \in [Commands -> SUBSET Responses]
    /\ main \in {"serving", "joining", "closing", "releasing", "ended"}
    /\ aborted \in BOOLEAN
ServiceTypeOK ==
    /\ holder \in Connections \cup {NoCommand}
    /\ signal \in BOOLEAN
    /\ lastSeq \in Nat
    /\ replays \in Seq(Responses) /\ Len(replays) <= MaxCached
    /\ sessionOver \in BOOLEAN
    /\ runs \in [Commands -> Nat]
StoreTypeOK ==
    /\ storeHeld \in BOOLEAN
    /\ records \cup quarantine \cup alive \cup kept \subseteq Loads \X Nat
    /\ pool \in 0 .. PoolBytes
    /\ inbox \cup deleted \subseteq Artifacts
RuntimeTypeOK == WireTypeOK /\ ServiceTypeOK /\ StoreTypeOK

(* Whatever clients replay or race for, a sequence number and an artifact  *)
(* each make at most one resident tensor, also when the cached response is *)
(* gone or the client never got it; and an artifact that made one, or of   *)
(* which no copy is left, is not in the inbox for another load to find.    *)
LoadsOnce ==
    /\ \A a, b \in kept : Sequence[a[1]] = Sequence[b[1]] => a = b
    /\ \A a, b \in kept :
          Numeric(a[1]) /\ Numeric(b[1]) /\ ArtifactOf[a[1]] = ArtifactOf[b[1]] => a = b
    /\ \A a \in kept : Numeric(a[1]) => ArtifactOf[a[1]] \notin inbox
    /\ deleted \cap inbox = {}

(* All answers to one command are the same, its own, and a load was        *)
(* answered as passed exactly if it made a tensor: a client that lost the  *)
(* first answer and asks again, on any connection, learns what really      *)
(* happened.                                                               *)
AnswersAgree ==
    /\ \A r \in Commands : \A x, y \in answers[r] : x = y /\ x.command = r
    /\ \A r \in Loads : \A x \in answers[r] : x.passed <=> \E a \in kept : a[1] = r

(* The admission's count is what is really held: resident tensors their    *)
(* destination, quarantined and converting ones everything; and every      *)
(* resource of the backend is in one of the two tables.                    *)
MemoryAccounted ==
    /\ pool = TotalBytes(records, Keeps) + TotalBytes(quarantine, Needs)
                 + (IF storeHeld THEN Needs[request[holder]] ELSE 0)
    /\ pool <= PoolBytes
    /\ alive = records \cup quarantine
    /\ records \cap quarantine = {}

(* A session that answered its shutdown holds nothing, and never will      *)
(* again, although connections accepted earlier still carry commands.      *)
SessionOverHoldsNothing == sessionOver => alive = {} /\ pool = 0 /\ holder = NoCommand

(* After a shutdown every connection's thread ends by itself, though its   *)
(* client neither sends nor disconnects: the one that shut down interrupts *)
(* the others, or main does when that answer could not be sent.            *)
SessionEnds ==
    sessionOver ~> aborted \/ \A c \in Connections : conn[c] \in {"unopened", "ended"}
=============================================================================
