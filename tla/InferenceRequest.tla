--------------------------- MODULE InferenceRequest ---------------------------
(***************************************************************************)
(* The side of a chat request that both owner engines share: the request   *)
(* context with its deadline and its disconnect signal                     *)
(* (inference_request.py), the finish() of a queued command, and the HTTP  *)
(* handler that gives the lease back (api.py).                             *)
(*                                                                         *)
(* A command's finish() sets its done event and then the result of its     *)
(* completion future; the waiting handler reads done first and never the   *)
(* future after it, so the pair is one step here.                          *)
(***************************************************************************)
EXTENDS Naturals, FiniteSets

CONSTANTS
    Requests,     \* the chat requests
    None          \* no request

ASSUME RequestAssumption == None \notin Requests

VARIABLES
    lease,       \* the scheduler reservation and the bytes of a request
    context,     \* "live", "gone" (client disconnected) or "expired"
    client,      \* where the handler thread of the request is
    finished,    \* how often finish() was called on its command
    watching,    \* requests whose lease waits for the completion future
    constructor, \* where __init__ is: it starts the owner and waits for it
    closed,      \* _closed is set
    closer       \* where close() is

requestVars == <<lease, context, client, finished, watching>>
lifeVars == <<constructor, closed, closer>>

Contexts == {"live", "gone", "expired"}
Leases == {"none", "held", "released"}

RequestTypeOK ==
    /\ lease \in [Requests -> Leases]
    /\ context \in [Requests -> Contexts]
    /\ finished \in [Requests -> Nat]
    /\ watching \subseteq Requests

RequestInit ==
    /\ lease = [r \in Requests |-> "none"]
    /\ context = [r \in Requests |-> "live"]
    /\ client = [r \in Requests |-> "idle"]
    /\ finished = [r \in Requests |-> 0]
    /\ watching = {}
    /\ constructor = "waiting"
    /\ closed = FALSE
    /\ closer = "open"

(* raise_if_cancelled raises.                                              *)
Cancelled(r) == context[r] # "live"

(* The handler admits the request and calls the engine with its context.   *)
Admit(r) ==
    /\ client[r] = "idle"
    /\ client' = [client EXCEPT ![r] = "admitted"]
    /\ lease' = [lease EXCEPT ![r] = "held"]
    /\ UNCHANGED <<context, finished, watching>>

(* The client closes its connection, or the deadline passes.               *)
Interrupt(r) ==
    /\ client[r] \notin {"idle", "left"}
    /\ context[r] = "live"
    /\ \E c \in {"gone", "expired"} : context' = [context EXCEPT ![r] = c]
    /\ UNCHANGED <<lease, client, finished, watching>>

(* The engine call returns, or raises without a completion future: the     *)
(* handler's finally block releases at once.                               *)
Leave(r) ==
    /\ client' = [client EXCEPT ![r] = "left"]
    /\ lease' = [lease EXCEPT ![r] = "released"]
    /\ UNCHANGED <<context, finished, watching>>

(* The engine call raises InferenceRequestCancelled with the completion    *)
(* future: the release is its done callback, called at once if it is done. *)
LeaveOnCompletion(r) ==
    /\ client' = [client EXCEPT ![r] = "left"]
    /\ IF finished[r] > 0
       THEN lease' = [lease EXCEPT ![r] = "released"] /\ UNCHANGED watching
       ELSE watching' = watching \cup {r} /\ UNCHANGED lease
    /\ UNCHANGED <<context, finished>>

(* finish() of the command; it runs the callback of a request that left.   *)
(* A second set_result would raise InvalidStateError in its caller.        *)
FinishSilently(r) ==
    /\ finished' = [finished EXCEPT ![r] = @ + 1]
    /\ UNCHANGED <<lease, watching, context, client>>
Finish(r) ==
    /\ finished' = [finished EXCEPT ![r] = @ + 1]
    /\ IF r \in watching
       THEN lease' = [lease EXCEPT ![r] = "released"] /\ watching' = watching \ {r}
       ELSE UNCHANGED <<lease, watching>>
    /\ UNCHANGED <<context, client>>

-----------------------------------------------------------------------------
(* Whoever removes a command from its queue or table finishes it, and      *)
(* nobody else does: finish() is called at most once, although the owner,  *)
(* a sweep of cancelled commands, a response, a dying child and close()    *)
(* all call it (a second call raises in the engine's own thread).          *)
FinishedOnce == \A r \in Requests : finished[r] <= 1

(* Every admitted request gives its lease back in the end.                 *)
LeaseReturns ==
    \A r \in Requests : lease[r] = "held" ~> lease[r] = "released"
=============================================================================
