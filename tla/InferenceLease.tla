---------------------------- MODULE InferenceLease ----------------------------
(***************************************************************************)
(* What an inference engine promises to the admission control in front of  *)
(* it.  A request is admitted with a lease: its scheduler reservation and  *)
(* its share of the request bytes.  The lease may go back as soon as no    *)
(* native execution of the request is under way and none can begin any     *)
(* more; a request that was cancelled or timed out gives it back no        *)
(* earlier ("Release once after native completion", api.py).  A request    *)
(* executes at most once.                                                  *)
(***************************************************************************)
CONSTANT Requests

VARIABLES
    lease,      \* per request: "none", "held" or "released"
    execution   \* per request: "none", "running" or "over"

leaseVars == <<lease, execution>>

LeaseTypeOK ==
    /\ lease \in [Requests -> {"none", "held", "released"}]
    /\ execution \in [Requests -> {"none", "running", "over"}]

LeaseInit ==
    /\ lease = [r \in Requests |-> "none"]
    /\ execution = [r \in Requests |-> "none"]

Grant(r) ==
    /\ lease[r] = "none"
    /\ lease' = [lease EXCEPT ![r] = "held"]
    /\ UNCHANGED execution

Begin(r) ==
    /\ lease[r] = "held"
    /\ execution[r] = "none"
    /\ execution' = [execution EXCEPT ![r] = "running"]
    /\ UNCHANGED lease

(* The native call returned, or its process died.                          *)
End(r) ==
    /\ execution[r] = "running"
    /\ execution' = [execution EXCEPT ![r] = "over"]
    /\ UNCHANGED lease

Return(r) ==
    /\ lease[r] = "held"
    /\ execution[r] # "running"
    /\ lease' = [lease EXCEPT ![r] = "released"]
    /\ UNCHANGED execution

LeaseNext == \E r \in Requests : Grant(r) \/ Begin(r) \/ End(r) \/ Return(r)

LeaseSpec == LeaseInit /\ [][LeaseNext]_leaseVars

(* No native execution outlives the lease it was admitted with.            *)
LeaseCovers == \A r \in Requests : execution[r] = "running" => lease[r] = "held"
=============================================================================
