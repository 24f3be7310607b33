----------------------------- MODULE DeviceLedger -----------------------------
(***************************************************************************)
(* UnifiedDeviceResourceLedger of vllm_apple/device_resources.py: atomic   *)
(* accounting of unified memory, CPU threads, GPU command queues, ANE      *)
(* tasks and bandwidth slots.  Every method runs under the ledger's lock,  *)
(* so a method is one action.  Reservation ids are uuid4 values; here an   *)
(* id names the holder that will release it.                               *)
(***************************************************************************)
EXTENDS Integers, FiniteSets

CONSTANTS
    ResIds,         \* reservation ids
    Backends,       \* ExecutionBackend
    CPU,            \* ExecutionBackend.CPU
    GPUs,           \* VLLM_METAL, NATIVE_MLX, NATIVE_METAL
    ANEs,           \* COREML_DRAFT
    MaxBytes,       \* largest memory demand of one request
    Capacity        \* _capacity, one number per dimension

Dimensions == {"memory", "cpu", "gpu", "ane", "bandwidth"}

ASSUME LedgerAssumption ==
    /\ IsFiniteSet(ResIds)
    /\ CPU \in Backends
    /\ GPUs \subseteq Backends \ {CPU}
    /\ ANEs \subseteq Backends \ (GPUs \cup {CPU})
    /\ MaxBytes \in Nat
    /\ Capacity \in [Dimensions -> Nat]
    /\ Capacity["cpu"] > 0 /\ Capacity["bandwidth"] > 0

VARIABLES
    used,       \* _used
    live,       \* keys of _reservations
    request,    \* _reservations: the request of a live id
    qualified   \* _qualified_pairs

ledgerVars == <<used, live, request, qualified>>

(* DeviceResourceRequest.for_backend: the demand of a backend is fixed but *)
(* for its bytes, so a request is a backend and a number of bytes.         *)
Requests == [backend : Backends, bytes : 0..MaxBytes]
ForBackend(b, n) == [backend |-> b, bytes |-> n]
Demand(r) ==
    [d \in Dimensions |->
        CASE d = "memory" -> r.bytes
          [] d = "cpu" -> IF r.backend = CPU THEN 1 ELSE 0
          [] d = "gpu" -> IF r.backend \in GPUs THEN 1 ELSE 0
          [] d = "ane" -> IF r.backend \in ANEs THEN 1 ELSE 0
          [] d = "bandwidth" -> 1]

(* The sum of f over S, for values up to n: the size of a set with f[i]    *)
(* elements for each i.                                                    *)
Blocks(S, f, n) == {p \in S \X (1..n) : p[2] <= f[p[1]]}
SumOver(S, f, n) == Cardinality(Blocks(S, f, n))
MaxDemand == MaxBytes + 1   \* no request asks for more of anything

NoRequest == [backend |-> CPU, bytes |-> 0]
Pairs == {s \in SUBSET Backends : Cardinality(s) = 2}

LedgerTypeOK ==
    /\ used \in [Dimensions -> Int]
    /\ live \subseteq ResIds
    /\ request \in [ResIds -> Requests]
    /\ qualified \subseteq Pairs

LedgerInit ==
    /\ used = [d \in Dimensions |-> 0]
    /\ live = {}
    /\ request = [i \in ResIds |-> NoRequest]
    /\ qualified = {}

-----------------------------------------------------------------------------
ActiveBackends(ids) == {request[i].backend : i \in ids}
Qualified(a, b) == {a, b} \in qualified
CoRunnable(b, actives) == \A a \in actives : a = b \/ Qualified(a, b)
(* exhausted: the dimensions a demand would push over capacity are none.   *)
FitsMemoryOnly(base, demand) == base["memory"] + demand["memory"] <= Capacity["memory"]
Fits(base, demand) == \A d \in Dimensions : base[d] + demand[d] <= Capacity[d]
Plus(f, g) == [d \in Dimensions |-> f[d] + g[d]]
Minus(f, g) == [d \in Dimensions |-> f[d] - g[d]]

(* can_steal: the source is busy, the target is idle, the pair qualified.  *)
CanSteal(source, target) ==
    /\ source \in ActiveBackends(live)
    /\ target \notin ActiveBackends(live)
    /\ Qualified(source, target)

CanReserve(r) == CoRunnable(r.backend, ActiveBackends(live)) /\ Fits(used, Demand(r))

(* reserve that succeeds; a DeviceResourceCapacityError changes nothing.   *)
Reserve(i, r) ==
    /\ i \notin live
    /\ CanReserve(r)
    /\ used' = Plus(used, Demand(r))
    /\ live' = live \cup {i}
    /\ request' = [request EXCEPT ![i] = r]
    /\ UNCHANGED qualified

(* reserve_many: two or three distinct backends, all or nothing.  rs maps  *)
(* the ids it hands out to their requests.                                 *)
Combined(rs, d) == SumOver(DOMAIN rs, [i \in DOMAIN rs |-> Demand(rs[i])[d]], MaxDemand)
Distinct(rs) == \A i, j \in DOMAIN rs : i # j => rs[i].backend # rs[j].backend
CanReserveManyUnqualified(rs) ==
    /\ Cardinality(DOMAIN rs) \in 2..3
    /\ Distinct(rs)
    /\ \A a \in ActiveBackends(live), i \in DOMAIN rs :
          a = rs[i].backend \/ Qualified(a, rs[i].backend)
    /\ Fits(used, [d \in Dimensions |-> Combined(rs, d)])
CanReserveMany(rs) ==
    LET all == ActiveBackends(live) \cup {rs[i].backend : i \in DOMAIN rs}
    IN  /\ Cardinality(DOMAIN rs) \in 2..3
        /\ Distinct(rs)
        /\ \A a, b \in all : a # b => Qualified(a, b)
        /\ Fits(used, [d \in Dimensions |-> Combined(rs, d)])
ReserveMany(rs) ==
    /\ DOMAIN rs \cap live = {}
    /\ CanReserveMany(rs)
    /\ used' = Plus(used, [d \in Dimensions |-> Combined(rs, d)])
    /\ live' = live \cup DOMAIN rs
    /\ request' = [i \in ResIds |-> IF i \in DOMAIN rs THEN rs[i] ELSE request[i]]
    /\ UNCHANGED qualified

(* transfer: the fallback backend replaces the previous one in one step.   *)
CanTransfer(i, r) ==
    /\ CoRunnable(r.backend, ActiveBackends(live \ {i}))
    /\ Fits(Minus(used, Demand(request[i])), Demand(r))
TransferKeepsOld(i, r) ==
    /\ i \in live
    /\ CanTransfer(i, r)
    /\ used' = Plus(used, Demand(r))
    /\ request' = [request EXCEPT ![i] = r]
    /\ UNCHANGED <<live, qualified>>
Transfer(i, r) ==
    /\ i \in live
    /\ CanTransfer(i, r)
    /\ used' = Plus(Minus(used, Demand(request[i])), Demand(r))
    /\ request' = [request EXCEPT ![i] = r]
    /\ UNCHANGED <<live, qualified>>

(* release; of an id that is not live it returns False.                    *)
Release(i) ==
    /\ i \in live
    /\ used' = Minus(used, Demand(request[i]))
    /\ live' = live \ {i}
    /\ request' = [request EXCEPT ![i] = NoRequest]
    /\ UNCHANGED qualified

(* install_contention_evidence of qualified evidence for this profile.     *)
InstallEvidenceOfOne(pair) ==
    /\ \E b \in pair : qualified' = qualified \cup {{b}}
    /\ UNCHANGED <<used, live, request>>
InstallEvidence(pair) ==
    /\ qualified' = qualified \cup {pair}
    /\ UNCHANGED <<used, live, request>>

(* replace_contention_evidence: a nonempty set of distinct pairs.          *)
ReplaceEvidence(pairs) ==
    /\ pairs # {}
    /\ qualified' = pairs
    /\ UNCHANGED <<used, live, request>>

ManyRequests == UNION {[S -> Requests] : S \in {T \in SUBSET ResIds : Cardinality(T) \in 2..3}}

LedgerNext ==
    \/ \E i \in ResIds, r \in Requests : Reserve(i, r)
    \/ \E rs \in ManyRequests : ReserveMany(rs)
    \/ \E i \in ResIds, r \in Requests : Transfer(i, r)
    \/ \E i \in ResIds : Release(i)
    \/ \E p \in Pairs : InstallEvidence(p)
    \/ \E ps \in SUBSET Pairs : ReplaceEvidence(ps)

LedgerSpec == LedgerInit /\ [][LedgerNext]_ledgerVars

-----------------------------------------------------------------------------
(* What the live reservations ask for in dimension d.                      *)
DemandOf(d) == [i \in ResIds |-> Demand(request[i])[d]]
LiveDemand(d) == SumOver(live, DemandOf(d), MaxDemand)

(* The incremental counters are exactly what the live reservations ask     *)
(* for, whatever sequence of reserve, reserve_many, transfer and release   *)
(* led here: a transfer neither keeps the old demand nor loses the new.    *)
UsedIsLiveDemand == \A d \in Dimensions : used[d] = LiveDemand(d)

(* No dimension is ever overcommitted, by groups and transfers included.   *)
NoOvercommit == \A d \in Dimensions : used[d] \in 0..Capacity[d]

(* Evidence only ever admits: a step that adds work next to running work   *)
(* leaves every pair of distinct running backends qualified, given that    *)
(* it was so before.  (Replacing the evidence may revoke a running pair.)  *)
CoRunning == \A a, b \in ActiveBackends(live) : a # b => Qualified(a, b)
AdmissionKeepsCoRunning ==
    [][(CoRunning /\ qualified' = qualified) => CoRunning']_ledgerVars
=============================================================================
