---------------------------- MODULE ScheduleQueue ----------------------------
(***************************************************************************)
(* PriorityScheduleQueue of vllm_apple/scheduler.py: the bounded priority  *)
(* queue in front of the scheduler.  Every method body runs under the      *)
(* queue's condition, so a method is one action.                           *)
(*                                                                         *)
(* The heap is a SET of (rank, sequence, token) entries: heapq only ever   *)
(* pops the least one, and sequence numbers are unique, so the layout of   *)
(* the list cannot be observed.  A cancelled token keeps its heap entry as *)
(* a tombstone until a consumer pops it or a cancel compacts the heap.     *)
(* Tokens are uuid4 values: a token is enqueued at most once.              *)
(***************************************************************************)
EXTENDS Integers, FiniteSets

CONSTANTS
    Tokens,        \* the tokens enqueue may hand out
    Ranks,         \* the priority ranks in use (0 = REALTIME .. 3 = BACKGROUND)
    MaxRequests,   \* maximum_requests of the queue
    Slack          \* tombstones tolerated before a rebuild (64 in the code)

ASSUME QueueAssumption ==
    /\ IsFiniteSet(Tokens)
    /\ Ranks \subseteq 0..3
    /\ MaxRequests \in Nat \ {0}
    /\ Slack \in Nat

VARIABLES
    queued,    \* keys of _requests
    claimed,   \* _claimed
    entry,     \* _claim_entries: the heap entry a claimed token came from
    heap,      \* _heap
    sequence,  \* _sequence
    stamped,   \* keys of _enqueued_ns
    arrival    \* the entry each token was enqueued with (history)

queueVars == <<queued, claimed, entry, heap, sequence, stamped, arrival>>

NoEntry == [rank |-> 0, seq |-> -1]
Positions == [rank : Ranks, seq : Nat]

QueueTypeOK ==
    /\ queued \subseteq Tokens
    /\ claimed \subseteq Tokens
    /\ stamped \subseteq Tokens
    /\ entry \in [Tokens -> Positions \cup {NoEntry}]
    /\ arrival \in [Tokens -> Positions \cup {NoEntry}]
    /\ heap \subseteq [rank : Ranks, seq : Nat, token : Tokens]
    /\ sequence \in Nat

QueueInit ==
    /\ queued = {}
    /\ claimed = {}
    /\ stamped = {}
    /\ entry = [t \in Tokens |-> NoEntry]
    /\ arrival = [t \in Tokens |-> NoEntry]
    /\ heap = {}
    /\ sequence = 0

-----------------------------------------------------------------------------
(* Heap order: lower rank first, then the order of arrival.                *)
Before(e, f) == e.rank < f.rank \/ (e.rank = f.rank /\ e.seq < f.seq)
IsLive(e) == e.token \in queued
Tombstones == {e \in heap : ~IsLive(e)}

(* The entry a pop loop reaches: everything before it is a tombstone.      *)
IsHead(e) ==
    /\ e \in heap
    /\ IsLive(e)
    /\ \A f \in heap : IsLive(f) => (f = e \/ Before(e, f))
(* The request peek returns.                                               *)
AtHead(t) == \E e \in heap : IsHead(e) /\ e.token = t
(* What popping dead entries leaves, in peek, claim_head and dequeue.      *)
Trimmed == {e \in heap : \E f \in heap : IsLive(f) /\ (f = e \/ Before(f, e))}

Fresh(t) == arrival[t] = NoEntry
Full == Cardinality(queued) + Cardinality(claimed) >= MaxRequests

Enqueue(t, rank) ==
    /\ Fresh(t)
    /\ ~Full
    /\ queued' = queued \cup {t}
    /\ stamped' = stamped \cup {t}
    /\ heap' = heap \cup {[rank |-> rank, seq |-> sequence, token |-> t]}
    /\ arrival' = [arrival EXCEPT ![t] = [rank |-> rank, seq |-> sequence]]
    /\ sequence' = sequence + 1
    /\ UNCHANGED <<claimed, entry>>

CompactedClears(live) == IF Cardinality(heap) > 2 * Cardinality(live) + Slack
                         THEN {} ELSE heap
Compacted(live) ==
    IF live = {} THEN {}
    ELSE IF Cardinality(heap) > 2 * Cardinality(live) + Slack
         THEN {e \in heap : e.token \in live}
         ELSE heap

(* cancel of a token still waiting; the compaction is part of it.          *)
CancelQueued(t) ==
    /\ t \in queued
    /\ queued' = queued \ {t}
    /\ stamped' = stamped \ {t}
    /\ heap' = Compacted(queued \ {t})
    /\ UNCHANGED <<claimed, entry, sequence, arrival>>

(* cancel of a token some worker has claimed and not yet finished.         *)
CancelClaimed(t) ==
    /\ t \in claimed
    /\ claimed' = claimed \ {t}
    /\ entry' = [entry EXCEPT ![t] = NoEntry]
    /\ stamped' = stamped \ {t}
    /\ UNCHANGED <<queued, heap, sequence, arrival>>

QueueCancel(t) == CancelQueued(t) \/ CancelClaimed(t)
QueueCancelFails(t) == t \notin queued \cup claimed

FinishClaimKeepsStamp(t) ==
    /\ t \in claimed
    /\ claimed' = claimed \ {t}
    /\ entry' = [entry EXCEPT ![t] = NoEntry]
    /\ UNCHANGED <<queued, heap, sequence, arrival, stamped>>
FinishClaim(t) ==
    /\ t \in claimed
    /\ claimed' = claimed \ {t}
    /\ entry' = [entry EXCEPT ![t] = NoEntry]
    /\ stamped' = stamped \ {t}
    /\ UNCHANGED <<queued, heap, sequence, arrival>>

(* restore_claim returns a capacity-blocked claim to its original place.   *)
RestoreClaimAtTail(t) ==
    /\ t \in claimed
    /\ claimed' = claimed \ {t}
    /\ entry' = [entry EXCEPT ![t] = NoEntry]
    /\ queued' = queued \cup {t}
    /\ heap' = heap \cup {[rank |-> entry[t].rank, seq |-> sequence, token |-> t]}
    /\ sequence' = sequence + 1
    /\ UNCHANGED <<stamped, arrival>>
RestoreClaimAfterClear(t) ==
    /\ t \in claimed
    /\ claimed' = claimed \ {t}
    /\ entry' = [entry EXCEPT ![t] = NoEntry]
    /\ queued' = queued \cup {t}
    /\ heap' = heap \cup {[rank |-> entry'[t].rank, seq |-> entry'[t].seq, token |-> t]}
    /\ UNCHANGED <<stamped, sequence, arrival>>
RestoreClaim(t) ==
    /\ t \in claimed
    /\ claimed' = claimed \ {t}
    /\ entry' = [entry EXCEPT ![t] = NoEntry]
    /\ queued' = queued \cup {t}
    /\ heap' = heap \cup {[rank |-> entry[t].rank, seq |-> entry[t].seq, token |-> t]}
    /\ UNCHANGED <<stamped, sequence, arrival>>

(* dequeue pops through the tombstones and claims the first live entry;    *)
(* claim_head does the same for a token it expects at the head.            *)
ClaimHead(t) ==
    \E e \in heap :
        /\ IsHead(e)
        /\ e.token = t
        /\ heap' = Trimmed \ {e}
        /\ queued' = queued \ {t}
        /\ claimed' = claimed \cup {t}
        /\ entry' = [entry EXCEPT ![t] = [rank |-> e.rank, seq |-> e.seq]]
        /\ UNCHANGED <<stamped, sequence, arrival>>

(* dequeue with nothing live pops every tombstone and returns None;        *)
(* peek, and a claim_head that lost the head, only drop dead entries.      *)
TrimHeap ==
    /\ heap' = Trimmed
    /\ UNCHANGED <<queued, claimed, entry, sequence, stamped, arrival>>

QueueNext ==
    \/ \E t \in Tokens, r \in Ranks : Enqueue(t, r)
    \/ \E t \in Tokens : CancelQueued(t)
    \/ \E t \in Tokens : CancelClaimed(t)
    \/ \E t \in Tokens : ClaimHead(t)
    \/ \E t \in Tokens : FinishClaim(t)
    \/ \E t \in Tokens : RestoreClaim(t)
    \/ TrimHeap

QueueSpec == QueueInit /\ [][QueueNext]_queueVars

-----------------------------------------------------------------------------
(* enqueue's capacity check holds back restored claims too: waiting and    *)
(* claimed requests together never exceed maximum_requests.                *)
QueueBounded == Cardinality(queued) + Cardinality(claimed) <= MaxRequests

(* Every waiting request can still be dequeued: no compaction, trim or     *)
(* restore loses the heap entry of a live request, or gives it another     *)
(* place than the one it was enqueued at.                                  *)
WaitingIsReachable ==
    \A t \in queued :
        [rank |-> arrival[t].rank, seq |-> arrival[t].seq, token |-> t] \in heap

(* _compact_cancelled_locked: "Bound tombstones even when no consumer      *)
(* drains the priority heap".  However cancels, claims and restores        *)
(* interleave, dead entries stay below one queue plus the slack.           *)
TombstonesBounded == Cardinality(Tombstones) < MaxRequests + Slack

(* A token is waiting or claimed, never both, and exactly these tokens     *)
(* have an enqueue timestamp: no path out of the queue leaks one.          *)
QueuePartition ==
    /\ queued \cap claimed = {}
    /\ stamped = queued \cup claimed
    /\ \A t \in Tokens : t \in claimed <=> entry[t] # NoEntry

(* A claim always takes the waiting request of the best priority, first    *)
(* come first served within one, also after claims were restored.          *)
ServedInOrder ==
    [][\A t \in claimed' \ claimed :
          \A u \in queued \ {t} : Before(arrival[t], arrival[u])]_queueVars
=============================================================================
