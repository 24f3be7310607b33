------------------------- MODULE QueueLedgerProofs -------------------------
(***************************************************************************)
(* What the two data structures of the scheduler guarantee on their own:   *)
(* the schedule queue for every set of tokens, capacity and slack, and     *)
(* the device ledger for every set of ids and backends, every capacity     *)
(* and every demand.                                                       *)
(***************************************************************************)
EXTENDS ScheduleQueue, DeviceLedger, FiniteSetTheorems, TLAPS

-----------------------------------------------------------------------------
(* The schedule queue.                                                     *)

(* The inductive invariant.  The stated properties are not inductive: that *)
(* a claim puts nothing dead into the heap, or that a restored entry is    *)
(* the one its token was enqueued with, needs to be known of every entry.  *)
HeapIsArrival ==
    /\ \A e \in heap : arrival[e.token] = [rank |-> e.rank, seq |-> e.seq]
    /\ \A e \in heap : e.token \notin claimed
ClaimIsArrival == \A t \in claimed : entry[t] = arrival[t]
KnownArrived == \A t \in queued \cup claimed : arrival[t] # NoEntry

QueueInv ==
    /\ QueueTypeOK
    /\ IsFiniteSet(heap)
    /\ HeapIsArrival
    /\ ClaimIsArrival
    /\ KnownArrived
    /\ QueuePartition
    /\ WaitingIsReachable
    /\ QueueBounded
    /\ TombstonesBounded

LEMMA QueueInvInit == QueueInit => QueueInv
<1> SUFFICES ASSUME QueueInit PROVE QueueInv
  OBVIOUS
<1> USE QueueAssumption DEF QueueInit
<1>1. IsFiniteSet({}) /\ Cardinality({}) = 0
  BY FS_EmptySet
<1>2. QueueTypeOK
  BY DEF QueueTypeOK
<1>3. HeapIsArrival /\ ClaimIsArrival /\ KnownArrived /\ WaitingIsReachable
  BY DEF HeapIsArrival, ClaimIsArrival, KnownArrived, WaitingIsReachable
<1>4. QueuePartition
  BY DEF QueuePartition
<1>5. Tombstones = {}
  BY DEF Tombstones
<1>6. QueueBounded /\ TombstonesBounded
  BY <1>1, <1>5 DEF QueueBounded, TombstonesBounded
<1> QED
  BY <1>1, <1>2, <1>3, <1>4, <1>6 DEF QueueInv

(* Everything but the two cardinality bounds is set reasoning.             *)
QueueShape ==
    /\ QueueTypeOK /\ HeapIsArrival /\ ClaimIsArrival /\ KnownArrived
    /\ QueuePartition /\ WaitingIsReachable

LEMMA EnqueueShape ==
  ASSUME QueueShape, NEW t \in Tokens, NEW r \in Ranks, Enqueue(t, r)
  PROVE  QueueShape' /\ Tombstones' \subseteq Tombstones
<1> USE QueueAssumption DEF QueueShape, Enqueue, Fresh, Positions, NoEntry
<1>1. QueueTypeOK'
  BY DEF QueueTypeOK
<1>2. \A e \in heap : e.token # t
  <2> SUFFICES ASSUME NEW e \in heap, e.token = t PROVE FALSE
    OBVIOUS
  <2>1. e.seq \in Nat
    BY DEF QueueTypeOK
  <2>2. [rank |-> e.rank, seq |-> e.seq] = [rank |-> 0, seq |-> -1]
    BY DEF HeapIsArrival
  <2>3. e.seq = -1
    BY <2>2
  <2> QED
    BY <2>1, <2>3
<1>3. HeapIsArrival'
  <2> SUFFICES ASSUME NEW e \in heap'
               PROVE  /\ arrival'[e.token] = [rank |-> e.rank, seq |-> e.seq]
                      /\ e.token \notin claimed'
    BY DEF HeapIsArrival
  <2>1. CASE e \in heap
    BY <1>2, <2>1 DEF QueueTypeOK, HeapIsArrival
  <2>2. CASE e = [rank |-> r, seq |-> sequence, token |-> t]
    <3>1. t \notin claimed
      BY DEF KnownArrived
    <3> QED
      BY <2>2, <3>1 DEF QueueTypeOK
  <2> QED
    BY <2>1, <2>2
<1>4. ClaimIsArrival' /\ KnownArrived'
  BY DEF QueueTypeOK, ClaimIsArrival, KnownArrived
<1>5. QueuePartition'
  BY DEF QueueTypeOK, QueuePartition, KnownArrived
<1>6. WaitingIsReachable'
  BY DEF QueueTypeOK, WaitingIsReachable
<1>7. Tombstones' \subseteq Tombstones
  BY DEF Tombstones, IsLive
<1> QED
  BY <1>1, <1>3, <1>4, <1>5, <1>6, <1>7

(* A cancel may leave the cancelled entry behind as a tombstone.           *)
LEMMA CancelQueuedShape ==
  ASSUME QueueShape, NEW t \in Tokens, CancelQueued(t)
  PROVE  QueueShape'
<1> USE QueueAssumption DEF QueueShape, CancelQueued, Compacted, Positions, NoEntry
<1>1. heap' \subseteq heap /\ (\A e \in heap : e.token \in queued' => e \in heap')
  OBVIOUS
<1>2. QueueTypeOK' /\ HeapIsArrival' /\ ClaimIsArrival' /\ KnownArrived'
  BY <1>1 DEF QueueTypeOK, HeapIsArrival, ClaimIsArrival, KnownArrived
<1>3. QueuePartition'
  BY DEF QueueTypeOK, QueuePartition
<1>4. WaitingIsReachable'
  BY <1>1 DEF QueueTypeOK, WaitingIsReachable
<1> QED
  BY <1>2, <1>3, <1>4

LEMMA LeaveClaimShape ==
  ASSUME QueueShape, NEW t \in Tokens, CancelClaimed(t) \/ FinishClaim(t)
  PROVE  QueueShape' /\ Tombstones' = Tombstones
<1> USE QueueAssumption DEF QueueShape, CancelClaimed, FinishClaim, Positions, NoEntry
<1>1. QueueTypeOK' /\ HeapIsArrival' /\ ClaimIsArrival' /\ KnownArrived'
  BY DEF QueueTypeOK, HeapIsArrival, ClaimIsArrival, KnownArrived
<1>2. QueuePartition'
  BY DEF QueueTypeOK, QueuePartition
<1>3. WaitingIsReachable' /\ Tombstones' = Tombstones
  BY DEF QueueTypeOK, WaitingIsReachable, Tombstones, IsLive
<1> QED
  BY <1>1, <1>2, <1>3

LEMMA RestoreShape ==
  ASSUME QueueShape, NEW t \in Tokens, RestoreClaim(t)
  PROVE  QueueShape' /\ Tombstones' \subseteq Tombstones
<1> USE QueueAssumption DEF QueueShape, RestoreClaim, Positions, NoEntry
<1>1. entry[t] = arrival[t] /\ entry[t] \in [rank : Ranks, seq : Nat] /\ t \in claimed
  BY DEF QueueTypeOK, ClaimIsArrival, KnownArrived
<1>2. QueueTypeOK'
  BY <1>1 DEF QueueTypeOK
<1>3. HeapIsArrival'
  <2> SUFFICES ASSUME NEW e \in heap'
               PROVE  /\ arrival'[e.token] = [rank |-> e.rank, seq |-> e.seq]
                      /\ e.token \notin claimed'
    BY DEF HeapIsArrival
  <2>1. CASE e \in heap
    BY <2>1 DEF HeapIsArrival
  <2>2. CASE e = [rank |-> entry[t].rank, seq |-> entry[t].seq, token |-> t]
    BY <1>1, <2>2
  <2> QED
    BY <2>1, <2>2
<1>4. ClaimIsArrival' /\ KnownArrived'
  BY DEF QueueTypeOK, ClaimIsArrival, KnownArrived
<1>5. QueuePartition'
  BY DEF QueueTypeOK, QueuePartition
<1>6. WaitingIsReachable'
  BY <1>1 DEF QueueTypeOK, WaitingIsReachable
<1>7. Tombstones' \subseteq Tombstones
  BY DEF Tombstones, IsLive
<1> QED
  BY <1>2, <1>3, <1>4, <1>5, <1>6, <1>7

LEMMA ClaimHeadShape ==
  ASSUME QueueShape, NEW t \in Tokens, ClaimHead(t)
  PROVE  QueueShape' /\ Tombstones' \subseteq Tombstones /\ t \in queued
<1> USE QueueAssumption DEF QueueShape, Positions, NoEntry
<1>1. PICK e \in heap :
        /\ IsHead(e) /\ e.token = t
        /\ heap' = Trimmed \ {e}
        /\ queued' = queued \ {t}
        /\ claimed' = claimed \cup {t}
        /\ entry' = [entry EXCEPT ![t] = [rank |-> e.rank, seq |-> e.seq]]
        /\ UNCHANGED <<stamped, sequence, arrival>>
  BY DEF ClaimHead
<1>2. t \in queued /\ e.rank \in Ranks /\ e.seq \in Nat
  BY <1>1 DEF IsHead, IsLive, QueueTypeOK
<1>3. heap' \subseteq heap \ {e}
  BY <1>1 DEF Trimmed
<1>4. \A f \in heap : f.token = t => f = e
  <2> SUFFICES ASSUME NEW f \in heap, f.token = t PROVE f = e
    OBVIOUS
  <2>1. [rank |-> f.rank, seq |-> f.seq] = [rank |-> e.rank, seq |-> e.seq]
    BY <1>1 DEF HeapIsArrival
  <2>2. f.rank = e.rank /\ f.seq = e.seq
    BY <2>1
  <2>3. /\ f \in [rank : Ranks, seq : Nat, token : Tokens]
        /\ e \in [rank : Ranks, seq : Nat, token : Tokens]
    BY DEF QueueTypeOK
  <2> QED
    BY <1>1, <2>2, <2>3
<1>5. QueueTypeOK'
  BY <1>1, <1>2, <1>3 DEF QueueTypeOK
<1>6. HeapIsArrival'
  BY <1>1, <1>3, <1>4 DEF HeapIsArrival
<1>7. ClaimIsArrival' /\ KnownArrived'
  BY <1>1, <1>2 DEF ClaimIsArrival, KnownArrived, HeapIsArrival, QueueTypeOK
<1>8. QueuePartition'
  BY <1>1, <1>2 DEF QueueTypeOK, QueuePartition
<1>9. WaitingIsReachable'
  <2> SUFFICES ASSUME NEW u \in queued'
               PROVE  [rank |-> arrival[u].rank, seq |-> arrival[u].seq, token |-> u] \in heap'
    BY <1>1 DEF WaitingIsReachable
  <2> DEFINE f == [rank |-> arrival[u].rank, seq |-> arrival[u].seq, token |-> u]
  <2>1. f \in heap /\ IsLive(f) /\ f # e
    BY <1>1 DEF WaitingIsReachable, IsLive
  <2> QED
    BY <1>1, <2>1 DEF Trimmed
<1>10. Tombstones' \subseteq Tombstones
  BY <1>1, <1>3, <1>4 DEF Tombstones, IsLive
<1> QED
  BY <1>2, <1>5, <1>6, <1>7, <1>8, <1>9, <1>10

LEMMA TrimHeapShape ==
  ASSUME QueueShape, TrimHeap
  PROVE  QueueShape' /\ Tombstones' \subseteq Tombstones
<1> USE QueueAssumption DEF QueueShape, TrimHeap, Positions, NoEntry
<1>1. heap' \subseteq heap /\ (\A e \in heap : IsLive(e) => e \in heap')
  BY DEF Trimmed
<1>2. QueueTypeOK' /\ HeapIsArrival' /\ ClaimIsArrival' /\ KnownArrived'
  BY <1>1 DEF QueueTypeOK, HeapIsArrival, ClaimIsArrival, KnownArrived
<1>3. QueuePartition'
  BY DEF QueueTypeOK, QueuePartition
<1>4. WaitingIsReachable'
  BY <1>1 DEF QueueTypeOK, WaitingIsReachable, IsLive
<1>5. Tombstones' \subseteq Tombstones
  BY <1>1 DEF Tombstones, IsLive
<1> QED
  BY <1>2, <1>3, <1>4, <1>5

-----------------------------------------------------------------------------
(* Cardinalities.                                                          *)
LEMMA QueueFinite ==
  ASSUME QueueTypeOK
  PROVE  /\ IsFiniteSet(queued) /\ IsFiniteSet(claimed)
         /\ Cardinality(queued) \in Nat /\ Cardinality(claimed) \in Nat
<1>1. IsFiniteSet(queued) /\ IsFiniteSet(claimed)
  BY QueueAssumption, FS_Subset DEF QueueTypeOK
<1> QED
  BY <1>1, FS_CardinalityType

LEMMA FewerTombstones ==
  ASSUME IsFiniteSet(heap), TombstonesBounded, Tombstones' \subseteq Tombstones
  PROVE  TombstonesBounded'
<1>1. IsFiniteSet(Tombstones)
  BY FS_Subset DEF Tombstones
<1>2. Cardinality(Tombstones') <= Cardinality(Tombstones) /\ IsFiniteSet(Tombstones')
  BY <1>1, FS_Subset
<1>3. Cardinality(Tombstones) \in Nat /\ Cardinality(Tombstones') \in Nat
  BY <1>1, <1>2, FS_CardinalityType
<1> QED
  BY <1>2, <1>3, QueueAssumption DEF TombstonesBounded

(* If every token of Q has an entry in H, at least one entry of H per      *)
(* token of Q is not a tombstone.                                          *)
LEMMA LiveEntries ==
  ASSUME NEW H, NEW Q, IsFiniteSet(H), IsFiniteSet(Q),
         \A t \in Q : \E e \in H : e.token = t
  PROVE  Cardinality({e \in H : e.token \notin Q}) + Cardinality(Q) <= Cardinality(H)
<1> DEFINE L == {e \in H : e.token \in Q}
           D == {e \in H : e.token \notin Q}
           f == [e \in L |-> e.token]
<1>1. IsFiniteSet(L)
  BY FS_Subset
<1>2. f \in Surjection(L, Q)
  <2>1. f \in [L -> Q]
    OBVIOUS
  <2>2. ASSUME NEW t \in Q PROVE \E e \in L : f[e] = t
    OBVIOUS
  <2> QED
    BY <2>1, <2>2 DEF Surjection
<1>3. Cardinality(Q) <= Cardinality(L)
  BY <1>1, <1>2, FS_Surjection
<1>4. D = H \ L /\ H \cap L = L
  OBVIOUS
<1> HIDE DEF L, D, f
<1>5. Cardinality(H \ L) = Cardinality(H) - Cardinality(H \cap L)
  BY FS_Difference
<1>6. Cardinality(H) \in Nat /\ Cardinality(L) \in Nat /\ Cardinality(Q) \in Nat
  BY <1>1, FS_CardinalityType
<1>a. Cardinality(D) = Cardinality(H) - Cardinality(L)
  BY <1>4, <1>5, Zenon
<1>7. Cardinality(D) + Cardinality(Q) <= Cardinality(H)
  BY <1>3, <1>6, <1>a
<1> QED
  BY <1>7 DEF D

(* The step that makes tombstones: after a cancel either the heap was      *)
(* rebuilt, or it is short enough for the waiting tokens that are left.    *)
LEMMA CancelBounds ==
  ASSUME QueueInv, NEW t \in Tokens, CancelQueued(t), QueueShape'
  PROVE  IsFiniteSet(heap') /\ TombstonesBounded'
<1> USE QueueAssumption DEF QueueInv
<1>1. heap' = Compacted(queued') /\ queued' = queued \ {t} /\ t \in queued
  BY DEF CancelQueued
<1>2. heap' \subseteq heap
  BY <1>1 DEF Compacted
<1>3. IsFiniteSet(heap')
  BY <1>2, FS_Subset
<1>4. Cardinality(queued') = Cardinality(queued) - 1
  BY <1>1, QueueFinite, FS_RemoveElement
<1>5. Cardinality(queued') \in Nat /\ Cardinality(queued') < MaxRequests
  <2>1. IsFiniteSet(queued')
    BY <1>1, QueueFinite, FS_RemoveElement
  <2>2. Cardinality(queued') \in Nat
    BY <2>1, FS_CardinalityType
  <2>3. Cardinality(queued) \in Nat /\ Cardinality(claimed) \in Nat
    BY QueueFinite
  <2> QED
    BY <1>4, <2>2, <2>3 DEF QueueBounded
<1>6. CASE queued' = {} \/ Cardinality(heap) > 2 * Cardinality(queued') + Slack
  <2>1. Tombstones' = {}
    BY <1>1, <1>6 DEF Compacted, Tombstones, IsLive
  <2>2. Cardinality(Tombstones') = 0
    BY <2>1, FS_EmptySet
  <2> QED
    BY <1>3, <2>2 DEF TombstonesBounded
<1>7. CASE /\ queued' # {}
           /\ ~(Cardinality(heap) > 2 * Cardinality(queued') + Slack)
  <2>1. heap' = heap
    BY <1>1, <1>7 DEF Compacted
  <2>2. \A u \in queued' : \E e \in heap' : e.token = u
    <3> SUFFICES ASSUME NEW u \in queued' PROVE \E e \in heap' : e.token = u
      OBVIOUS
    <3> USE DEF QueueShape, WaitingIsReachable
    <3> WITNESS [rank |-> arrival'[u].rank, seq |-> arrival'[u].seq, token |-> u] \in heap'
    <3> QED
      OBVIOUS
  <2>3. Cardinality(Tombstones') + Cardinality(queued') <= Cardinality(heap')
    BY <1>1, <1>3, <2>2, LiveEntries, QueueFinite, FS_RemoveElement DEF Tombstones, IsLive
  <2>4. Cardinality(heap') \in Nat /\ Cardinality(Tombstones') \in Nat
    BY <1>3, FS_CardinalityType, FS_Subset DEF Tombstones
  <2> QED
    BY <1>3, <1>5, <1>7, <2>1, <2>3, <2>4 DEF TombstonesBounded
<1> QED
  BY <1>6, <1>7

LEMMA QueueInvNext == QueueInv /\ [QueueNext]_queueVars => QueueInv'
<1> SUFFICES ASSUME QueueInv, [QueueNext]_queueVars PROVE QueueInv'
  OBVIOUS
<1> USE QueueAssumption
<1>0. QueueShape /\ IsFiniteSet(heap) /\ QueueBounded /\ TombstonesBounded
  BY DEF QueueInv, QueueShape
<1>f. /\ IsFiniteSet(queued) /\ IsFiniteSet(claimed)
      /\ Cardinality(queued) \in Nat /\ Cardinality(claimed) \in Nat
  BY <1>0, QueueFinite DEF QueueShape
<1>s. ASSUME QueueShape', IsFiniteSet(heap'), QueueBounded', TombstonesBounded'
      PROVE  QueueInv'
  BY <1>s DEF QueueInv, QueueShape
<1>1. ASSUME NEW t \in Tokens, NEW r \in Ranks, Enqueue(t, r) PROVE QueueInv'
  <2>1. QueueShape' /\ TombstonesBounded'
    BY <1>0, <1>1, EnqueueShape, FewerTombstones
  <2>2. IsFiniteSet(heap')
    BY <1>0, <1>1, FS_AddElement DEF Enqueue
  <2>3. /\ IsFiniteSet(queued \cup {t})
        /\ Cardinality(queued \cup {t}) =
             IF t \in queued THEN Cardinality(queued) ELSE Cardinality(queued) + 1
    BY <1>f, FS_AddElement
  <2>4. Cardinality(queued') \in Nat /\ Cardinality(queued') <= Cardinality(queued) + 1
    BY <1>1, <1>f, <2>3 DEF Enqueue
  <2>5. QueueBounded'
    BY <1>1, <1>f, <2>4 DEF Enqueue, Full, QueueBounded
  <2> QED
    BY <1>s, <2>1, <2>2, <2>5
<1>2. ASSUME NEW t \in Tokens, CancelQueued(t) PROVE QueueInv'
  <2>1. QueueShape'
    BY <1>0, <1>2, CancelQueuedShape
  <2>2. IsFiniteSet(heap') /\ TombstonesBounded'
    BY <1>2, <2>1, CancelBounds
  <2>3. Cardinality(queued') = Cardinality(queued) - 1 /\ claimed' = claimed
    BY <1>2, <1>f, FS_RemoveElement DEF CancelQueued
  <2>4. QueueBounded'
    BY <1>0, <1>f, <2>3 DEF QueueBounded
  <2> QED
    BY <1>s, <2>1, <2>2, <2>4
<1>3. ASSUME NEW t \in Tokens, CancelClaimed(t) \/ FinishClaim(t) PROVE QueueInv'
  <2>1. QueueShape' /\ TombstonesBounded'
    BY <1>0, <1>3, LeaveClaimShape, FewerTombstones
  <2>2. heap' = heap /\ queued' = queued /\ claimed' = claimed \ {t} /\ t \in claimed
    BY <1>3 DEF CancelClaimed, FinishClaim
  <2>3. Cardinality(claimed') = Cardinality(claimed) - 1
    BY <2>2, <1>f, FS_RemoveElement
  <2>4. QueueBounded'
    BY <1>0, <1>f, <2>2, <2>3 DEF QueueBounded
  <2> QED
    BY <1>s, <1>0, <2>1, <2>2, <2>4
<1>4. ASSUME NEW t \in Tokens, ClaimHead(t) PROVE QueueInv'
  <2>1. QueueShape' /\ TombstonesBounded' /\ t \in queued
    BY <1>0, <1>4, ClaimHeadShape, FewerTombstones
  <2>2. /\ heap' \subseteq heap
        /\ queued' = queued \ {t} /\ claimed' = claimed \cup {t}
    BY <1>4 DEF ClaimHead, Trimmed
  <2>3. IsFiniteSet(heap')
    BY <1>0, <2>2, FS_Subset
  <2>4. Cardinality(queued') = Cardinality(queued) - 1
    BY <2>1, <2>2, <1>f, FS_RemoveElement
  <2>5. Cardinality(claimed') <= Cardinality(claimed) + 1 /\ Cardinality(claimed') \in Nat
    <3>1. IsFiniteSet(claimed)
      BY <1>f
    <3>2. /\ IsFiniteSet(claimed \cup {t})
          /\ \/ Cardinality(claimed \cup {t}) = Cardinality(claimed)
             \/ Cardinality(claimed \cup {t}) = Cardinality(claimed) + 1
      BY <3>1, FS_AddElement
    <3>3. Cardinality(claimed) \in Nat
      BY <3>1, FS_CardinalityType
    <3> QED
      BY <2>2, <3>2, <3>3
  <2>6. QueueBounded'
    BY <1>0, <1>f, <2>4, <2>5 DEF QueueBounded
  <2> QED
    BY <1>s, <2>1, <2>3, <2>6
<1>5. ASSUME NEW t \in Tokens, RestoreClaim(t) PROVE QueueInv'
  <2>1. QueueShape' /\ TombstonesBounded'
    BY <1>0, <1>5, RestoreShape, FewerTombstones
  <2>2. /\ claimed' = claimed \ {t} /\ t \in claimed
        /\ queued' = queued \cup {t}
    BY <1>5 DEF RestoreClaim
  <2>3. IsFiniteSet(heap')
    BY <1>0, <1>5, FS_AddElement DEF RestoreClaim
  <2>4. Cardinality(claimed') = Cardinality(claimed) - 1
    BY <2>2, <1>f, FS_RemoveElement
  <2>a. /\ IsFiniteSet(queued \cup {t})
        /\ Cardinality(queued \cup {t}) =
             IF t \in queued THEN Cardinality(queued) ELSE Cardinality(queued) + 1
    BY <1>f, FS_AddElement
  <2>5. Cardinality(queued') <= Cardinality(queued) + 1 /\ Cardinality(queued') \in Nat
    BY <2>2, <1>f, <2>a
  <2>6. QueueBounded'
    BY <1>0, <1>f, <2>4, <2>5 DEF QueueBounded
  <2> QED
    BY <1>s, <2>1, <2>3, <2>6
<1>6. ASSUME TrimHeap PROVE QueueInv'
  <2>1. QueueShape' /\ TombstonesBounded'
    BY <1>0, <1>6, TrimHeapShape, FewerTombstones
  <2>2. heap' \subseteq heap /\ queued' = queued /\ claimed' = claimed
    BY <1>6 DEF TrimHeap, Trimmed
  <2>3. IsFiniteSet(heap') /\ QueueBounded'
    BY <1>0, <2>2, FS_Subset DEF QueueBounded
  <2> QED
    BY <1>s, <2>1, <2>3
<1>7. ASSUME UNCHANGED queueVars PROVE QueueInv'
  BY <1>7 DEF queueVars, QueueInv, QueueTypeOK, HeapIsArrival, ClaimIsArrival,
     KnownArrived, QueuePartition, WaitingIsReachable, QueueBounded,
     TombstonesBounded, Tombstones, IsLive
<1> QED
  BY <1>1, <1>2, <1>3, <1>4, <1>5, <1>6, <1>7 DEF QueueNext

(* The queue keeps its invariant for every set of tokens, every capacity   *)
(* and every slack: types, order of arrival kept in the heap, capacity,    *)
(* bounded tombstones.                                                     *)
THEOREM QueueSafety == QueueSpec => []QueueInv
<1> QED
  BY QueueInvInit, QueueInvNext, PTL DEF QueueSpec

(* The bound promised by _compact_cancelled_locked, for every capacity.    *)
THEOREM TombstonesAlwaysBounded == QueueSpec => []TombstonesBounded
<1>1. QueueInv => TombstonesBounded
  BY DEF QueueInv
<1> QED
  BY <1>1, QueueSafety, PTL

(* enqueue and restore_claim together never exceed the queue's capacity.   *)
THEOREM QueueAlwaysBounded == QueueSpec => []QueueBounded
<1>1. QueueInv => QueueBounded
  BY DEF QueueInv
<1> QED
  BY <1>1, QueueSafety, PTL

(* No waiting work is lost to lazy deletion: whatever is cancelled,        *)
(* compacted, claimed and restored, the heap keeps a live entry for every  *)
(* token that waits.                                                       *)
THEOREM WaitingAlwaysReachable == QueueSpec => []WaitingIsReachable
<1>1. QueueInv => WaitingIsReachable
  BY DEF QueueInv
<1> QED
  BY <1>1, QueueSafety, PTL

(* A step that claims a token leaves none before it in the queue.          *)
LEMMA ServedInOrderStep ==
  ASSUME QueueInv, [QueueNext]_queueVars, NEW t \in claimed' \ claimed,
         NEW u \in queued \ {t}
  PROVE  Before(arrival[t], arrival[u])
<1>1. t \in Tokens /\ ClaimHead(t)
  BY DEF QueueInv, QueueTypeOK, QueueNext, queueVars, Enqueue, CancelQueued, CancelClaimed,
     FinishClaim, RestoreClaim, TrimHeap, ClaimHead
<1>2. PICK e \in heap : IsHead(e) /\ e.token = t
  BY <1>1 DEF ClaimHead
<1> DEFINE f == [rank |-> arrival[u].rank, seq |-> arrival[u].seq, token |-> u]
<1>3. f \in heap /\ IsLive(f) /\ f # e
  BY <1>2 DEF QueueInv, WaitingIsReachable, IsLive
<1>4. Before(e, f)
  BY <1>2, <1>3 DEF IsHead
<1>5. arrival[t] = [rank |-> e.rank, seq |-> e.seq]
  BY <1>2 DEF QueueInv, HeapIsArrival
<1> QED
  BY <1>4, <1>5 DEF Before

(* What dequeue and claim_head take was ahead, by priority and arrival, of *)
(* everything that goes on waiting, restored claims included.              *)
THEOREM QueueServesInOrder == QueueSpec => ServedInOrder
<1>1. QueueInv /\ [QueueNext]_queueVars =>
        [\A t \in claimed' \ claimed :
            \A u \in queued \ {t} : Before(arrival[t], arrival[u])]_queueVars
  BY ServedInOrderStep
<1> QED
  BY <1>1, QueueSafety, PTL DEF QueueSpec, ServedInOrder

-----------------------------------------------------------------------------
(* Sums as sizes of sets.                                                  *)
LEMMA BlocksFinite ==
  ASSUME NEW S, IsFiniteSet(S), NEW n \in Nat, NEW f
  PROVE  IsFiniteSet(Blocks(S, f, n)) /\ SumOver(S, f, n) \in Nat
<1>1. IsFiniteSet(1..n)
  BY FS_Interval
<1>2. IsFiniteSet(S \X (1..n))
  BY <1>1, FS_Product
<1>3. Blocks(S, f, n) \in SUBSET (S \X (1..n))
  BY DEF Blocks
<1>4. IsFiniteSet(Blocks(S, f, n))
  BY <1>2, <1>3, FS_Subset
<1> QED
  BY <1>4, FS_CardinalityType DEF SumOver

LEMMA SumUnion ==
  ASSUME NEW S, NEW T, IsFiniteSet(S), IsFiniteSet(T), S \cap T = {},
         NEW n \in Nat, NEW f
  PROVE  SumOver(S \cup T, f, n) = SumOver(S, f, n) + SumOver(T, f, n)
<1> DEFINE A == Blocks(S, f, n)
           B == Blocks(T, f, n)
<1>1. Blocks(S \cup T, f, n) = A \cup B /\ A \cap B = {}
  BY DEF Blocks
<1>2. IsFiniteSet(A) /\ IsFiniteSet(B) /\ Cardinality(A) \in Nat /\ Cardinality(B) \in Nat
  BY BlocksFinite DEF SumOver
<1> HIDE DEF A, B
<1>3. Cardinality(A \cup B) = Cardinality(A) + Cardinality(B) - Cardinality(A \cap B)
  BY <1>2, FS_Union
<1>4. Cardinality(A \cap B) = 0
  BY <1>1, FS_EmptySet
<1>5. Cardinality(A \cup B) = Cardinality(A) + Cardinality(B)
  BY <1>2, <1>3, <1>4
<1> QED
  BY <1>1, <1>5, Zenon DEF A, B, SumOver

LEMMA IntervalSize ==
  ASSUME NEW k \in Nat
  PROVE  IsFiniteSet(1..k) /\ Cardinality(1..k) = k
<1>1. IsFiniteSet(1..k) /\ Cardinality(1..k) = IF 1 > k THEN 0 ELSE k - 1 + 1
  BY FS_Interval
<1> QED
  BY <1>1

LEMMA SumOne ==
  ASSUME NEW x, NEW n \in Nat, NEW f, f[x] \in 0..n
  PROVE  SumOver({x}, f, n) = f[x]
<1>1. Blocks({x}, f, n) = {x} \X (1..f[x])
  <2>1. ASSUME NEW p \in Blocks({x}, f, n) PROVE p \in {x} \X (1..f[x])
    BY <2>1 DEF Blocks
  <2>2. ASSUME NEW p \in {x} \X (1..f[x]) PROVE p \in Blocks({x}, f, n)
    BY <2>2 DEF Blocks
  <2> QED
    BY <2>1, <2>2
<1>2. IsFiniteSet(1..f[x]) /\ Cardinality(1..f[x]) = f[x]
  BY IntervalSize
<1>3. IsFiniteSet({x}) /\ Cardinality({x}) = 1
  BY FS_Singleton
<1>4. Cardinality({x} \X (1..f[x])) = Cardinality({x}) * Cardinality(1..f[x])
  BY <1>2, <1>3, FS_Product
<1>5. Cardinality({x} \X (1..f[x])) = f[x]
  BY <1>2, <1>3, <1>4
<1> QED
  BY <1>1, <1>5, Zenon DEF SumOver

LEMMA SumAgree ==
  ASSUME NEW S, NEW n \in Nat, NEW f, NEW g, \A i \in S : f[i] = g[i]
  PROVE  SumOver(S, f, n) = SumOver(S, g, n)
<1>1. Blocks(S, f, n) = Blocks(S, g, n)
  BY DEF Blocks
<1> QED
  BY <1>1, Zenon DEF SumOver

LEMMA SumEmpty ==
  ASSUME NEW n \in Nat, NEW f
  PROVE  SumOver({}, f, n) = 0
<1>1. Blocks({}, f, n) = {}
  BY DEF Blocks
<1>2. Cardinality({}) = 0
  BY FS_EmptySet
<1> QED
  BY <1>1, <1>2, Zenon DEF SumOver

LEMMA SumAdd ==
  ASSUME NEW S, IsFiniteSet(S), NEW x, x \notin S, NEW n \in Nat, NEW f, f[x] \in 0..n
  PROVE  SumOver(S \cup {x}, f, n) = SumOver(S, f, n) + f[x]
<1>1. IsFiniteSet({x}) /\ S \cap {x} = {}
  BY FS_Singleton
<1>2. SumOver(S \cup {x}, f, n) = SumOver(S, f, n) + SumOver({x}, f, n)
  BY <1>1, SumUnion
<1> QED
  BY <1>2, SumOne

LEMMA SumRemove ==
  ASSUME NEW S, IsFiniteSet(S), NEW x \in S, NEW n \in Nat, NEW f, f[x] \in 0..n
  PROVE  SumOver(S \ {x}, f, n) = SumOver(S, f, n) - f[x]
<1>1. IsFiniteSet(S \ {x}) /\ x \notin S \ {x} /\ (S \ {x}) \cup {x} = S
  BY FS_RemoveElement
<1>2. SumOver((S \ {x}) \cup {x}, f, n) = SumOver(S \ {x}, f, n) + f[x]
  BY <1>1, SumAdd
<1>3. SumOver(S, f, n) = SumOver(S \ {x}, f, n) + f[x]
  BY <1>1, <1>2, Zenon
<1>4. SumOver(S \ {x}, f, n) \in Nat
  BY <1>1, BlocksFinite
<1> QED
  BY <1>3, <1>4

-----------------------------------------------------------------------------
(* The bounds of a single demand, and what a sum over live ids is.         *)
LEMMA BoundType == MaxDemand \in Nat
BY LedgerAssumption DEF MaxDemand

LEMMA DemandType ==
  ASSUME NEW r \in Requests, NEW d \in Dimensions
  PROVE  Demand(r)[d] \in 0..MaxDemand
<1>1. r.bytes \in 0..MaxBytes /\ MaxBytes \in Nat
  BY LedgerAssumption DEF Requests
<1> QED
  BY <1>1 DEF Demand, Dimensions, MaxDemand

LEMMA DemandOfType ==
  ASSUME LedgerTypeOK, NEW d \in Dimensions
  PROVE  /\ DemandOf(d) \in [ResIds -> 0..MaxDemand]
         /\ \A i \in ResIds : DemandOf(d)[i] = Demand(request[i])[d]
<1>1. \A i \in ResIds : request[i] \in Requests
  BY DEF LedgerTypeOK
<1> QED
  BY <1>1, DemandType DEF DemandOf

LEMMA LiveFinite ==
  ASSUME LedgerTypeOK
  PROVE  IsFiniteSet(live)
BY LedgerAssumption, FS_Subset DEF LedgerTypeOK

LEMMA NoRequestType == NoRequest \in Requests
BY LedgerAssumption DEF NoRequest, Requests

(* The inductive invariant.  Exact counters make NoOvercommit's lower      *)
(* bound inductive: a release cannot go below zero because what it takes   *)
(* away is part of the sum.                                                *)
WithinCapacity == \A d \in Dimensions : used[d] <= Capacity[d]
LedgerInv == LedgerTypeOK /\ UsedIsLiveDemand /\ WithinCapacity

LEMMA LedgerInvInit == LedgerInit => LedgerInv
<1> SUFFICES ASSUME LedgerInit PROVE LedgerInv
  OBVIOUS
<1>1. LedgerTypeOK
  BY NoRequestType DEF LedgerInit, LedgerTypeOK
<1>2. UsedIsLiveDemand
  <2> SUFFICES ASSUME NEW d \in Dimensions PROVE used[d] = LiveDemand(d)
    BY DEF UsedIsLiveDemand
  <2>1. LiveDemand(d) = SumOver({}, DemandOf(d), MaxDemand)
    BY DEF LedgerInit, LiveDemand
  <2>2. SumOver({}, DemandOf(d), MaxDemand) = 0
    BY SumEmpty, BoundType
  <2> QED
    BY <2>1, <2>2 DEF LedgerInit
<1>3. WithinCapacity
  BY LedgerAssumption DEF LedgerInit, WithinCapacity
<1> QED
  BY <1>1, <1>2, <1>3 DEF LedgerInv

LEMMA ReserveType ==
  ASSUME LedgerTypeOK, NEW i \in ResIds, NEW r \in Requests, Reserve(i, r)
  PROVE  LedgerTypeOK'
<1>1. \A d \in Dimensions : Demand(r)[d] \in Int /\ used[d] \in Int
  BY DemandType, BoundType DEF LedgerTypeOK
<1> QED
  BY <1>1 DEF LedgerTypeOK, Reserve, Plus

LEMMA ReserveInv ==
  ASSUME LedgerInv, NEW i \in ResIds, NEW r \in Requests, Reserve(i, r)
  PROVE  LedgerInv'
<1>0. LedgerTypeOK /\ LedgerTypeOK' /\ IsFiniteSet(live)
  BY ReserveType, LiveFinite DEF LedgerInv
<1>1. UsedIsLiveDemand'
  <2> SUFFICES ASSUME NEW d \in Dimensions PROVE used'[d] = LiveDemand(d)'
    BY DEF UsedIsLiveDemand
  <2> DEFINE F == DemandOf(d)
             G == DemandOf(d)'
  <2>1. \A k \in live : F[k] = G[k]
    BY <1>0 DEF Reserve, DemandOf, LedgerTypeOK
  <2>2. G[i] = Demand(r)[d] /\ G[i] \in 0..MaxDemand
    BY <1>0, DemandType DEF Reserve, DemandOf, LedgerTypeOK
  <2>3. SumOver(live, F, MaxDemand) = SumOver(live, G, MaxDemand)
    BY <2>1, SumAgree, BoundType
  <2>4. i \notin live /\ live' = live \cup {i} /\ used'[d] = used[d] + Demand(r)[d]
    BY DEF Reserve, Plus
  <2> HIDE DEF F, G
  <2>5. SumOver(live \cup {i}, G, MaxDemand) = SumOver(live, G, MaxDemand) + G[i]
    <3>1. G[i] \in 0..MaxDemand
      BY <2>2
    <3>2. i \notin live
      BY <2>4
    <3>3. IsFiniteSet(live)
      BY <1>0
    <3> QED
      BY <3>1, <3>2, <3>3, BoundType, SumAdd, ZenonT(60)
  <2>6. used[d] = SumOver(live, F, MaxDemand)
    BY DEF LedgerInv, UsedIsLiveDemand, LiveDemand, F
  <2>7. LiveDemand(d)' = SumOver(live \cup {i}, G, MaxDemand)
    BY <2>4 DEF LiveDemand, G
  <2> QED
    BY <2>2, <2>3, <2>4, <2>5, <2>6, <2>7
<1>2. WithinCapacity'
  BY DEF Reserve, CanReserve, Fits, Plus, WithinCapacity
<1> QED
  BY <1>0, <1>1, <1>2 DEF LedgerInv

LEMMA CombinedType ==
  ASSUME NEW rs \in ManyRequests, NEW d \in Dimensions
  PROVE  /\ DOMAIN rs \subseteq ResIds
         /\ \A i \in DOMAIN rs : rs[i] \in Requests
         /\ IsFiniteSet(DOMAIN rs)
         /\ Combined(rs, d) \in Nat
<1>1. PICK S \in SUBSET ResIds : rs \in [S -> Requests]
  BY DEF ManyRequests
<1>2. DOMAIN rs = S /\ IsFiniteSet(S)
  BY <1>1, LedgerAssumption, FS_Subset
<1> QED
  BY <1>1, <1>2, BlocksFinite, BoundType DEF Combined

LEMMA ReserveManyInv ==
  ASSUME LedgerInv, NEW rs \in ManyRequests, ReserveMany(rs)
  PROVE  LedgerInv'
<1>0. LedgerTypeOK /\ IsFiniteSet(live)
  BY LiveFinite DEF LedgerInv
<1>1. /\ DOMAIN rs \subseteq ResIds
      /\ \A i \in DOMAIN rs : rs[i] \in Requests
      /\ IsFiniteSet(DOMAIN rs)
      /\ \A d \in Dimensions : Combined(rs, d) \in Nat
  BY CombinedType DEF Dimensions
<1>2. LedgerTypeOK'
  <2>1. used' \in [Dimensions -> Int] /\ \A d \in Dimensions : used'[d] = used[d] + Combined(rs, d)
    BY <1>0, <1>1 DEF LedgerTypeOK, ReserveMany, Plus
  <2>2. live' \subseteq ResIds /\ qualified' \subseteq Pairs
    BY <1>0, <1>1 DEF LedgerTypeOK, ReserveMany
  <2>3. request' \in [ResIds -> Requests]
    BY <1>0, <1>1 DEF LedgerTypeOK, ReserveMany
  <2> QED
    BY <2>1, <2>2, <2>3 DEF LedgerTypeOK
<1>3. UsedIsLiveDemand'
  <2> SUFFICES ASSUME NEW d \in Dimensions PROVE used'[d] = LiveDemand(d)'
    BY DEF UsedIsLiveDemand
  <2> DEFINE D == DOMAIN rs
             F == DemandOf(d)
             G == DemandOf(d)'
             H == [i \in DOMAIN rs |-> Demand(rs[i])[d]]
  <2>1. D \cap live = {} /\ live' = live \cup D /\ used'[d] = used[d] + Combined(rs, d)
    BY DEF ReserveMany, Plus
  <2>2. \A k \in live : F[k] = G[k]
    BY <1>0, <2>1 DEF ReserveMany, DemandOf, LedgerTypeOK
  <2>3. \A k \in D : G[k] = H[k]
    BY <1>1 DEF ReserveMany, DemandOf
  <2>4. Combined(rs, d) = SumOver(D, H, MaxDemand)
    BY DEF Combined
  <2>5. used[d] = SumOver(live, F, MaxDemand)
    BY DEF LedgerInv, UsedIsLiveDemand, LiveDemand
  <2>6. LiveDemand(d)' = SumOver(live \cup D, G, MaxDemand)
    BY <2>1 DEF LiveDemand
  <2> HIDE DEF F, G, H
  <2>7. SumOver(live, F, MaxDemand) = SumOver(live, G, MaxDemand)
    BY <2>2, SumAgree, BoundType
  <2>8. SumOver(D, G, MaxDemand) = SumOver(D, H, MaxDemand)
    BY <2>3, SumAgree, BoundType
  <2>9. SumOver(live \cup D, G, MaxDemand)
          = SumOver(live, G, MaxDemand) + SumOver(D, G, MaxDemand)
    BY <1>0, <1>1, <2>1, SumUnion, BoundType
  <2> QED
    BY <2>1, <2>4, <2>5, <2>6, <2>7, <2>8, <2>9
<1>4. WithinCapacity'
  BY DEF ReserveMany, CanReserveMany, Fits, Plus, WithinCapacity
<1> QED
  BY <1>2, <1>3, <1>4 DEF LedgerInv

LEMMA TransferInv ==
  ASSUME LedgerInv, NEW i \in ResIds, NEW r \in Requests, Transfer(i, r)
  PROVE  LedgerInv'
<1>0. LedgerTypeOK /\ IsFiniteSet(live) /\ i \in live
  BY LiveFinite DEF LedgerInv, Transfer
<1>1. /\ \A d \in Dimensions : used[d] \in Int
      /\ \A d \in Dimensions : Demand(r)[d] \in Int /\ Demand(request[i])[d] \in Int
  BY <1>0, DemandType, BoundType DEF LedgerTypeOK
<1>2. \A d \in Dimensions : used'[d] = used[d] - Demand(request[i])[d] + Demand(r)[d]
  BY DEF Transfer, Plus, Minus
<1>3. LedgerTypeOK'
  <2>1. used' \in [Dimensions -> Int]
    BY <1>1 DEF Transfer, Plus, Minus
  <2> QED
    BY <1>0, <2>1 DEF LedgerTypeOK, Transfer
<1>4. UsedIsLiveDemand'
  <2> SUFFICES ASSUME NEW d \in Dimensions PROVE used'[d] = LiveDemand(d)'
    BY DEF UsedIsLiveDemand
  <2> DEFINE F == DemandOf(d)
             G == DemandOf(d)'
             L == live \ {i}
  <2>1. \A k \in L : F[k] = G[k]
    BY <1>0 DEF Transfer, DemandOf, LedgerTypeOK
  <2>2. G[i] = Demand(r)[d] /\ F[i] = Demand(request[i])[d]
    BY <1>0 DEF Transfer, DemandOf, LedgerTypeOK
  <2>3. G[i] \in 0..MaxDemand /\ F[i] \in 0..MaxDemand /\ MaxDemand \in Nat
    BY <1>0, <2>2, DemandType, BoundType DEF LedgerTypeOK
  <2>4. used[d] = SumOver(live, F, MaxDemand) /\ LiveDemand(d)' = SumOver(live, G, MaxDemand)
    BY DEF LedgerInv, UsedIsLiveDemand, LiveDemand, Transfer
  <2> HIDE DEF F, G
  <2>5. SumOver(L, F, MaxDemand) = SumOver(L, G, MaxDemand)
    BY <2>1, SumAgree, BoundType
  <2>6. SumOver(L, F, MaxDemand) = SumOver(live, F, MaxDemand) - F[i]
    BY <1>0, <2>3, SumRemove, Zenon
  <2>7. SumOver(L, G, MaxDemand) = SumOver(live, G, MaxDemand) - G[i]
    BY <1>0, <2>3, SumRemove, Zenon
  <2>8. SumOver(live, F, MaxDemand) \in Nat /\ SumOver(live, G, MaxDemand) \in Nat
    BY <1>0, <2>3, BlocksFinite, Zenon
  <2>9. used'[d] = used[d] - F[i] + G[i]
    BY <1>2, <2>2
  <2> QED
    BY <2>3, <2>4, <2>5, <2>6, <2>7, <2>8, <2>9
<1>5. WithinCapacity'
  BY <1>2 DEF Transfer, CanTransfer, Fits, Minus, WithinCapacity
<1> QED
  BY <1>3, <1>4, <1>5 DEF LedgerInv

LEMMA ReleaseInv ==
  ASSUME LedgerInv, NEW i \in ResIds, Release(i)
  PROVE  LedgerInv'
<1>0. LedgerTypeOK /\ IsFiniteSet(live) /\ i \in live
  BY LiveFinite DEF LedgerInv, Release
<1>1. \A d \in Dimensions :
         /\ used[d] \in Int
         /\ Demand(request[i])[d] \in 0..MaxDemand
         /\ used'[d] = used[d] - Demand(request[i])[d]
  BY <1>0, DemandType DEF LedgerTypeOK, Release, Minus
<1>2. LedgerTypeOK'
  <2>1. used' \in [Dimensions -> Int]
    BY <1>1, BoundType DEF Release, Minus
  <2> QED
    BY <1>0, <2>1, NoRequestType DEF LedgerTypeOK, Release
<1>3. UsedIsLiveDemand'
  <2> SUFFICES ASSUME NEW d \in Dimensions PROVE used'[d] = LiveDemand(d)'
    BY DEF UsedIsLiveDemand
  <2> DEFINE F == DemandOf(d)
             G == DemandOf(d)'
             L == live \ {i}
  <2>1. \A k \in L : F[k] = G[k]
    BY <1>0 DEF Release, DemandOf, LedgerTypeOK
  <2>2. F[i] = Demand(request[i])[d]
    BY <1>0 DEF DemandOf, LedgerTypeOK
  <2>3. F[i] \in 0..MaxDemand /\ MaxDemand \in Nat
    BY <1>1, <2>2, BoundType
  <2>4. used[d] = SumOver(live, F, MaxDemand) /\ LiveDemand(d)' = SumOver(L, G, MaxDemand)
    BY DEF LedgerInv, UsedIsLiveDemand, LiveDemand, Release
  <2> HIDE DEF F, G
  <2>5. SumOver(L, F, MaxDemand) = SumOver(L, G, MaxDemand)
    BY <2>1, SumAgree, BoundType
  <2>6. SumOver(L, F, MaxDemand) = SumOver(live, F, MaxDemand) - F[i]
    BY <1>0, <2>3, SumRemove, Zenon
  <2> QED
    BY <1>1, <2>2, <2>4, <2>5, <2>6
<1>4. WithinCapacity'
  <2>1. \A d \in Dimensions : Capacity[d] \in Nat
    BY LedgerAssumption
  <2>2. \A d \in Dimensions : used[d] <= Capacity[d]
    BY DEF LedgerInv, WithinCapacity
  <2>3. \A d \in Dimensions : used'[d] <= Capacity[d]
    BY <1>1, <2>1, <2>2, BoundType
  <2> QED
    BY <2>3 DEF WithinCapacity
<1> QED
  BY <1>2, <1>3, <1>4 DEF LedgerInv

(* Nothing the counters depend on changes.                                 *)
LEMMA LedgerFrame ==
  ASSUME LedgerInv, UNCHANGED <<used, live, request>>, qualified' \subseteq Pairs
  PROVE  LedgerInv'
<1>1. LedgerTypeOK'
  BY DEF LedgerInv, LedgerTypeOK
<1>2. UsedIsLiveDemand'
  BY DEF LedgerInv, UsedIsLiveDemand, LiveDemand, DemandOf
<1>3. WithinCapacity'
  BY DEF LedgerInv, WithinCapacity
<1> QED
  BY <1>1, <1>2, <1>3 DEF LedgerInv

LEMMA LedgerInvNext == LedgerInv /\ [LedgerNext]_ledgerVars => LedgerInv'
<1> SUFFICES ASSUME LedgerInv, [LedgerNext]_ledgerVars PROVE LedgerInv'
  OBVIOUS
<1>1. ASSUME NEW i \in ResIds, NEW r \in Requests, Reserve(i, r) PROVE LedgerInv'
  BY <1>1, ReserveInv
<1>2. ASSUME NEW rs \in ManyRequests, ReserveMany(rs) PROVE LedgerInv'
  BY <1>2, ReserveManyInv
<1>3. ASSUME NEW i \in ResIds, NEW r \in Requests, Transfer(i, r) PROVE LedgerInv'
  BY <1>3, TransferInv
<1>4. ASSUME NEW i \in ResIds, Release(i) PROVE LedgerInv'
  BY <1>4, ReleaseInv
<1>5. ASSUME NEW p \in Pairs, InstallEvidence(p) PROVE LedgerInv'
  <2>1. qualified' \subseteq Pairs
    BY <1>5 DEF LedgerInv, LedgerTypeOK, InstallEvidence
  <2> QED
    BY <1>5, <2>1, LedgerFrame DEF InstallEvidence
<1>6. ASSUME NEW ps \in SUBSET Pairs, ReplaceEvidence(ps) PROVE LedgerInv'
  BY <1>6, LedgerFrame DEF ReplaceEvidence
<1>7. CASE UNCHANGED ledgerVars
  <2>1. qualified' \subseteq Pairs
    BY <1>7 DEF LedgerInv, LedgerTypeOK, ledgerVars
  <2> QED
    BY <1>7, <2>1, LedgerFrame DEF ledgerVars
<1> QED
  BY <1>1, <1>2, <1>3, <1>4, <1>5, <1>6, <1>7 DEF LedgerNext

(* Every behaviour of the ledger keeps its inductive invariant: typed,     *)
(* exact and within capacity.                                              *)
THEOREM LedgerSafety == LedgerSpec => []LedgerInv
BY LedgerInvInit, LedgerInvNext, PTL DEF LedgerSpec

LEMMA ExactIsNoOvercommit == LedgerInv => NoOvercommit
<1> SUFFICES ASSUME LedgerInv, NEW d \in Dimensions PROVE used[d] \in 0..Capacity[d]
  BY DEF NoOvercommit
<1>1. LiveDemand(d) \in Nat
  BY LiveFinite, BlocksFinite, BoundType DEF LedgerInv, LiveDemand
<1>2. used[d] = LiveDemand(d) /\ used[d] <= Capacity[d] /\ Capacity[d] \in Nat
  BY LedgerAssumption DEF LedgerInv, UsedIsLiveDemand, WithinCapacity
<1> QED
  BY <1>1, <1>2

(* No order of reserve, reserve_many, transfer and release overcommits a   *)
(* dimension or drives its counter below zero.                             *)
THEOREM LedgerNeverOvercommits == LedgerSpec => []NoOvercommit
BY LedgerSafety, ExactIsNoOvercommit, PTL

(* The counters always equal what the live reservations ask for.           *)
THEOREM LedgerIsExact == LedgerSpec => []UsedIsLiveDemand
<1>1. LedgerInv => UsedIsLiveDemand
  BY DEF LedgerInv
<1> QED
  BY <1>1, LedgerSafety, PTL

(* A step that adds work or moves it between backends, without replacing   *)
(* the evidence, keeps every pair of running backends qualified.           *)
LEMMA StepKeepsCoRunning ==
  ASSUME LedgerTypeOK, [LedgerNext]_ledgerVars, CoRunning, qualified' = qualified
  PROVE  CoRunning'
<1>0. \A i \in live : i \in ResIds
  BY DEF LedgerTypeOK
<1>1. \A i, k \in live : request[i].backend # request[k].backend
                           => {request[i].backend, request[k].backend} \in qualified
  BY DEF CoRunning, ActiveBackends, Qualified
<1> SUFFICES ASSUME NEW i \in live', NEW k \in live',
                    request'[i].backend # request'[k].backend
             PROVE  {request'[i].backend, request'[k].backend} \in qualified
  BY DEF CoRunning, ActiveBackends, Qualified
<1>sym. ASSUME NEW a, NEW b PROVE {a, b} = {b, a}
  OBVIOUS
<1>2. ASSUME NEW x \in ResIds, NEW r \in Requests, Reserve(x, r)
      PROVE  {request'[i].backend, request'[k].backend} \in qualified
  <2>1. \A z \in live : z # x /\ request'[z] = request[z]
    BY <1>2, <1>0 DEF Reserve, LedgerTypeOK
  <2>2. request'[x] = r /\ live' = live \cup {x}
    BY <1>2 DEF Reserve, LedgerTypeOK
  <2>3. \A z \in live : request[z].backend = r.backend
                          \/ {request[z].backend, r.backend} \in qualified
    BY <1>2 DEF Reserve, CanReserve, CoRunnable, ActiveBackends, Qualified
  <2> QED
    BY <1>1, <1>sym, <2>1, <2>2, <2>3
<1>3. ASSUME NEW rs \in ManyRequests, ReserveMany(rs)
      PROVE  {request'[i].backend, request'[k].backend} \in qualified
  <2>0. DOMAIN rs \subseteq ResIds /\ DOMAIN rs \cap live = {} /\ live' = live \cup DOMAIN rs
    BY <1>3, CombinedType DEF ReserveMany, Dimensions
  <2>1. \A z \in live : request'[z] = request[z]
    BY <1>3, <1>0, <2>0 DEF ReserveMany
  <2>2. \A z \in DOMAIN rs : request'[z] = rs[z]
    BY <1>3, <2>0 DEF ReserveMany
  <2> DEFINE all == ActiveBackends(live) \cup {rs[z].backend : z \in DOMAIN rs}
  <2>3. \A z \in live' : request'[z].backend \in all
    BY <2>0, <2>1, <2>2 DEF ActiveBackends
  <2>4. \A a, b \in all : a # b => {a, b} \in qualified
    BY <1>3 DEF ReserveMany, CanReserveMany, Qualified
  <2> QED
    BY <2>3, <2>4
<1>4. ASSUME NEW x \in ResIds, NEW r \in Requests, Transfer(x, r)
      PROVE  {request'[i].backend, request'[k].backend} \in qualified
  <2>1. \A z \in live \ {x} : request'[z] = request[z]
    BY <1>4, <1>0 DEF Transfer, LedgerTypeOK
  <2>2. request'[x] = r /\ live' = live
    BY <1>4 DEF Transfer, LedgerTypeOK
  <2>3. \A z \in live \ {x} : request[z].backend = r.backend
                          \/ {request[z].backend, r.backend} \in qualified
    BY <1>4 DEF Transfer, CanTransfer, CoRunnable, ActiveBackends, Qualified
  <2> QED
    BY <1>1, <1>sym, <2>1, <2>2, <2>3
<1>5. ASSUME NEW x \in ResIds, Release(x)
      PROVE  {request'[i].backend, request'[k].backend} \in qualified
  <2>1. \A z \in live' : z \in live /\ request'[z] = request[z]
    BY <1>5, <1>0 DEF Release, LedgerTypeOK
  <2> QED
    BY <1>1, <2>1
<1>6. CASE UNCHANGED <<live, request>>
  BY <1>1, <1>6
<1> QED
  BY <1>2, <1>3, <1>4, <1>5, <1>6
     DEF LedgerNext, ledgerVars, InstallEvidence, ReplaceEvidence

(* reserve, reserve_many, transfer and release never let two backends run  *)
(* together that the installed contention evidence does not qualify.       *)
THEOREM LedgerAdmitsQualified == LedgerSpec => AdmissionKeepsCoRunning
<1>1. LedgerInv /\ [LedgerNext]_ledgerVars
        => [(CoRunning /\ qualified' = qualified) => CoRunning']_ledgerVars
  BY StepKeepsCoRunning DEF LedgerInv
<1> QED
  BY <1>1, LedgerSafety, PTL DEF LedgerSpec, AdmissionKeepsCoRunning
=============================================================================
