---------------------------- MODULE SemanticState ----------------------------
(***************************************************************************)
(* The semantic anchor cache (semantic_cache.py), its coordinator with the *)
(* backend that owns the KV state (semantic_state.py), and the capacities  *)
(* the elastic memory controller gives it under memory pressure            *)
(* (elastic_memory.py; when it does so is in module RuntimeService).       *)
(*                                                                         *)
(* The cache is an OrderedDict under a lock of its own; between two calls  *)
(* on it a thread talks to the backend without a lock, so a handle it has  *)
(* looked up may be evicted and released before it is used.  The backend   *)
(* is external: capture returns a new handle or nothing, restore of a      *)
(* handle it does not hold returns False, release may raise.               *)
(***************************************************************************)
EXTENDS ByteTotals

CONSTANTS
    Threads,        \* handler, monitor and completing threads
    Keys,           \* (session fingerprint, prefix fingerprint) pairs
    Handles,        \* backend state handles
    Size,           \* accounted bytes of a handle
    NormalEntries,  \* capacity_entries without pressure
    NormalBytes,    \* capacity_bytes without pressure
    Levels,         \* the pressure levels reported, besides "unknown"
    MaxPendingReleases,
    Nothing         \* no key, no handle

ASSUME SemanticAssumption ==
    /\ NormalEntries \in Nat \ {0} /\ NormalBytes \in Nat \ {0}
    /\ MaxPendingReleases \in Nat \ {0}
    /\ Size \in [Handles -> Nat \ {0}]
    /\ Levels \subseteq {"normal", "warning", "critical"}
    /\ Nothing \notin Keys \cup Handles

VARIABLES
    anchors,    \* _entries: <<handle, key>> pairs
    place,      \* their order: of each key in it, 1 for the least recently used
    resident,   \* _resident_bytes
    capacity,   \* _capacity_entries and _capacity_bytes
    owed,       \* _pending: handles whose release raised
    turn,       \* their order
    dropped,    \* handles that fell out of _pending
    backend,    \* the handles the backend holds
    doing,      \* per thread: where it is
    anchor,     \* per thread: the <<handle, key>> it works on
    freeing,    \* per thread: <<n, handle>> that it is about to release, n-th
    retrying    \* per thread: <<n, handle>> that it is about to release again

cacheVars == <<anchors, place, resident, capacity>>
releaseVars == <<owed, turn, dropped, backend>>
threadVars == <<doing, anchor, freeing, retrying>>
semanticVars == <<cacheVars, releaseVars, threadVars>>

NoAnchor == <<Nothing, Nothing>>

SemanticTypeOK ==
    /\ anchors \subseteq Handles \X Keys
    /\ IsFiniteSet(anchors) /\ IsFiniteSet(owed)
    /\ place \in [Keys -> Nat] /\ turn \in [Handles -> Nat]
    /\ resident \in Nat
    /\ capacity \in [entries : Nat, bytes : Nat]
    /\ owed \subseteq Handles /\ dropped \subseteq Handles /\ backend \subseteq Handles
    /\ doing \in [Threads -> {"idle", "check", "insert", "restore", "discard", "retry", "retried",
                             "free"}]
    /\ anchor \in [Threads -> (Handles \cup {Nothing}) \X (Keys \cup {Nothing})]
    /\ freeing \in [Threads -> SUBSET (Nat \X Handles)]
    /\ retrying \in [Threads -> SUBSET (Nat \X Handles)]

AtLeastOne(n) == IF n = 0 THEN 1 ELSE n
Target(l) ==
    LET divisor == CASE l = "normal" -> 1 [] l = "warning" -> 2 [] l = "critical" -> 8
    IN  [entries |-> AtLeastOne(NormalEntries \div divisor),
         bytes |-> AtLeastOne(NormalBytes \div divisor)]

SemanticInit ==
    /\ anchors = {}
    /\ place = [k \in Keys |-> 0]
    /\ resident = 0
    /\ capacity = [entries |-> NormalEntries, bytes |-> NormalBytes]
    /\ owed = {}
    /\ turn = [h \in Handles |-> 0]
    /\ dropped = {}
    /\ backend = {}
    /\ doing = [t \in Threads |-> "idle"]
    /\ anchor = [t \in Threads |-> NoAnchor]
    /\ freeing = [t \in Threads |-> {}]
    /\ retrying = [t \in Threads |-> {}]

-----------------------------------------------------------------------------
Move(t, step) == doing' = [doing EXCEPT ![t] = step]

(* The order of an OrderedDict of which kept is left, in its order, and    *)
(* then last, when that is not Nothing.                                    *)
Reordered(order, kept, last) ==
    [x \in DOMAIN order |->
        IF x = last THEN Cardinality(kept \ {last}) + 1
        ELSE IF x \in kept THEN Cardinality({y \in kept \ {last} : order[y] <= order[x]})
        ELSE 0]
KeysOf(s) == {a[2] : a \in s}
Under(k) == {a \in anchors : a[2] = k}

(* _evict_to_budget: out leaves s from the old end until both limits hold, *)
(* and no more than that.                                                  *)
FirstOf(out, s, order) == \A a \in out : \A b \in s \ out : order[a[2]] < order[b[2]]
FitsWithout(out, s, bytes, cap) ==
    /\ Cardinality(s \ out) <= cap.entries
    /\ bytes - TotalBytes(out, Size) <= cap.bytes
Evicts(out, s, order, bytes, cap) ==
    /\ FirstOf(out, s, order)
    /\ FitsWithout(out, s, bytes, cap)
    /\ \A a \in out : FirstOf(out \ {a}, s, order) => ~FitsWithout(out \ {a}, s, bytes, cap)

(* What a thread is about to release: what was replaced first, then what   *)
(* left from the old end.                                                  *)
Releases(replaced, order, out) ==
    {<<0, a[1]>> : a \in replaced} \cup {<<order[a[2]], a[1]>> : a \in out}

(* What the cache keeps of s, and what it hands back for release.          *)
Shrink(t, s, order, bytes, cap, replaced) ==
    \E out \in SUBSET s :
       /\ Evicts(out, s, order, bytes, cap)
       /\ anchors' = s \ out
       /\ place' = Reordered(order, KeysOf(s \ out), Nothing)
       /\ resident' = bytes - TotalBytes(out, Size)
       /\ freeing' = [freeing EXCEPT ![t] = Releases(replaced, order, out)]

(* The backend never hands out the name of a handle still in use, nor one  *)
(* that a thread has yet to retry.                                         *)
New(h) ==
    /\ h \notin backend \cup dropped
    /\ \A t \in Threads : anchor[t][1] # h /\ \A p \in retrying[t] : p[2] # h

-----------------------------------------------------------------------------
(* capture(): the backend first, the cache after it.                       *)
Capture(t, k) ==
    /\ doing[t] = "idle"
    /\ \E h \in Handles :
          /\ New(h)
          /\ backend' = backend \cup {h}
          /\ anchor' = [anchor EXCEPT ![t] = <<h, k>>]
    /\ Move(t, "check")
    /\ UNCHANGED <<cacheVars, owed, turn, dropped, freeing, retrying>>

(* put() reads the byte capacity before it takes the lock; its ValueError  *)
(* makes capture() release the handle.                                     *)
Check(t) ==
    /\ doing[t] = "check"
    /\ IF Size[anchor[t][1]] > capacity.bytes
       THEN /\ freeing' = [freeing EXCEPT ![t] = {<<0, anchor[t][1]>>}]
            /\ Move(t, "free")
       ELSE Move(t, "insert") /\ UNCHANGED freeing
    /\ UNCHANGED <<cacheVars, releaseVars, anchor, retrying>>

Insert(t) ==
    LET k == anchor[t][2]
        previous == Under(k)
    IN
    /\ doing[t] = "insert"
    /\ Shrink(t, (anchors \ previous) \cup {anchor[t]},
              Reordered(place, KeysOf(anchors), k),
              resident - TotalBytes(previous, Size) + Size[anchor[t][1]],
              capacity, {a \in previous : a[1] # anchor[t][1]})
    /\ Move(t, "free")
    /\ UNCHANGED <<capacity, releaseVars, anchor, retrying>>

(* restore_deepest(): a hit becomes the most recently used.                *)
Lookup(t, k) ==
    /\ doing[t] = "idle"
    /\ \E a \in Under(k) : anchor' = [anchor EXCEPT ![t] = a]
    /\ place' = Reordered(place, KeysOf(anchors), k)
    /\ Move(t, "restore")
    /\ UNCHANGED <<anchors, resident, capacity, releaseVars, freeing, retrying>>

Restore(t) ==
    /\ doing[t] = "restore"
    /\ \/ /\ anchor[t][1] \in backend
          /\ Move(t, "idle")
          /\ anchor' = [anchor EXCEPT ![t] = NoAnchor]
       \/ Move(t, "discard") /\ UNCHANGED anchor
    /\ UNCHANGED <<cacheVars, releaseVars, freeing, retrying>>

(* The key is discarded, whatever anchor is under it by now.               *)
DiscardStale(t) ==
    LET previous == Under(anchor[t][2]) IN
    /\ doing[t] = "discard"
    /\ anchors' = anchors \ previous
    /\ place' = Reordered(place, KeysOf(anchors \ previous), Nothing)
    /\ resident' = resident - TotalBytes(previous, Size)
    /\ freeing' = [freeing EXCEPT ![t] = {<<0, anchor[t][1]>>}]
    /\ Move(t, "free")
    /\ UNCHANGED <<capacity, releaseVars, anchor, retrying>>
Discard(t) ==
    LET previous == Under(anchor[t][2]) IN
    /\ doing[t] = "discard"
    /\ anchors' = anchors \ previous
    /\ place' = Reordered(place, KeysOf(anchors \ previous), Nothing)
    /\ resident' = resident - TotalBytes(previous, Size)
    /\ freeing' = [freeing EXCEPT ![t] = Releases(previous, place, {})]
    /\ Move(t, "free")
    /\ UNCHANGED <<capacity, releaseVars, anchor, retrying>>

(* close() drops the entries, then retries what is owed.                   *)
Clear(t) ==
    /\ doing[t] = "idle"
    /\ anchors # {}
    /\ anchors' = {}
    /\ place' = [k \in Keys |-> 0]
    /\ resident' = 0
    /\ freeing' = [freeing EXCEPT ![t] = Releases({}, place, anchors)]
    /\ Move(t, "free")
    /\ UNCHANGED <<capacity, releaseVars, anchor, retrying>>

(* retry_pending_releases reads the list and then releases one handle      *)
(* after the other; one that raises again stays listed.  The release and   *)
(* the removal from the list are two steps.  Between any two of them a     *)
(* full list may drop a handle, which is then released all the same, and   *)
(* another thread may retry what it read of the same list.                 *)
IsNext(p, list) == p \in list /\ \A q \in list : p[1] <= q[1]
RetryStart(t) ==
    /\ doing[t] = "idle"
    /\ owed # {}
    /\ retrying' = [retrying EXCEPT ![t] = {<<turn[h], h>> : h \in owed}]
    /\ Move(t, "retry")
    /\ UNCHANGED <<cacheVars, releaseVars, anchor, freeing>>

Retry(t) ==
    /\ doing[t] = "retry"
    /\ \E p \in retrying[t] :
          /\ IsNext(p, retrying[t])
          /\ retrying' = [retrying EXCEPT ![t] = @ \ {p}]
          /\ \/ /\ backend' = backend \ {p[2]}
                /\ anchor' = [anchor EXCEPT ![t] = <<p[2], Nothing>>]
                /\ Move(t, "retried")
             \/ UNCHANGED <<backend, anchor, doing>>
    /\ UNCHANGED <<cacheVars, owed, turn, dropped, freeing>>

RetryDone(t) ==
    /\ doing[t] = "retried"
    /\ owed' = owed \ {anchor[t][1]}
    /\ turn' = Reordered(turn, owed \ {anchor[t][1]}, Nothing)
    /\ anchor' = [anchor EXCEPT ![t] = NoAnchor]
    /\ Move(t, "retry")
    /\ UNCHANGED <<cacheVars, dropped, backend, freeing, retrying>>

RetryEnd(t) ==
    /\ doing[t] = "retry"
    /\ retrying[t] = {}
    /\ Move(t, "idle")
    /\ UNCHANGED <<cacheVars, releaseVars, anchor, freeing, retrying>>

(* _release_handle, for each evicted anchor in turn.                       *)
IsOldest(h, listed, order) == h \in listed /\ \A x \in listed : order[h] <= order[x]
Owe(h) ==
    LET listed == owed \cup {h}
        order == Reordered(turn, owed, h)
    IN
    IF Cardinality(listed) > MaxPendingReleases
    THEN \E oldest \in listed :
            /\ IsOldest(oldest, listed, order)
            /\ owed' = listed \ {oldest}
            /\ turn' = Reordered(order, listed \ {oldest}, Nothing)
            /\ dropped' = dropped \cup {oldest}
    ELSE owed' = listed /\ turn' = order /\ UNCHANGED dropped
Free(t) ==
    /\ doing[t] = "free"
    /\ \E p \in freeing[t] :
          /\ IsNext(p, freeing[t])
          /\ \/ backend' = backend \ {p[2]} /\ UNCHANGED <<owed, turn, dropped>>
             \/ Owe(p[2]) /\ UNCHANGED backend
          /\ freeing' = [freeing EXCEPT ![t] = @ \ {p}]
    /\ UNCHANGED <<cacheVars, doing, anchor, retrying>>

Done(t) ==
    /\ doing[t] = "free"
    /\ freeing[t] = {}
    /\ Move(t, "idle")
    /\ anchor' = [anchor EXCEPT ![t] = NoAnchor]
    /\ UNCHANGED <<cacheVars, releaseVars, freeing, retrying>>

(* ElasticMemoryController.request applies the target of a pressure level. *)
ResizeKeeps(t, l) ==
    /\ doing[t] = "idle"
    /\ capacity' = Target(l)
    /\ Move(t, "free")
    /\ UNCHANGED <<anchors, place, resident, releaseVars, anchor, freeing, retrying>>
Resize(t, l) ==
    /\ doing[t] = "idle"
    /\ capacity' = Target(l)
    /\ Shrink(t, anchors, place, resident, Target(l), {})
    /\ Move(t, "free")
    /\ UNCHANGED <<releaseVars, anchor, retrying>>

SemanticStep(t) ==
    \/ \E k \in Keys : Capture(t, k) \/ Lookup(t, k)
    \/ Check(t) \/ Insert(t) \/ Restore(t) \/ Discard(t) \/ Clear(t)
    \/ RetryStart(t) \/ Retry(t) \/ RetryDone(t) \/ RetryEnd(t)
    \/ Free(t) \/ Done(t)
    \/ \E l \in Levels : Resize(t, l)

SemanticNext == \E t \in Threads : SemanticStep(t)

SemanticSpec == SemanticInit /\ [][SemanticNext]_semanticVars

-----------------------------------------------------------------------------
(* The byte counter, updated entry by entry in four places, is the sum of  *)
(* what is cached, and both limits hold after every call: also when an     *)
(* anchor that passed the size test meets a capacity that shrank before it *)
(* took the lock.                                                          *)
WithinBudget ==
    /\ resident = TotalBytes(anchors, Size)
    /\ resident <= capacity.bytes
    /\ Cardinality(anchors) <= capacity.entries

(* Who will release a handle: an entry of the cache, a thread that has     *)
(* captured it and not yet put it, a release a thread is about to call, or *)
(* the list of failed releases.                                            *)
Holders(h) ==
    ({"cache"} \X {a \in anchors : a[1] = h})
       \cup ({"capture"} \X {t \in Threads : doing[t] \in {"check", "insert"} /\ anchor[t][1] = h})
       \cup ({"release"} \X UNION {{t} \X {p \in freeing[t] : p[2] = h} : t \in Threads})
Listed(h) == h \in owed \cup dropped
Retried(h) == \E t \in Threads : doing[t] = "retried" /\ anchor[t][1] = h

(* Every handle the backend holds has exactly one owner that will release  *)
(* it - the cache, one thread, the retry queue - or was counted as dropped,*)
(* and no owner has a handle that is gone: nothing leaks, and nothing is   *)
(* released twice unless two threads retry the same list, whatever evicts, *)
(* replaces, discards and resizes at the same time.                        *)
HandlesOwned ==
    /\ \A h \in backend : Cardinality(Holders(h)) = IF Listed(h) THEN 0 ELSE 1
    /\ \A h \in Handles \ backend : Holders(h) = {} /\ (h \in owed => Retried(h))
=============================================================================
