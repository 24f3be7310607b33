-------------------------- MODULE ThreadEngineProofs --------------------------
(***************************************************************************)
(* What holds of the owner-thread engine for any number of requests and    *)
(* any queue length; above all that it implements the lease.               *)
(***************************************************************************)
EXTENDS ThreadEngine, TLAPS

-----------------------------------------------------------------------------
(* The inductive invariant.  The order of the queue plays no part in it.   *)

Typed ==
    /\ RequestTypeOK
    /\ client \in [Requests -> ThreadClients]
    /\ queued \subseteq Requests
    /\ dropping \in [Requests -> SUBSET Requests]
    /\ closed \in BOOLEAN
    /\ closer \in {"open", "draining", "finishing", "closed"}
    /\ drained \subseteq Requests
    /\ owner \in {"starting", "getting", "took", "running", "returned",
                  "exiting", "failed", "stopped"}
    /\ current \in Requests \cup {None}
    /\ ran \subseteq Requests

(* Somebody has the command of r and will finish it.                       *)
Dropped(r) == \E c \in Requests : r \in dropping[c]
InEngine(r) == r \in queued \/ r = current \/ r \in drained \/ Dropped(r)

(* One place per command.                                                  *)
OnePlace ==
    \A r \in Requests :
        /\ r \in queued => r # current /\ r \notin drained /\ ~Dropped(r)
        /\ r = current => r \notin drained /\ ~Dropped(r)
        /\ r \in drained => ~Dropped(r)
        /\ \A c, d \in Requests : r \in dropping[c] /\ r \in dropping[d] => c = d

(* A command is in the engine from its put to its finish().                *)
Owed ==
    \A r \in Requests :
        /\ client[r] \in {"idle", "admitted", "sweeping"} => finished[r] = 0 /\ ~InEngine(r)
        /\ InEngine(r) => finished[r] = 0
        /\ client[r] \in {"waiting", "cancelling", "abandoning"} =>
              InEngine(r) \/ finished[r] = 1
        /\ client[r] = "left" /\ InEngine(r) => r \in watching
        /\ finished[r] \in {0, 1}

(* A lease is held while the handler is there, and after it while the      *)
(* completion future is not done.                                          *)
Held ==
    \A r \in Requests :
        /\ client[r] = "idle" <=> lease[r] = "none"
        /\ client[r] \notin {"idle", "left"} => lease[r] = "held" /\ r \notin watching
        /\ client[r] = "idle" => r \notin watching
        /\ r \in watching => lease[r] = "held" /\ InEngine(r)
        /\ client[r] = "left" /\ r \notin watching => lease[r] = "released"

(* The owner has a command exactly between get and finish(); a native call *)
(* has begun only for the one it runs and for finished ones.               *)
OwnerHas ==
    /\ current # None <=> owner \in {"took", "running", "returned"}
    /\ owner \in {"running", "returned"} => current \in ran
    /\ \A r \in ran : finished[r] = 1 \/ (r = current /\ owner \in {"running", "returned"})

(* Only a handler in its sweep has dropped commands to finish.             *)
Sweeping ==
    \A r \in Requests : client[r] \notin {"sweeping", "abandoning"} => dropping[r] = {}

(* After close() drained the queue it stays empty.                         *)
Closing ==
    /\ closed <=> closer # "open"
    /\ closer \in {"finishing", "closed"} => queued = {}
    /\ closer \in {"open", "closed"} => drained = {}

ThreadInv == Typed /\ OnePlace /\ Owed /\ Held /\ OwnerHas /\ Sweeping /\ Closing


-----------------------------------------------------------------------------
(* A request is admitted with a lease.                                     *)
LEMMA ThreadAdmitKeeps ==
    ASSUME ThreadInv, NEW r \in Requests, ThreadAdmit(r)
    PROVE  ThreadInv'
<1> USE RequestAssumption DEF ThreadInv, Typed, RequestTypeOK, Leases, Contexts, ThreadClients,
      ThreadAdmit, Admit, threadVars
<1>1. Typed'  BY DEF OwnerHas
<1>2. OnePlace'  BY DEF OnePlace, Owed, Sweeping, OwnerHas, Dropped, InEngine
<1>3. Owed'  BY DEF Owed, OnePlace, OwnerHas, Sweeping, Held, Dropped, InEngine
<1>4. Held'  BY DEF Held, Owed, Sweeping, OwnerHas, OnePlace, Dropped, InEngine
<1>5. OwnerHas'  BY DEF OwnerHas, Owed, OnePlace, InEngine, Dropped
<1>6. Sweeping'  BY DEF Sweeping
<1>7. Closing'  BY DEF Closing
<1> QED  BY <1>1, <1>2, <1>3, <1>4, <1>5, <1>6, <1>7 DEF ThreadInv

(* A client disconnects or its deadline passes.                            *)
LEMMA ThreadInterruptKeeps ==
    ASSUME ThreadInv, NEW r \in Requests, ThreadInterrupt(r)
    PROVE  ThreadInv'
<1> USE RequestAssumption DEF ThreadInv, Typed, RequestTypeOK, Leases, Contexts, ThreadClients,
      ThreadInterrupt, Interrupt, threadVars
<1>1. Typed'  BY DEF OwnerHas
<1>2. OnePlace'  BY DEF OnePlace, Owed, Sweeping, OwnerHas, Dropped, InEngine
<1>3. Owed'  BY DEF Owed, OnePlace, OwnerHas, Sweeping, Held, Dropped, InEngine
<1>4. Held'  BY DEF Held, Owed, Sweeping, OwnerHas, OnePlace, Dropped, InEngine
<1>5. OwnerHas'  BY DEF OwnerHas, Owed, OnePlace, InEngine, Dropped
<1>6. Sweeping'  BY DEF Sweeping
<1>7. Closing'  BY DEF Closing
<1> QED  BY <1>1, <1>2, <1>3, <1>4, <1>5, <1>6, <1>7 DEF ThreadInv

(* A request that is cancelled already leaves.                             *)
LEMMA RefuseCancelledKeeps ==
    ASSUME ThreadInv, NEW r \in Requests, RefuseCancelled(r)
    PROVE  ThreadInv'
<1> USE RequestAssumption DEF ThreadInv, Typed, RequestTypeOK, Leases, Contexts, ThreadClients,
      RefuseCancelled, Leave, threadVars
<1>1. Typed'  BY DEF OwnerHas
<1>2. OnePlace'  BY DEF OnePlace, Owed, Sweeping, OwnerHas, Dropped, InEngine
<1>3. Owed'  BY DEF Owed, OnePlace, OwnerHas, Sweeping, Held, Dropped, InEngine
<1>4. Held'  BY DEF Held, Owed, Sweeping, OwnerHas, OnePlace, Dropped, InEngine
<1>5. OwnerHas'  BY DEF OwnerHas, Owed, OnePlace, InEngine, Dropped
<1>6. Sweeping'  BY DEF Sweeping
<1>7. Closing'  BY DEF Closing
<1> QED  BY <1>1, <1>2, <1>3, <1>4, <1>5, <1>6, <1>7 DEF ThreadInv

(* A handler sweeps the queue before it puts.                              *)
LEMMA EnterKeeps ==
    ASSUME ThreadInv, NEW r \in Requests, Enter(r)
    PROVE  ThreadInv'
<1> USE RequestAssumption DEF ThreadInv, Typed, RequestTypeOK, Leases, Contexts, ThreadClients,
      Enter, Sweep, Stale, closeVars, ownerVars
<1>1. Typed'  BY DEF OwnerHas
<1>2. OnePlace'  BY DEF OnePlace, Owed, Sweeping, OwnerHas, Dropped, InEngine
<1>3. Owed'  BY DEF Owed, OnePlace, OwnerHas, Sweeping, Held, Dropped, InEngine
<1>4. Held'  BY DEF Held, Owed, Sweeping, OwnerHas, OnePlace, Dropped, InEngine
<1>5. OwnerHas'  BY DEF OwnerHas, Owed, OnePlace, InEngine, Dropped
<1>6. Sweeping'  BY DEF Sweeping
<1>7. Closing'  BY DEF Closing
<1> QED  BY <1>1, <1>2, <1>3, <1>4, <1>5, <1>6, <1>7 DEF ThreadInv

(* A handler finishes a command it swept.                                  *)
LEMMA FinishDroppedKeeps ==
    ASSUME ThreadInv, NEW r \in Requests, NEW q \in Requests, FinishDropped(r, q)
    PROVE  ThreadInv'
<1> USE RequestAssumption DEF ThreadInv, Typed, RequestTypeOK, Leases, Contexts, ThreadClients,
      FinishDropped, Finish, queueVars, closeVars, ownerVars
<1>1. Typed'  BY DEF OwnerHas
<1>2. OnePlace'  BY DEF OnePlace, Owed, Sweeping, OwnerHas, Dropped, InEngine
<1>3. Owed'  BY DEF Owed, OnePlace, OwnerHas, Sweeping, Held, Dropped, InEngine
<1>4. Held'  BY DEF Held, Owed, Sweeping, OwnerHas, OnePlace, Dropped, InEngine
<1>5. OwnerHas'  BY DEF OwnerHas, Owed, OnePlace, InEngine, Dropped
<1>6. Sweeping'  BY DEF Sweeping
<1>7. Closing'  BY DEF Closing
<1> QED  BY <1>1, <1>2, <1>3, <1>4, <1>5, <1>6, <1>7 DEF ThreadInv

(* The engine is closed or its queue full.                                 *)
LEMMA PutRefusedKeeps ==
    ASSUME ThreadInv, NEW r \in Requests, PutRefused(r)
    PROVE  ThreadInv'
<1> USE RequestAssumption DEF ThreadInv, Typed, RequestTypeOK, Leases, Contexts, ThreadClients,
      PutRefused, Leave, threadVars
<1>1. Typed'  BY DEF OwnerHas
<1>2. OnePlace'  BY DEF OnePlace, Owed, Sweeping, OwnerHas, Dropped, InEngine
<1>3. Owed'  BY DEF Owed, OnePlace, OwnerHas, Sweeping, Held, Dropped, InEngine
<1>4. Held'  BY DEF Held, Owed, Sweeping, OwnerHas, OnePlace, Dropped, InEngine
<1>5. OwnerHas'  BY DEF OwnerHas, Owed, OnePlace, InEngine, Dropped
<1>6. Sweeping'  BY DEF Sweeping
<1>7. Closing'  BY DEF Closing
<1> QED  BY <1>1, <1>2, <1>3, <1>4, <1>5, <1>6, <1>7 DEF ThreadInv

(* A command enters the queue.                                             *)
LEMMA PutKeeps ==
    ASSUME ThreadInv, NEW r \in Requests, Put(r)
    PROVE  ThreadInv'
<1> USE RequestAssumption DEF ThreadInv, Typed, RequestTypeOK, Leases, Contexts, ThreadClients,
      Put, closeVars, ownerVars, StateLockFree
<1>1. Typed'  BY DEF OwnerHas
<1>2. OnePlace'  BY DEF OnePlace, Owed, Sweeping, OwnerHas, Dropped, InEngine
<1>3. Owed'  BY DEF Owed, OnePlace, OwnerHas, Sweeping, Held, Dropped, InEngine
<1>4. Held'  BY DEF Held, Owed, Sweeping, OwnerHas, OnePlace, Dropped, InEngine
<1>5. OwnerHas'  BY DEF OwnerHas, Owed, OnePlace, InEngine, Dropped
<1>6. Sweeping'  BY DEF Sweeping
<1>7. Closing'  BY DEF Closing
<1> QED  BY <1>1, <1>2, <1>3, <1>4, <1>5, <1>6, <1>7 DEF ThreadInv

(* A handler returns its result.                                           *)
LEMMA ThreadAnsweredKeeps ==
    ASSUME ThreadInv, NEW r \in Requests, ThreadAnswered(r)
    PROVE  ThreadInv'
<1> USE RequestAssumption DEF ThreadInv, Typed, RequestTypeOK, Leases, Contexts, ThreadClients,
      ThreadAnswered, Leave, threadVars
<1>1. Typed'  BY DEF OwnerHas
<1>2. OnePlace'  BY DEF OnePlace, Owed, Sweeping, OwnerHas, Dropped, InEngine
<1>3. Owed'  BY DEF Owed, OnePlace, OwnerHas, Sweeping, Held, Dropped, InEngine
<1>4. Held'  BY DEF Held, Owed, Sweeping, OwnerHas, OnePlace, Dropped, InEngine
<1>5. OwnerHas'  BY DEF OwnerHas, Owed, OnePlace, InEngine, Dropped
<1>6. Sweeping'  BY DEF Sweeping
<1>7. Closing'  BY DEF Closing
<1> QED  BY <1>1, <1>2, <1>3, <1>4, <1>5, <1>6, <1>7 DEF ThreadInv

(* A handler sees that its request is cancelled.                           *)
LEMMA ThreadObserveCancelledKeeps ==
    ASSUME ThreadInv, NEW r \in Requests, ThreadObserveCancelled(r)
    PROVE  ThreadInv'
<1> USE RequestAssumption DEF ThreadInv, Typed, RequestTypeOK, Leases, Contexts, ThreadClients,
      ThreadObserveCancelled, threadVars
<1>1. Typed'  BY DEF OwnerHas
<1>2. OnePlace'  BY DEF OnePlace, Owed, Sweeping, OwnerHas, Dropped, InEngine
<1>3. Owed'  BY DEF Owed, OnePlace, OwnerHas, Sweeping, Held, Dropped, InEngine
<1>4. Held'  BY DEF Held, Owed, Sweeping, OwnerHas, OnePlace, Dropped, InEngine
<1>5. OwnerHas'  BY DEF OwnerHas, Owed, OnePlace, InEngine, Dropped
<1>6. Sweeping'  BY DEF Sweeping
<1>7. Closing'  BY DEF Closing
<1> QED  BY <1>1, <1>2, <1>3, <1>4, <1>5, <1>6, <1>7 DEF ThreadInv

(* A cancelled handler sweeps the queue.                                   *)
LEMMA AbandonKeeps ==
    ASSUME ThreadInv, NEW r \in Requests, Abandon(r)
    PROVE  ThreadInv'
<1> USE RequestAssumption DEF ThreadInv, Typed, RequestTypeOK, Leases, Contexts, ThreadClients,
      Abandon, Sweep, Stale, closeVars, ownerVars
<1>1. Typed'  BY DEF OwnerHas
<1>2. OnePlace'  BY DEF OnePlace, Owed, Sweeping, OwnerHas, Dropped, InEngine
<1>3. Owed'  BY DEF Owed, OnePlace, OwnerHas, Sweeping, Held, Dropped, InEngine
<1>4. Held'  BY DEF Held, Owed, Sweeping, OwnerHas, OnePlace, Dropped, InEngine
<1>5. OwnerHas'  BY DEF OwnerHas, Owed, OnePlace, InEngine, Dropped
<1>6. Sweeping'  BY DEF Sweeping
<1>7. Closing'  BY DEF Closing
<1> QED  BY <1>1, <1>2, <1>3, <1>4, <1>5, <1>6, <1>7 DEF ThreadInv

(* A cancelled handler leaves its lease to the completion future.          *)
LEMMA RaiseCancelledKeeps ==
    ASSUME ThreadInv, NEW r \in Requests, RaiseCancelled(r)
    PROVE  ThreadInv'
<1> USE RequestAssumption DEF ThreadInv, Typed, RequestTypeOK, Leases, Contexts, ThreadClients,
      RaiseCancelled, LeaveOnCompletion, threadVars
<1>1. Typed'  BY DEF OwnerHas
<1>2. OnePlace'  BY DEF OnePlace, Owed, Sweeping, OwnerHas, Dropped, InEngine
<1>3. Owed'  BY DEF Owed, OnePlace, OwnerHas, Sweeping, Held, Dropped, InEngine
<1>4. Held'  BY DEF Held, Owed, Sweeping, OwnerHas, OnePlace, Dropped, InEngine
<1>5. OwnerHas'  BY DEF OwnerHas, Owed, OnePlace, InEngine, Dropped
<1>6. Sweeping'  BY DEF Sweeping
<1>7. Closing'  BY DEF Closing
<1> QED  BY <1>1, <1>2, <1>3, <1>4, <1>5, <1>6, <1>7 DEF ThreadInv

(* The constructor gives up.                                               *)
LEMMA StartupTimesOutKeeps ==
    ASSUME ThreadInv, StartupTimesOut
    PROVE  ThreadInv'
<1> USE RequestAssumption DEF ThreadInv, Typed, RequestTypeOK, Leases, Contexts, ThreadClients,
      StartupTimesOut, requestVars, queueVars, closeVars, ownerVars
<1>1. Typed'  BY DEF OwnerHas
<1>2. OnePlace'  BY DEF OnePlace, Owed, Sweeping, OwnerHas, Dropped, InEngine
<1>3. Owed'  BY DEF Owed, OnePlace, OwnerHas, Sweeping, Held, Dropped, InEngine
<1>4. Held'  BY DEF Held, Owed, Sweeping, OwnerHas, OnePlace, Dropped, InEngine
<1>5. OwnerHas'  BY DEF OwnerHas, Owed, OnePlace, InEngine, Dropped
<1>6. Sweeping'  BY DEF Sweeping
<1>7. Closing'  BY DEF Closing
<1> QED  BY <1>1, <1>2, <1>3, <1>4, <1>5, <1>6, <1>7 DEF ThreadInv

(* The constructor sees the owner started.                                 *)
LEMMA ThreadBuiltKeeps ==
    ASSUME ThreadInv, ThreadBuilt
    PROVE  ThreadInv'
<1> USE RequestAssumption DEF ThreadInv, Typed, RequestTypeOK, Leases, Contexts, ThreadClients,
      ThreadBuilt, requestVars, queueVars, closeVars, ownerVars
<1>1. Typed'  BY DEF OwnerHas
<1>2. OnePlace'  BY DEF OnePlace, Owed, Sweeping, OwnerHas, Dropped, InEngine
<1>3. Owed'  BY DEF Owed, OnePlace, OwnerHas, Sweeping, Held, Dropped, InEngine
<1>4. Held'  BY DEF Held, Owed, Sweeping, OwnerHas, OnePlace, Dropped, InEngine
<1>5. OwnerHas'  BY DEF OwnerHas, Owed, OnePlace, InEngine, Dropped
<1>6. Sweeping'  BY DEF Sweeping
<1>7. Closing'  BY DEF Closing
<1> QED  BY <1>1, <1>2, <1>3, <1>4, <1>5, <1>6, <1>7 DEF ThreadInv

(* close() begins.                                                         *)
LEMMA ThreadCloseStartKeeps ==
    ASSUME ThreadInv, ThreadCloseStart
    PROVE  ThreadInv'
<1> USE RequestAssumption DEF ThreadInv, Typed, RequestTypeOK, Leases, Contexts, ThreadClients,
      ThreadCloseStart, requestVars, queueVars, ownerVars
<1>1. Typed'  BY DEF OwnerHas
<1>2. OnePlace'  BY DEF OnePlace, Owed, Sweeping, OwnerHas, Dropped, InEngine
<1>3. Owed'  BY DEF Owed, OnePlace, OwnerHas, Sweeping, Held, Dropped, InEngine
<1>4. Held'  BY DEF Held, Owed, Sweeping, OwnerHas, OnePlace, Dropped, InEngine
<1>5. OwnerHas'  BY DEF OwnerHas, Owed, OnePlace, InEngine, Dropped
<1>6. Sweeping'  BY DEF Sweeping
<1>7. Closing'  BY DEF Closing
<1> QED  BY <1>1, <1>2, <1>3, <1>4, <1>5, <1>6, <1>7 DEF ThreadInv

(* close() takes a command from the queue.                                 *)
LEMMA DrainOneKeeps ==
    ASSUME ThreadInv, NEW r \in Requests, DrainOne(r)
    PROVE  ThreadInv'
<1> USE RequestAssumption DEF ThreadInv, Typed, RequestTypeOK, Leases, Contexts, ThreadClients,
      DrainOne, requestVars, IsFirst, ownerVars
<1>1. Typed'  BY DEF OwnerHas
<1>2. OnePlace'  BY DEF OnePlace, Owed, Sweeping, OwnerHas, Dropped, InEngine
<1>3. Owed'  BY DEF Owed, OnePlace, OwnerHas, Sweeping, Held, Dropped, InEngine
<1>4. Held'  BY DEF Held, Owed, Sweeping, OwnerHas, OnePlace, Dropped, InEngine
<1>5. OwnerHas'  BY DEF OwnerHas, Owed, OnePlace, InEngine, Dropped
<1>6. Sweeping'  BY DEF Sweeping
<1>7. Closing'  BY DEF Closing
<1> QED  BY <1>1, <1>2, <1>3, <1>4, <1>5, <1>6, <1>7 DEF ThreadInv

(* close() found the queue empty.                                          *)
LEMMA DrainEndKeeps ==
    ASSUME ThreadInv, DrainEnd
    PROVE  ThreadInv'
<1> USE RequestAssumption DEF ThreadInv, Typed, RequestTypeOK, Leases, Contexts, ThreadClients,
      DrainEnd, requestVars, ownerVars
<1>1. Typed'  BY DEF OwnerHas
<1>2. OnePlace'  BY DEF OnePlace, Owed, Sweeping, OwnerHas, Dropped, InEngine
<1>3. Owed'  BY DEF Owed, OnePlace, OwnerHas, Sweeping, Held, Dropped, InEngine
<1>4. Held'  BY DEF Held, Owed, Sweeping, OwnerHas, OnePlace, Dropped, InEngine
<1>5. OwnerHas'  BY DEF OwnerHas, Owed, OnePlace, InEngine, Dropped
<1>6. Sweeping'  BY DEF Sweeping
<1>7. Closing'  BY DEF Closing
<1> QED  BY <1>1, <1>2, <1>3, <1>4, <1>5, <1>6, <1>7 DEF ThreadInv

(* close() finishes a command it drained.                                  *)
LEMMA FinishDrainedKeeps ==
    ASSUME ThreadInv, NEW q \in Requests, FinishDrained(q)
    PROVE  ThreadInv'
<1> USE RequestAssumption DEF ThreadInv, Typed, RequestTypeOK, Leases, Contexts, ThreadClients,
      FinishDrained, Finish, queueVars, ownerVars
<1>1. Typed'  BY DEF OwnerHas
<1>2. OnePlace'  BY DEF OnePlace, Owed, Sweeping, OwnerHas, Dropped, InEngine
<1>3. Owed'  BY DEF Owed, OnePlace, OwnerHas, Sweeping, Held, Dropped, InEngine
<1>4. Held'  BY DEF Held, Owed, Sweeping, OwnerHas, OnePlace, Dropped, InEngine
<1>5. OwnerHas'  BY DEF OwnerHas, Owed, OnePlace, InEngine, Dropped
<1>6. Sweeping'  BY DEF Sweeping
<1>7. Closing'  BY DEF Closing
<1> QED  BY <1>1, <1>2, <1>3, <1>4, <1>5, <1>6, <1>7 DEF ThreadInv

(* close() has joined the owner.                                           *)
LEMMA ThreadCloseEndKeeps ==
    ASSUME ThreadInv, ThreadCloseEnd
    PROVE  ThreadInv'
<1> USE RequestAssumption DEF ThreadInv, Typed, RequestTypeOK, Leases, Contexts, ThreadClients,
      ThreadCloseEnd, requestVars, queueVars, ownerVars
<1>1. Typed'  BY DEF OwnerHas
<1>2. OnePlace'  BY DEF OnePlace, Owed, Sweeping, OwnerHas, Dropped, InEngine
<1>3. Owed'  BY DEF Owed, OnePlace, OwnerHas, Sweeping, Held, Dropped, InEngine
<1>4. Held'  BY DEF Held, Owed, Sweeping, OwnerHas, OnePlace, Dropped, InEngine
<1>5. OwnerHas'  BY DEF OwnerHas, Owed, OnePlace, InEngine, Dropped
<1>6. Sweeping'  BY DEF Sweeping
<1>7. Closing'  BY DEF Closing
<1> QED  BY <1>1, <1>2, <1>3, <1>4, <1>5, <1>6, <1>7 DEF ThreadInv

(* The native engine is created, or not.                                   *)
LEMMA OwnerStartsKeeps ==
    ASSUME ThreadInv, OwnerStarts
    PROVE  ThreadInv'
<1> USE RequestAssumption DEF ThreadInv, Typed, RequestTypeOK, Leases, Contexts, ThreadClients,
      OwnerStarts, requestVars, ownerFrame, queueVars, closeVars
<1>1. Typed'  BY DEF OwnerHas
<1>2. OnePlace'  BY DEF OnePlace, Owed, Sweeping, OwnerHas, Dropped, InEngine
<1>3. Owed'  BY DEF Owed, OnePlace, OwnerHas, Sweeping, Held, Dropped, InEngine
<1>4. Held'  BY DEF Held, Owed, Sweeping, OwnerHas, OnePlace, Dropped, InEngine
<1>5. OwnerHas'  BY DEF OwnerHas, Owed, OnePlace, InEngine, Dropped
<1>6. Sweeping'  BY DEF Sweeping
<1>7. Closing'  BY DEF Closing
<1> QED  BY <1>1, <1>2, <1>3, <1>4, <1>5, <1>6, <1>7 DEF ThreadInv

(* The owner takes the first command.                                      *)
LEMMA OwnerTakesKeeps ==
    ASSUME ThreadInv, NEW r \in Requests, OwnerTakes(r)
    PROVE  ThreadInv'
<1> USE RequestAssumption DEF ThreadInv, Typed, RequestTypeOK, Leases, Contexts, ThreadClients,
      OwnerTakes, requestVars, IsFirst, closeVars
<1>1. Typed'  BY DEF OwnerHas
<1>2. OnePlace'  BY DEF OnePlace, Owed, Sweeping, OwnerHas, Dropped, InEngine
<1>3. Owed'  BY DEF Owed, OnePlace, OwnerHas, Sweeping, Held, Dropped, InEngine
<1>4. Held'  BY DEF Held, Owed, Sweeping, OwnerHas, OnePlace, Dropped, InEngine
<1>5. OwnerHas'  BY DEF OwnerHas, Owed, OnePlace, InEngine, Dropped
<1>6. Sweeping'  BY DEF Sweeping
<1>7. Closing'  BY DEF Closing
<1> QED  BY <1>1, <1>2, <1>3, <1>4, <1>5, <1>6, <1>7 DEF ThreadInv

(* The owner takes the sentinel.                                           *)
LEMMA OwnerTakesNoneKeeps ==
    ASSUME ThreadInv, OwnerTakesNone
    PROVE  ThreadInv'
<1> USE RequestAssumption DEF ThreadInv, Typed, RequestTypeOK, Leases, Contexts, ThreadClients,
      OwnerTakesNone, requestVars, closeVars
<1>1. Typed'  BY DEF OwnerHas
<1>2. OnePlace'  BY DEF OnePlace, Owed, Sweeping, OwnerHas, Dropped, InEngine
<1>3. Owed'  BY DEF Owed, OnePlace, OwnerHas, Sweeping, Held, Dropped, InEngine
<1>4. Held'  BY DEF Held, Owed, Sweeping, OwnerHas, OnePlace, Dropped, InEngine
<1>5. OwnerHas'  BY DEF OwnerHas, Owed, OnePlace, InEngine, Dropped
<1>6. Sweeping'  BY DEF Sweeping
<1>7. Closing'  BY DEF Closing
<1> QED  BY <1>1, <1>2, <1>3, <1>4, <1>5, <1>6, <1>7 DEF ThreadInv

(* The owner finishes a cancelled command without a call.                  *)
LEMMA OwnerRejectsKeeps ==
    ASSUME ThreadInv, OwnerRejects
    PROVE  ThreadInv'
<1> USE RequestAssumption DEF ThreadInv, Typed, RequestTypeOK, Leases, Contexts, ThreadClients,
      OwnerRejects, Finish, ownerFrame, queueVars, closeVars
<1>1. Typed'  BY DEF OwnerHas
<1>2. OnePlace'  BY DEF OnePlace, Owed, Sweeping, OwnerHas, Dropped, InEngine
<1>3. Owed'  BY DEF Owed, OnePlace, OwnerHas, Sweeping, Held, Dropped, InEngine
<1>4. Held'  BY DEF Held, Owed, Sweeping, OwnerHas, OnePlace, Dropped, InEngine
<1>5. OwnerHas'  BY DEF OwnerHas, Owed, OnePlace, InEngine, Dropped
<1>6. Sweeping'  BY DEF Sweeping
<1>7. Closing'  BY DEF Closing
<1> QED  BY <1>1, <1>2, <1>3, <1>4, <1>5, <1>6, <1>7 DEF ThreadInv

(* The native call begins.                                                 *)
LEMMA OwnerCallsKeeps ==
    ASSUME ThreadInv, OwnerCalls
    PROVE  ThreadInv'
<1> USE RequestAssumption DEF ThreadInv, Typed, RequestTypeOK, Leases, Contexts, ThreadClients,
      OwnerCalls, requestVars, ownerFrame, queueVars, closeVars
<1>1. Typed'  BY DEF OwnerHas
<1>2. OnePlace'  BY DEF OnePlace, Owed, Sweeping, OwnerHas, Dropped, InEngine
<1>3. Owed'  BY DEF Owed, OnePlace, OwnerHas, Sweeping, Held, Dropped, InEngine
<1>4. Held'  BY DEF Held, Owed, Sweeping, OwnerHas, OnePlace, Dropped, InEngine
<1>5. OwnerHas'  BY DEF OwnerHas, Owed, OnePlace, InEngine, Dropped
<1>6. Sweeping'  BY DEF Sweeping
<1>7. Closing'  BY DEF Closing
<1> QED  BY <1>1, <1>2, <1>3, <1>4, <1>5, <1>6, <1>7 DEF ThreadInv

(* The native call ends.                                                   *)
LEMMA OwnerReturnsKeeps ==
    ASSUME ThreadInv, OwnerReturns
    PROVE  ThreadInv'
<1> USE RequestAssumption DEF ThreadInv, Typed, RequestTypeOK, Leases, Contexts, ThreadClients,
      OwnerReturns, requestVars, ownerFrame, queueVars, closeVars
<1>1. Typed'  BY DEF OwnerHas
<1>2. OnePlace'  BY DEF OnePlace, Owed, Sweeping, OwnerHas, Dropped, InEngine
<1>3. Owed'  BY DEF Owed, OnePlace, OwnerHas, Sweeping, Held, Dropped, InEngine
<1>4. Held'  BY DEF Held, Owed, Sweeping, OwnerHas, OnePlace, Dropped, InEngine
<1>5. OwnerHas'  BY DEF OwnerHas, Owed, OnePlace, InEngine, Dropped
<1>6. Sweeping'  BY DEF Sweeping
<1>7. Closing'  BY DEF Closing
<1> QED  BY <1>1, <1>2, <1>3, <1>4, <1>5, <1>6, <1>7 DEF ThreadInv

(* The owner finishes the command it ran.                                  *)
LEMMA OwnerFinishesKeeps ==
    ASSUME ThreadInv, OwnerFinishes
    PROVE  ThreadInv'
<1> USE RequestAssumption DEF ThreadInv, Typed, RequestTypeOK, Leases, Contexts, ThreadClients,
      OwnerFinishes, Finish, ownerFrame, queueVars, closeVars
<1>1. Typed'  BY DEF OwnerHas
<1>2. OnePlace'  BY DEF OnePlace, Owed, Sweeping, OwnerHas, Dropped, InEngine
<1>3. Owed'  BY DEF Owed, OnePlace, OwnerHas, Sweeping, Held, Dropped, InEngine
<1>4. Held'  BY DEF Held, Owed, Sweeping, OwnerHas, OnePlace, Dropped, InEngine
<1>5. OwnerHas'  BY DEF OwnerHas, Owed, OnePlace, InEngine, Dropped
<1>6. Sweeping'  BY DEF Sweeping
<1>7. Closing'  BY DEF Closing
<1> QED  BY <1>1, <1>2, <1>3, <1>4, <1>5, <1>6, <1>7 DEF ThreadInv

(* The owner thread ends.                                                  *)
LEMMA OwnerExitsKeeps ==
    ASSUME ThreadInv, OwnerExits
    PROVE  ThreadInv'
<1> USE RequestAssumption DEF ThreadInv, Typed, RequestTypeOK, Leases, Contexts, ThreadClients,
      OwnerExits, requestVars, ownerFrame, queueVars, closeVars
<1>1. Typed'  BY DEF OwnerHas
<1>2. OnePlace'  BY DEF OnePlace, Owed, Sweeping, OwnerHas, Dropped, InEngine
<1>3. Owed'  BY DEF Owed, OnePlace, OwnerHas, Sweeping, Held, Dropped, InEngine
<1>4. Held'  BY DEF Held, Owed, Sweeping, OwnerHas, OnePlace, Dropped, InEngine
<1>5. OwnerHas'  BY DEF OwnerHas, Owed, OnePlace, InEngine, Dropped
<1>6. Sweeping'  BY DEF Sweeping
<1>7. Closing'  BY DEF Closing
<1> QED  BY <1>1, <1>2, <1>3, <1>4, <1>5, <1>6, <1>7 DEF ThreadInv

-----------------------------------------------------------------------------
(* Nothing has begun.                                                      *)
LEMMA StartHolds ==
    ASSUME ThreadInit
    PROVE  ThreadInv
BY RequestAssumption DEF ThreadInit, RequestInit, ThreadInv, Typed, RequestTypeOK, Leases,
       Contexts, ThreadClients, OnePlace, Owed, Held, OwnerHas, Sweeping, Closing, Dropped,
       InEngine

(* A step that changes nothing keeps the invariant.                        *)
LEMMA StutterKeeps ==
    ASSUME ThreadInv, UNCHANGED engineVars
    PROVE  ThreadInv'
BY DEF ThreadInv, Typed, RequestTypeOK, OnePlace, Owed, Held, OwnerHas, Sweeping, Closing,
       Dropped, InEngine, engineVars, requestVars, threadVars

(* Every step of a handler, of close() and of the owner keeps it.          *)
LEMMA NextKeeps ==
    ASSUME ThreadInv, [ThreadNext]_engineVars
    PROVE  ThreadInv'
<1>1. ASSUME NEW r \in Requests, ClientStep(r)
      PROVE  ThreadInv'
    BY <1>1, RefuseCancelledKeeps, EnterKeeps, FinishDroppedKeeps, PutRefusedKeeps, PutKeeps,
       ThreadAnsweredKeeps, ThreadObserveCancelledKeeps, AbandonKeeps, RaiseCancelledKeeps
    DEF ClientStep
<1>2. ASSUME NEW r \in Requests, ThreadAdmit(r) \/ ThreadInterrupt(r)
      PROVE  ThreadInv'
    BY <1>2, ThreadAdmitKeeps, ThreadInterruptKeeps
<1>3. CASE StartupTimesOut \/ ThreadBuilt \/ ThreadCloseStart
    BY <1>3, StartupTimesOutKeeps, ThreadBuiltKeeps, ThreadCloseStartKeeps
<1>4. CASE ThreadCloserStep
    BY <1>4, DrainOneKeeps, FinishDrainedKeeps, DrainEndKeeps, ThreadCloseEndKeeps
    DEF ThreadCloserStep
<1>5. CASE OwnerStep
    BY <1>5, OwnerStartsKeeps, OwnerTakesKeeps, OwnerTakesNoneKeeps, OwnerRejectsKeeps,
       OwnerCallsKeeps, OwnerReturnsKeeps, OwnerFinishesKeeps, OwnerExitsKeeps
    DEF OwnerStep
<1>6. CASE UNCHANGED engineVars
    BY <1>6, StutterKeeps
<1> QED  BY <1>1, <1>2, <1>3, <1>4, <1>5, <1>6 DEF ThreadNext

(* The inductive invariant of the owner-thread engine holds in every       *)
(* state, for any number of handlers and any queue length.                 *)
THEOREM ThreadSafety == ThreadSpec => []ThreadInv
<1>1. ThreadInit => ThreadInv
    BY StartHolds
<1>2. ThreadInv /\ [ThreadNext]_engineVars => ThreadInv'
    BY NextKeeps
<1> QED  BY <1>1, <1>2, PTL DEF ThreadSpec

(* The owner, the sweeps of two handlers and the drain of close() never    *)
(* finish the same command twice.                                          *)
THEOREM ThreadFinishesOnce == ThreadSpec => []FinishedOnce
<1>1. ThreadInv => FinishedOnce
    BY DEF ThreadInv, Owed, FinishedOnce
<1> QED  BY <1>1, ThreadSafety, PTL

(* A close() that succeeded left no command and no unanswered handler.     *)
THEOREM ThreadClosesEmpty == ThreadSpec => []ClosedIsEmpty
<1>1. ThreadInv => ClosedIsEmpty
    BY RequestAssumption DEF ThreadInv, Typed, Owed, OwnerHas, Closing, InEngine, Dropped,
           ClosedIsEmpty
<1> QED  BY <1>1, ThreadSafety, PTL

-----------------------------------------------------------------------------
(* The refinement.  A step is judged by what it does to the lease and to   *)
(* the execution of each request.                                          *)
LeaseStep == ThreadLease!LeaseNext \/ UNCHANGED <<lease, ThreadExecution>>

(* A step that leaves the owner's variables alone changes no execution.    *)
LEMMA SameExecution ==
    ASSUME owner' = owner, current' = current, ran' = ran
    PROVE  ThreadExecution' = ThreadExecution
BY DEF ThreadExecution

(* A request that left, or was answered, is not running.                   *)
LEMMA NotRunning ==
    ASSUME ThreadInv, NEW r \in Requests,
           client[r] \in {"admitted", "sweeping"} \/ finished[r] > 0 \/ owner # "running"
               \/ current # r
    PROVE  ThreadExecution[r] # "running"
BY DEF ThreadInv, Typed, RequestTypeOK, Owed, InEngine, ThreadExecution

(* Giving back a lease outside the owner is a Return.                      *)
LEMMA ReturnSteps ==
    ASSUME NEW r \in Requests, lease[r] = "held", ThreadExecution[r] # "running",
           lease' = [lease EXCEPT ![r] = "released"], ThreadExecution' = ThreadExecution
    PROVE  LeaseStep
BY DEF LeaseStep, ThreadLease!LeaseNext, ThreadLease!Return

(* finish() of a command that is not running gives back the lease of a     *)
(* request that left, and nothing otherwise.                               *)
LEMMA FinishSteps ==
    ASSUME ThreadInv, NEW r \in Requests, Finish(r), ThreadExecution[r] # "running",
           ThreadExecution' = ThreadExecution
    PROVE  LeaseStep
<1>1. CASE r \in watching
    BY <1>1, ReturnSteps DEF ThreadInv, Held, Finish
<1>2. CASE r \notin watching
    BY <1>2 DEF Finish, LeaseStep
<1> QED  BY <1>1, <1>2

(* The steps of the handlers: a lease is granted on admission and goes     *)
(* back when its request is answered, refused, or left after its finish(). *)
LEMMA ClientRefines ==
    ASSUME ThreadInv, NEW r \in Requests,
           ThreadAdmit(r) \/ ThreadInterrupt(r) \/ ClientStep(r)
    PROVE  LeaseStep
<1>1. ThreadExecution' = ThreadExecution
    BY SameExecution DEF ThreadAdmit, ThreadInterrupt, ClientStep, RefuseCancelled, Enter,
       FinishDropped, PutRefused, Put, ThreadAnswered, ThreadObserveCancelled, Abandon,
       RaiseCancelled, ownerVars, threadVars
<1>2. CASE ThreadAdmit(r)
    BY <1>1, <1>2 DEF ThreadAdmit, Admit, ThreadInv, Held, LeaseStep, ThreadLease!LeaseNext,
       ThreadLease!Grant
<1>3. CASE RefuseCancelled(r) \/ PutRefused(r) \/ ThreadAnswered(r)
    <2>1. lease[r] = "held" /\ ThreadExecution[r] # "running"
        BY <1>3, NotRunning DEF RefuseCancelled, PutRefused, ThreadAnswered, ThreadInv, Held
    <2> QED  BY <1>1, <1>3, <2>1, ReturnSteps
             DEF RefuseCancelled, PutRefused, ThreadAnswered, Leave
<1>4. CASE RaiseCancelled(r)
    <2>1. lease[r] = "held" /\ (finished[r] > 0 => ThreadExecution[r] # "running")
        BY <1>4, NotRunning DEF RaiseCancelled, ThreadInv, Held
    <2> QED  BY <1>1, <1>4, <2>1, ReturnSteps DEF RaiseCancelled, LeaveOnCompletion, LeaseStep
<1>5. ASSUME NEW q \in Requests, FinishDropped(r, q)
      PROVE  LeaseStep
    <2>1. current # q
        BY <1>5 DEF FinishDropped, ThreadInv, OnePlace, Dropped
    <2> QED  BY <1>1, <1>5, <2>1, NotRunning, FinishSteps DEF FinishDropped
<1>6. CASE ThreadInterrupt(r) \/ Enter(r) \/ Put(r) \/ ThreadObserveCancelled(r) \/ Abandon(r)
    BY <1>1, <1>6 DEF ThreadInterrupt, Interrupt, Enter, Put, ThreadObserveCancelled, Abandon,
       LeaseStep
<1> QED  BY <1>2, <1>3, <1>4, <1>5, <1>6 DEF ClientStep

(* The steps of the constructor and of close(): only finish() of a drained *)
(* command touches a lease.                                                *)
LEMMA CloserRefines ==
    ASSUME ThreadInv,
           StartupTimesOut \/ ThreadBuilt \/ ThreadCloseStart \/ ThreadCloserStep
    PROVE  LeaseStep
<1>1. ThreadExecution' = ThreadExecution
    BY SameExecution DEF StartupTimesOut, ThreadBuilt, ThreadCloseStart, ThreadCloserStep,
       DrainOne, FinishDrained, DrainEnd, ThreadCloseEnd, ownerVars
<1>2. ASSUME NEW q \in Requests, FinishDrained(q)
      PROVE  LeaseStep
    <2>1. current # q
        BY <1>2 DEF FinishDrained, ThreadInv, OnePlace
    <2> QED  BY <1>1, <1>2, <2>1, NotRunning, FinishSteps DEF FinishDrained
<1>3. CASE \/ StartupTimesOut \/ ThreadBuilt \/ ThreadCloseStart \/ DrainEnd \/ ThreadCloseEnd
           \/ \E r \in Requests : DrainOne(r)
    BY <1>1, <1>3 DEF StartupTimesOut, ThreadBuilt, ThreadCloseStart, DrainEnd, ThreadCloseEnd,
       DrainOne, requestVars, LeaseStep
<1> QED  BY <1>2, <1>3 DEF ThreadCloserStep

(* The steps of the owner: the call of the command it took is a Begin, its *)
(* return an End, and a finish() gives a lease back only without a call or *)
(* after it.                                                               *)
LEMMA OwnerRefines ==
    ASSUME ThreadInv, OwnerStep
    PROVE  LeaseStep
<1> USE RequestAssumption DEF ThreadInv, Typed, RequestTypeOK
<1>1. CASE OwnerCalls
    <2>1. current \in Requests /\ lease[current] = "held"
        BY <1>1 DEF OwnerCalls, OwnerHas, Owed, Held, InEngine, ThreadClients
    <2>2. ThreadExecution[current] = "none"
        BY <1>1, <2>1 DEF OwnerCalls, OwnerHas, Owed, InEngine, ThreadExecution
    <2>3. ThreadExecution' = [ThreadExecution EXCEPT ![current] = "running"]
        BY <1>1, <2>1 DEF OwnerCalls, ThreadExecution
    <2>4. lease' = lease
        BY <1>1 DEF OwnerCalls, requestVars
    <2> QED  BY <2>1, <2>2, <2>3, <2>4 DEF LeaseStep, ThreadLease!LeaseNext, ThreadLease!Begin
<1>2. CASE OwnerReturns
    <2>1. current \in Requests /\ ThreadExecution[current] = "running"
        BY <1>2 DEF OwnerReturns, OwnerHas, ThreadExecution
    <2>2. ThreadExecution' = [ThreadExecution EXCEPT ![current] = "over"]
        BY <1>2, <2>1 DEF OwnerReturns, OwnerHas, ThreadExecution
    <2>3. lease' = lease
        BY <1>2 DEF OwnerReturns, requestVars
    <2> QED  BY <2>1, <2>2, <2>3 DEF LeaseStep, ThreadLease!LeaseNext, ThreadLease!End
<1>3. CASE OwnerRejects \/ OwnerFinishes
    <2>1. current \in Requests /\ ThreadExecution[current] # "running"
        BY <1>3, NotRunning DEF OwnerRejects, OwnerFinishes, OwnerHas
    <2>2. ThreadExecution' = ThreadExecution
        BY <1>3 DEF OwnerRejects, OwnerFinishes, ThreadExecution
    <2> QED  BY <1>3, <2>1, <2>2, FinishSteps DEF OwnerRejects, OwnerFinishes
<1>4. CASE \/ OwnerStarts \/ OwnerTakesNone \/ OwnerExits
           \/ \E r \in Requests : OwnerTakes(r)
    <2>1. ThreadExecution' = ThreadExecution
        BY <1>4 DEF OwnerStarts, OwnerTakesNone, OwnerExits, OwnerTakes, ThreadExecution
    <2> QED  BY <1>4, <2>1 DEF OwnerStarts, OwnerTakesNone, OwnerExits, OwnerTakes,
                requestVars, LeaseStep
<1> QED  BY <1>1, <1>2, <1>3, <1>4 DEF OwnerStep

(* Every step of the engine is a step of the lease, or changes neither a   *)
(* lease nor an execution.                                                 *)
LEMMA StepRefines ==
    ASSUME ThreadInv, [ThreadNext]_engineVars
    PROVE  LeaseStep
<1>1. CASE UNCHANGED engineVars
    BY <1>1, SameExecution DEF engineVars, requestVars, threadVars, LeaseStep
<1> QED  BY <1>1, ClientRefines, CloserRefines, OwnerRefines DEF ThreadNext

(* The owner-thread engine implements the lease: whatever is cancelled,    *)
(* swept, drained or timed out, a lease goes back once, never while the    *)
(* native call of its request runs, and no call begins without one.        *)
THEOREM ThreadRefinesLease == ThreadSpec => ThreadKeepsLease
<1>1. ThreadInit => ThreadLease!LeaseInit
    BY RequestAssumption DEF ThreadInit, RequestInit, ThreadLease!LeaseInit, ThreadExecution
<1>2. ThreadInv /\ [ThreadNext]_engineVars => [ThreadLease!LeaseNext]_(ThreadLease!leaseVars)
    BY StepRefines DEF LeaseStep, ThreadLease!leaseVars
<1> QED  BY <1>1, <1>2, ThreadSafety, PTL DEF ThreadSpec, ThreadKeepsLease,
            ThreadLease!LeaseSpec
=============================================================================
