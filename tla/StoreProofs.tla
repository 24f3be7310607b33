----------------------------- MODULE StoreProofs -----------------------------
(***************************************************************************)
(* Proofs about the two stores that account for memory: the resident       *)
(* tensors behind the runtime's socket (module ResidentRuntime) and the    *)
(* semantic cache with the backend's state handles (module SemanticState). *)
(* Both count bytes one allocation at a time; the lemmas about TotalBytes  *)
(* come first and serve both.  Each part then states its inductive         *)
(* invariant, proves one lemma per action, and ends with its theorems.     *)
(***************************************************************************)
EXTENDS ResidentRuntime, SemanticState, FiniteSetTheorems, TLAPS

-----------------------------------------------------------------------------
(* The bytes of a finite set of allocations are a natural number.          *)
LEMMA BytesFinite ==
    ASSUME NEW S, IsFiniteSet(S), NEW size, \A a \in S : size[a[1]] \in Nat
    PROVE  IsFiniteSet(HeldBytes(S, size)) /\ TotalBytes(S, size) \in Nat
<1> DEFINE F == [a \in S |-> {a} \X (1 .. size[a[1]])]
           T == {{a} \X (1 .. size[a[1]]) : a \in S}
<1>1. F \in Surjection(S, T)  BY DEF Surjection
<1>2. IsFiniteSet(T)
    <2> HIDE DEF F, T
    <2> QED  BY <1>1, FS_Surjection
<1>3. ASSUME NEW a \in S PROVE IsFiniteSet({a} \X (1 .. size[a[1]]))
    <2>1. IsFiniteSet(1 .. size[a[1]])  BY FS_Interval
    <2>2. IsFiniteSet({a})  BY FS_Singleton
    <2> QED  BY <2>1, <2>2, FS_Product
<1>4. \A B \in T : IsFiniteSet(B)  BY <1>3
<1>5. IsFiniteSet(UNION T)
    <2> HIDE DEF T
    <2> QED  BY <1>2, <1>4, FS_UNION
<1>6. HeldBytes(S, size) = UNION T  BY Zenon DEF HeldBytes
<1> HIDE DEF T
<1>7. IsFiniteSet(HeldBytes(S, size))  BY <1>5, <1>6, Zenon
<1> QED  BY <1>7, FS_CardinalityType DEF TotalBytes

(* Two sets of allocations that share none hold what both hold.            *)
LEMMA BytesUnion ==
    ASSUME NEW S, NEW T, IsFiniteSet(S), IsFiniteSet(T), S \cap T = {}, NEW size,
           \A a \in S \cup T : size[a[1]] \in Nat
    PROVE  TotalBytes(S \cup T, size) = TotalBytes(S, size) + TotalBytes(T, size)
<1> DEFINE A == HeldBytes(S, size)
           B == HeldBytes(T, size)
<1>1. HeldBytes(S \cup T, size) = A \cup B  BY DEF HeldBytes
<1>2. A \cap B = {}
    <2>1. \A b \in A : b[1] \in S  BY DEF HeldBytes
    <2>2. \A b \in B : b[1] \in T  BY DEF HeldBytes
    <2> QED  BY <2>1, <2>2
<1>3. IsFiniteSet(A) /\ IsFiniteSet(B) /\ Cardinality(A) \in Nat /\ Cardinality(B) \in Nat
    BY BytesFinite DEF TotalBytes
<1> HIDE DEF A, B
<1>4. Cardinality(A \cup B) = Cardinality(A) + Cardinality(B) - Cardinality(A \cap B)
    BY <1>3, FS_Union
<1>5. Cardinality(A \cap B) = 0  BY <1>2, FS_EmptySet
<1>6. Cardinality(A \cup B) = Cardinality(A) + Cardinality(B)  BY <1>3, <1>4, <1>5
<1> QED  BY <1>1, <1>6, Zenon DEF A, B, TotalBytes

(* No allocation, no bytes.                                                *)
LEMMA BytesEmpty ==
    ASSUME NEW size
    PROVE  TotalBytes({}, size) = 0
<1>1. HeldBytes({}, size) = {}  BY DEF HeldBytes
<1>2. Cardinality({}) = 0  BY FS_EmptySet
<1> QED  BY <1>1, <1>2, Zenon DEF TotalBytes

(* A further allocation adds its own bytes.                                *)
LEMMA BytesAdd ==
    ASSUME NEW S, IsFiniteSet(S), NEW a, a \notin S, NEW size, size[a[1]] \in Nat,
           \A b \in S : size[b[1]] \in Nat
    PROVE  /\ IsFiniteSet(S \cup {a})
           /\ TotalBytes(S \cup {a}, size) = TotalBytes(S, size) + size[a[1]]
<1>1. IsFiniteSet({a}) /\ Cardinality({a}) = 1  BY FS_Singleton
<1>2. HeldBytes({a}, size) = {a} \X (1 .. size[a[1]])  BY DEF HeldBytes
<1> DEFINE n == size[a[1]]
<1>3. IsFiniteSet(1 .. n) /\ Cardinality(1 .. n) = IF 1 > n THEN 0 ELSE n - 1 + 1
    BY FS_Interval
<1>4. Cardinality({a} \X (1 .. n)) = Cardinality({a}) * Cardinality(1 .. n)
    BY <1>1, <1>3, FS_Product
<1>5. Cardinality({a} \X (1 .. n)) = n  BY <1>1, <1>3, <1>4
<1>6. TotalBytes({a}, size) = n  BY <1>2, <1>5, Zenon DEF TotalBytes
<1>7. TotalBytes(S \cup {a}, size) = TotalBytes(S, size) + TotalBytes({a}, size)
    BY <1>1, BytesUnion
<1>8. IsFiniteSet(S \cup {a})  BY FS_AddElement
<1> QED  BY <1>6, <1>7, <1>8

(* Freed allocations give their own bytes back.                            *)
LEMMA BytesRemove ==
    ASSUME NEW S, IsFiniteSet(S), NEW T, NEW size, \A a \in S : size[a[1]] \in Nat
    PROVE  /\ IsFiniteSet(S \ T)
           /\ TotalBytes(S \ T, size) = TotalBytes(S, size) - TotalBytes(T \cap S, size)
           /\ TotalBytes(S \ T, size) \in Nat /\ TotalBytes(T \cap S, size) \in Nat
<1>1. IsFiniteSet(S \ T)  BY FS_Difference
<1>2. IsFiniteSet(T \cap S)  BY FS_Intersection
<1>3. TotalBytes((S \ T) \cup (T \cap S), size)
          = TotalBytes(S \ T, size) + TotalBytes(T \cap S, size)
    BY <1>1, <1>2, BytesUnion
<1>4. (S \ T) \cup (T \cap S) = S  OBVIOUS
<1>5. TotalBytes(S, size) = TotalBytes(S \ T, size) + TotalBytes(T \cap S, size)
    BY <1>3, <1>4, Zenon
<1>6. TotalBytes(S \ T, size) \in Nat /\ TotalBytes(T \cap S, size) \in Nat
    BY <1>1, <1>2, BytesFinite
<1> QED  BY <1>1, <1>5, <1>6

(* The inductive invariant of the resident runtime.                         *)

(* What a connection's thread has at hand follows from where it is.        *)
InLock == {"claiming", "reserving", "converting", "converted", "consuming", "executing"}
Serving ==
    \A c \in Connections :
        /\ conn[c] \in InLock \cup {"received", "cancelling", "waiting", "sending"} =>
              request[c] \in Commands
        /\ conn[c] \in InLock \cup {"waiting"} => Op[request[c]] # "cancel"
        /\ conn[c] = "cancelling" => Op[request[c]] = "cancel"
        /\ conn[c] \in {"reserving", "converting", "converted"} => request[c] \in Loads
        /\ conn[c] \in {"claiming", "consuming"} => Numeric(request[c])
        /\ conn[c] = "sending" => reply[c] \in Responses /\ reply[c].command = request[c]
        /\ served[c] < MaxCommands \/ conn[c] = "interrupting"

(* The service's lock is held from Executes to the response, by a command  *)
(* whose number is the next one; the store's lock while a load converts.   *)
Exclusive ==
    /\ \A c \in Connections : holder = c <=> conn[c] \in InLock
    /\ holder # NoCommand => Sequence[request[holder]] = lastSeq + 1
    /\ storeHeld <=> holder # NoCommand /\ conn[holder] \in {"converting", "converted"}

(* Numbers are used up in order: what was kept or quarantined belongs to a *)
(* used number, or to the load that is about to use its own.               *)
UsedUp ==
    /\ \A a \in kept \cup quarantine :
          \/ Sequence[a[1]] <= lastSeq
          \/ /\ holder # NoCommand /\ conn[holder] = "consuming"
             /\ a = Allocation(holder)
    /\ records \subseteq kept
    /\ holder # NoCommand /\ conn[holder] = "consuming" => Allocation(holder) \in kept

(* A claimed artifact is out of the inbox, and no other load had it.       *)
ClaimedOnce ==
    /\ \A a \in kept : Numeric(a[1]) => ArtifactOf[a[1]] \notin inbox
    /\ \A c \in Connections :
          conn[c] \in {"reserving", "converting", "converted"} /\ Numeric(request[c]) =>
             /\ ArtifactOf[request[c]] \notin inbox
             /\ \A a \in kept : Numeric(a[1]) => ArtifactOf[a[1]] # ArtifactOf[request[c]]

(* The load r made a tensor.                                               *)
Made(r) == \E a \in kept : a[1] = r

(* x is an answer to the ordered command r: it was sent, is being sent or  *)
(* is cached.                                                              *)
Given(r, x) ==
    \/ x \in answers[r]
    \/ \E c \in Connections :
          conn[c] = "sending" /\ request[c] = r /\ reply[c] = x /\ Op[r] # "cancel"
    \/ x \in Range(replays) /\ x.command = r

(* Answers to a command agree, and a load was answered as passed exactly   *)
(* if it made a tensor.                                                    *)
Agreeing ==
    /\ \A r \in Commands : \A x \in Responses :
          Given(r, x) => x.command = r /\ Sequence[r] <= lastSeq
    /\ \A r \in Commands : \A x, y \in Responses : Given(r, x) /\ Given(r, y) => x = y
    /\ \A x, y \in Range(replays) : Sequence[x.command] = Sequence[y.command] => x = y
    /\ \A r \in Loads : \A x \in Responses : Given(r, x) => (x.passed <=> Made(r))

Finite == IsFiniteSet(records) /\ IsFiniteSet(quarantine)

OverIsEmpty == sessionOver => alive = {} /\ holder = NoCommand

RuntimeInv ==
    /\ RuntimeTypeOK
    /\ Serving
    /\ Exclusive
    /\ UsedUp
    /\ ClaimedOnce
    /\ LoadsOnce
    /\ Agreeing
    /\ Finite
    /\ MemoryAccounted
    /\ OverIsEmpty

-----------------------------------------------------------------------------
(* Steps that leave the commands under the lock and the store alone.       *)
Quiet ==
    /\ UNCHANGED <<holder, lastSeq, replays, sessionOver, runs, residentVars, artifactVars>>
    /\ \A c \in Connections :
          conn[c] \in InLock \/ conn'[c] \in InLock =>
             conn'[c] = conn[c] /\ request'[c] = request[c]

(* What a quiet step cannot disturb.                                       *)
LEMMA QuietKeeps ==
    ASSUME RuntimeInv, Quiet, WireTypeOK', signal' \in BOOLEAN, Serving',
           \A r \in Commands : \A x \in Responses : Given(r, x)' => Given(r, x)
    PROVE  RuntimeInv'
<1> USE RuntimeAssumption DEF Quiet, residentVars, artifactVars
<1>t. RuntimeTypeOK /\ ServiceTypeOK  BY DEF RuntimeInv, RuntimeTypeOK
<1>1. RuntimeTypeOK'
    <2>1. ServiceTypeOK'  BY <1>t DEF ServiceTypeOK
    <2>2. StoreTypeOK'  BY <1>t DEF RuntimeTypeOK, StoreTypeOK
    <2> QED  BY <2>1, <2>2 DEF RuntimeTypeOK
<1>2. Exclusive'  BY <1>t DEF RuntimeInv, Exclusive, ServiceTypeOK
<1>3. holder # NoCommand => conn'[holder] = conn[holder] /\ request'[holder] = request[holder]
    BY <1>t DEF RuntimeInv, Exclusive, ServiceTypeOK
<1>4. UsedUp'  BY <1>3 DEF RuntimeInv, UsedUp, Allocation
<1>5. ClaimedOnce'  BY DEF RuntimeInv, ClaimedOnce, InLock
<1>6. LoadsOnce'  BY DEF RuntimeInv, LoadsOnce
<1>7. Agreeing'  BY DEF RuntimeInv, Agreeing, Made, Loads
<1>8. Finite'  BY DEF RuntimeInv, Finite
<1>9. MemoryAccounted'
    <2>1. storeHeld => holder # NoCommand  BY DEF RuntimeInv, Exclusive
    <2> QED  BY <1>3, <2>1 DEF RuntimeInv, MemoryAccounted
<1>10. OverIsEmpty'  BY DEF RuntimeInv, OverIsEmpty
<1> QED  BY <1>1, <1>2, <1>4, <1>5, <1>6, <1>7, <1>8, <1>9, <1>10 DEF RuntimeInv

(* A client sends a frame.                                                 *)
LEMMA ClientSendsKeeps ==
    ASSUME RuntimeInv, NEW c \in Connections, NEW r \in Commands, ClientSends(c, r)
    PROVE  RuntimeInv'
<1> USE RuntimeAssumption DEF ClientSends, wireVars, mainVars, commandVars, residentVars,
       artifactVars
<1>t. WireTypeOK /\ ServiceTypeOK /\ Serving  BY DEF RuntimeInv, RuntimeTypeOK
<1>1. WireTypeOK'  BY <1>t DEF WireTypeOK, Serving
<1>2. Quiet  BY <1>t DEF Quiet, InLock, WireTypeOK
<1>3. Serving'  BY <1>t DEF Serving, InLock, WireTypeOK
<1>4. \A q \in Commands : \A x \in Responses : Given(q, x)' => Given(q, x)
    BY <1>t DEF Given, Serving, WireTypeOK
<1>5. signal' \in BOOLEAN  BY <1>t DEF ServiceTypeOK
<1> QED  BY <1>1, <1>2, <1>3, <1>4, <1>5, QuietKeeps

(* A client disconnects.                                                   *)
LEMMA DisconnectsKeeps ==
    ASSUME RuntimeInv, NEW c \in Connections, Disconnects(c)
    PROVE  RuntimeInv'
<1> USE RuntimeAssumption DEF Disconnects, wireVars, mainVars, commandVars, residentVars,
       artifactVars
<1>t. WireTypeOK /\ ServiceTypeOK /\ Serving  BY DEF RuntimeInv, RuntimeTypeOK
<1>1. WireTypeOK'  BY <1>t DEF WireTypeOK, Serving
<1>2. Quiet  BY <1>t DEF Quiet, InLock, WireTypeOK
<1>3. Serving'  BY <1>t DEF Serving, InLock, WireTypeOK
<1>4. \A q \in Commands : \A x \in Responses : Given(q, x)' => Given(q, x)
    BY <1>t DEF Given, Serving, WireTypeOK
<1>5. signal' \in BOOLEAN  BY <1>t DEF ServiceTypeOK
<1> QED  BY <1>1, <1>2, <1>3, <1>4, <1>5, QuietKeeps

(* A connection is accepted.                                               *)
LEMMA AcceptsKeeps ==
    ASSUME RuntimeInv, NEW c \in Connections, Accepts(c)
    PROVE  RuntimeInv'
<1> USE RuntimeAssumption DEF Accepts, Moves, wireVars, mainVars, commandVars, residentVars,
       artifactVars
<1>t. WireTypeOK /\ ServiceTypeOK /\ Serving  BY DEF RuntimeInv, RuntimeTypeOK
<1>1. WireTypeOK'  BY <1>t DEF WireTypeOK, Serving
<1>2. Quiet  BY <1>t DEF Quiet, InLock, WireTypeOK
<1>3. Serving'  BY <1>t DEF Serving, InLock, WireTypeOK
<1>4. \A q \in Commands : \A x \in Responses : Given(q, x)' => Given(q, x)
    BY <1>t DEF Given, Serving, WireTypeOK
<1>5. signal' \in BOOLEAN  BY <1>t DEF ServiceTypeOK
<1> QED  BY <1>1, <1>2, <1>3, <1>4, <1>5, QuietKeeps

(* The thread of a connection starts.                                      *)
LEMMA RegistersKeeps ==
    ASSUME RuntimeInv, NEW c \in Connections, Registers(c)
    PROVE  RuntimeInv'
<1> USE RuntimeAssumption DEF Registers, Moves, wireVars, mainVars, commandVars,
       residentVars, artifactVars
<1>t. WireTypeOK /\ ServiceTypeOK /\ Serving  BY DEF RuntimeInv, RuntimeTypeOK
<1>1. WireTypeOK'  BY <1>t DEF WireTypeOK, Serving
<1>2. Quiet  BY <1>t DEF Quiet, InLock, WireTypeOK
<1>3. Serving'  BY <1>t DEF Serving, InLock, WireTypeOK
<1>4. \A q \in Commands : \A x \in Responses : Given(q, x)' => Given(q, x)
    BY <1>t DEF Given, Serving, WireTypeOK
<1>5. signal' \in BOOLEAN  BY <1>t DEF ServiceTypeOK
<1> QED  BY <1>1, <1>2, <1>3, <1>4, <1>5, QuietKeeps

(* The session is not closed and the thread reads on.                      *)
LEMMA ChecksClosedKeeps ==
    ASSUME RuntimeInv, NEW c \in Connections, ChecksClosed(c)
    PROVE  RuntimeInv'
<1> USE RuntimeAssumption DEF ChecksClosed, Moves, wireVars, mainVars, commandVars,
       residentVars, artifactVars
<1>t. WireTypeOK /\ ServiceTypeOK /\ Serving  BY DEF RuntimeInv, RuntimeTypeOK
<1>1. WireTypeOK'  BY <1>t DEF WireTypeOK, Serving
<1>2. Quiet  BY <1>t DEF Quiet, InLock, WireTypeOK
<1>3. Serving'  BY <1>t DEF Serving, InLock, WireTypeOK
<1>4. \A q \in Commands : \A x \in Responses : Given(q, x)' => Given(q, x)
    BY <1>t DEF Given, Serving, WireTypeOK
<1>5. signal' \in BOOLEAN  BY <1>t DEF ServiceTypeOK
<1> QED  BY <1>1, <1>2, <1>3, <1>4, <1>5, QuietKeeps

(* The thread sees the session closed.                                     *)
LEMMA SeesClosedKeeps ==
    ASSUME RuntimeInv, NEW c \in Connections, SeesClosed(c)
    PROVE  RuntimeInv'
<1> USE RuntimeAssumption DEF SeesClosed, ConnectionEnds, Moves, wireVars, mainVars,
       commandVars, residentVars, artifactVars
<1>t. WireTypeOK /\ ServiceTypeOK /\ Serving  BY DEF RuntimeInv, RuntimeTypeOK
<1>1. WireTypeOK'  BY <1>t DEF WireTypeOK, Serving
<1>2. Quiet  BY <1>t DEF Quiet, InLock, WireTypeOK
<1>3. Serving'  BY <1>t DEF Serving, InLock, WireTypeOK
<1>4. \A q \in Commands : \A x \in Responses : Given(q, x)' => Given(q, x)
    BY <1>t DEF Given, Serving, WireTypeOK
<1>5. signal' \in BOOLEAN  BY <1>t DEF ServiceTypeOK
<1> QED  BY <1>1, <1>2, <1>3, <1>4, <1>5, QuietKeeps

(* A frame is received.                                                    *)
LEMMA ReceivesKeeps ==
    ASSUME RuntimeInv, NEW c \in Connections, Receives(c)
    PROVE  RuntimeInv'
<1> USE RuntimeAssumption DEF Receives, Moves, wireVars, mainVars, commandVars,
       residentVars, artifactVars
<1>t. WireTypeOK /\ ServiceTypeOK /\ Serving  BY DEF RuntimeInv, RuntimeTypeOK
<1>1. WireTypeOK'  BY <1>t DEF WireTypeOK, Serving
<1>2. Quiet  BY <1>t DEF Quiet, InLock, WireTypeOK
<1>3. Serving'  BY <1>t DEF Serving, InLock, WireTypeOK
<1>4. \A q \in Commands : \A x \in Responses : Given(q, x)' => Given(q, x)
    BY <1>t DEF Given, Serving, WireTypeOK
<1>5. signal' \in BOOLEAN  BY <1>t DEF ServiceTypeOK
<1> QED  BY <1>1, <1>2, <1>3, <1>4, <1>5, QuietKeeps

(* The connection is at its end.                                           *)
LEMMA ReceivesEndKeeps ==
    ASSUME RuntimeInv, NEW c \in Connections, ReceivesEnd(c)
    PROVE  RuntimeInv'
<1> USE RuntimeAssumption DEF ReceivesEnd, ConnectionEnds, Moves, wireVars, mainVars,
       commandVars, residentVars, artifactVars
<1>t. WireTypeOK /\ ServiceTypeOK /\ Serving  BY DEF RuntimeInv, RuntimeTypeOK
<1>1. WireTypeOK'  BY <1>t DEF WireTypeOK, Serving
<1>2. Quiet  BY <1>t DEF Quiet, InLock, WireTypeOK
<1>3. Serving'  BY <1>t DEF Serving, InLock, WireTypeOK
<1>4. \A q \in Commands : \A x \in Responses : Given(q, x)' => Given(q, x)
    BY <1>t DEF Given, Serving, WireTypeOK
<1>5. signal' \in BOOLEAN  BY <1>t DEF ServiceTypeOK
<1> QED  BY <1>1, <1>2, <1>3, <1>4, <1>5, QuietKeeps

(* The read fails or times out.                                            *)
LEMMA ReceiveFailsKeeps ==
    ASSUME RuntimeInv, NEW c \in Connections, ReceiveFails(c)
    PROVE  RuntimeInv'
<1> USE RuntimeAssumption DEF ReceiveFails, ConnectionEnds, Moves, wireVars, mainVars,
       commandVars, residentVars, artifactVars
<1>t. WireTypeOK /\ ServiceTypeOK /\ Serving  BY DEF RuntimeInv, RuntimeTypeOK
<1>1. WireTypeOK'  BY <1>t DEF WireTypeOK, Serving
<1>2. Quiet  BY <1>t DEF Quiet, InLock, WireTypeOK
<1>3. Serving'  BY <1>t DEF Serving, InLock, WireTypeOK
<1>4. \A q \in Commands : \A x \in Responses : Given(q, x)' => Given(q, x)
    BY <1>t DEF Given, Serving, WireTypeOK
<1>5. signal' \in BOOLEAN  BY <1>t DEF ServiceTypeOK
<1> QED  BY <1>1, <1>2, <1>3, <1>4, <1>5, QuietKeeps

(* The connection is busy with its command.                                *)
LEMMA MarksBusyKeeps ==
    ASSUME RuntimeInv, NEW c \in Connections, MarksBusy(c)
    PROVE  RuntimeInv'
<1> USE RuntimeAssumption DEF MarksBusy, Moves, wireVars, mainVars, commandVars,
       residentVars, artifactVars
<1>t. WireTypeOK /\ ServiceTypeOK /\ Serving  BY DEF RuntimeInv, RuntimeTypeOK
<1>1. WireTypeOK'  BY <1>t DEF WireTypeOK, Serving
<1>2. Quiet  BY <1>t DEF Quiet, InLock, WireTypeOK
<1>3. Serving'  BY <1>t DEF Serving, InLock, WireTypeOK
<1>4. \A q \in Commands : \A x \in Responses : Given(q, x)' => Given(q, x)
    BY <1>t DEF Given, Serving, WireTypeOK
<1>5. signal' \in BOOLEAN  BY <1>t DEF ServiceTypeOK
<1> QED  BY <1>1, <1>2, <1>3, <1>4, <1>5, QuietKeeps

(* An answer is sent.                                                      *)
LEMMA DeliversKeeps ==
    ASSUME RuntimeInv, NEW c \in Connections, Delivers(c)
    PROVE  RuntimeInv'
<1> USE RuntimeAssumption DEF Delivers, Delivered, Moves, wireVars, mainVars, commandVars,
       residentVars, artifactVars
<1>t. WireTypeOK /\ ServiceTypeOK /\ Serving  BY DEF RuntimeInv, RuntimeTypeOK
<1>1. WireTypeOK'  BY <1>t DEF WireTypeOK, Serving
<1>2. Quiet  BY <1>t DEF Quiet, InLock, WireTypeOK
<1>3. Serving'  BY <1>t DEF Serving, InLock, WireTypeOK
<1>4. \A q \in Commands : \A x \in Responses : Given(q, x)' => Given(q, x)
    BY <1>t DEF Given, Serving, WireTypeOK
<1>5. signal' \in BOOLEAN  BY <1>t DEF ServiceTypeOK
<1> QED  BY <1>1, <1>2, <1>3, <1>4, <1>5, QuietKeeps

(* The last answer of a connection is sent.                                *)
LEMMA DeliversLastKeeps ==
    ASSUME RuntimeInv, NEW c \in Connections, DeliversLast(c)
    PROVE  RuntimeInv'
<1> USE RuntimeAssumption DEF DeliversLast, Delivered, ConnectionEnds, Moves, wireVars,
       mainVars, commandVars, residentVars, artifactVars
<1>t. WireTypeOK /\ ServiceTypeOK /\ Serving  BY DEF RuntimeInv, RuntimeTypeOK
<1>1. WireTypeOK'  BY <1>t DEF WireTypeOK, Serving
<1>2. Quiet  BY <1>t DEF Quiet, InLock, WireTypeOK
<1>3. Serving'  BY <1>t DEF Serving, InLock, WireTypeOK
<1>4. \A q \in Commands : \A x \in Responses : Given(q, x)' => Given(q, x)
    BY <1>t DEF Given, Serving, WireTypeOK
<1>5. signal' \in BOOLEAN  BY <1>t DEF ServiceTypeOK
<1> QED  BY <1>1, <1>2, <1>3, <1>4, <1>5, QuietKeeps

(* An answer cannot be sent.                                               *)
LEMMA DeliveryFailsKeeps ==
    ASSUME RuntimeInv, NEW c \in Connections, DeliveryFails(c)
    PROVE  RuntimeInv'
<1> USE RuntimeAssumption DEF DeliveryFails, ConnectionEnds, Moves, wireVars, mainVars,
       commandVars, residentVars, artifactVars
<1>t. WireTypeOK /\ ServiceTypeOK /\ Serving  BY DEF RuntimeInv, RuntimeTypeOK
<1>1. WireTypeOK'  BY <1>t DEF WireTypeOK, Serving
<1>2. Quiet  BY <1>t DEF Quiet, InLock, WireTypeOK
<1>3. Serving'  BY <1>t DEF Serving, InLock, WireTypeOK
<1>4. \A q \in Commands : \A x \in Responses : Given(q, x)' => Given(q, x)
    BY <1>t DEF Given, Serving, WireTypeOK
<1>5. signal' \in BOOLEAN  BY <1>t DEF ServiceTypeOK
<1> QED  BY <1>1, <1>2, <1>3, <1>4, <1>5, QuietKeeps

(* After a shutdown the idle connections are interrupted.                  *)
LEMMA InterruptsOthersKeeps ==
    ASSUME RuntimeInv, NEW c \in Connections, InterruptsOthers(c)
    PROVE  RuntimeInv'
<1> USE RuntimeAssumption DEF InterruptsOthers, ConnectionEnds, Moves, Interrupted,
       Registered, wireVars, mainVars, commandVars, residentVars, artifactVars
<1>t. WireTypeOK /\ ServiceTypeOK /\ Serving  BY DEF RuntimeInv, RuntimeTypeOK
<1>1. WireTypeOK'  BY <1>t DEF WireTypeOK, Serving
<1>2. Quiet  BY <1>t DEF Quiet, InLock, WireTypeOK
<1>3. Serving'  BY <1>t DEF Serving, InLock, WireTypeOK
<1>4. \A q \in Commands : \A x \in Responses : Given(q, x)' => Given(q, x)
    BY <1>t DEF Given, Serving, WireTypeOK
<1>5. signal' \in BOOLEAN  BY <1>t DEF ServiceTypeOK
<1> QED  BY <1>1, <1>2, <1>3, <1>4, <1>5, QuietKeeps

(* A command out of order is refused.                                      *)
LEMMA RefusesKeeps ==
    ASSUME RuntimeInv, NEW c \in Connections, Refuses(c)
    PROVE  RuntimeInv'
<1> USE RuntimeAssumption DEF Refuses, ConnectionEnds, Moves, wireVars, mainVars,
       commandVars, residentVars, artifactVars
<1>t. WireTypeOK /\ ServiceTypeOK /\ Serving  BY DEF RuntimeInv, RuntimeTypeOK
<1>1. WireTypeOK'  BY <1>t DEF WireTypeOK, Serving
<1>2. Quiet  BY <1>t DEF Quiet, InLock, WireTypeOK
<1>3. Serving'  BY <1>t DEF Serving, InLock, WireTypeOK
<1>4. \A q \in Commands : \A x \in Responses : Given(q, x)' => Given(q, x)
    BY <1>t DEF Given, Serving, WireTypeOK
<1>5. signal' \in BOOLEAN  BY <1>t DEF ServiceTypeOK
<1> QED  BY <1>1, <1>2, <1>3, <1>4, <1>5, QuietKeeps

(* The main thread sees the session closed.                                *)
LEMMA MainSeesClosedKeeps ==
    ASSUME RuntimeInv, MainSeesClosed
    PROVE  RuntimeInv'
<1> USE RuntimeAssumption DEF MainSeesClosed, wireVars, mainVars, commandVars, residentVars,
       artifactVars
<1>t. WireTypeOK /\ ServiceTypeOK /\ Serving  BY DEF RuntimeInv, RuntimeTypeOK
<1>1. WireTypeOK'  BY <1>t DEF WireTypeOK, Serving
<1>2. Quiet  BY <1>t DEF Quiet, InLock, WireTypeOK
<1>3. Serving'  BY <1>t DEF Serving, InLock, WireTypeOK
<1>4. \A q \in Commands : \A x \in Responses : Given(q, x)' => Given(q, x)
    BY <1>t DEF Given, Serving, WireTypeOK
<1>5. signal' \in BOOLEAN  BY <1>t DEF ServiceTypeOK
<1> QED  BY <1>1, <1>2, <1>3, <1>4, <1>5, QuietKeeps

(* The main thread has joined what it could.                               *)
LEMMA MainJoinsKeeps ==
    ASSUME RuntimeInv, MainJoins
    PROVE  RuntimeInv'
<1> USE RuntimeAssumption DEF MainJoins, wireVars, mainVars, commandVars, residentVars, artifactVars
<1>t. WireTypeOK /\ ServiceTypeOK /\ Serving  BY DEF RuntimeInv, RuntimeTypeOK
<1>1. WireTypeOK'  BY <1>t DEF WireTypeOK, Serving
<1>2. Quiet  BY <1>t DEF Quiet, InLock, WireTypeOK
<1>3. Serving'  BY <1>t DEF Serving, InLock, WireTypeOK
<1>4. \A q \in Commands : \A x \in Responses : Given(q, x)' => Given(q, x)
    BY <1>t DEF Given, Serving, WireTypeOK
<1>5. signal' \in BOOLEAN  BY <1>t DEF ServiceTypeOK
<1> QED  BY <1>1, <1>2, <1>3, <1>4, <1>5, QuietKeeps

(* The main thread leaves its loop by an exception.                        *)
LEMMA MainAbortsKeeps ==
    ASSUME RuntimeInv, MainAborts
    PROVE  RuntimeInv'
<1> USE RuntimeAssumption DEF MainAborts, wireVars, mainVars, commandVars, residentVars,
       artifactVars
<1>t. WireTypeOK /\ ServiceTypeOK /\ Serving  BY DEF RuntimeInv, RuntimeTypeOK
<1>1. WireTypeOK'  BY <1>t DEF WireTypeOK, Serving
<1>2. Quiet  BY <1>t DEF Quiet, InLock, WireTypeOK
<1>3. Serving'  BY <1>t DEF Serving, InLock, WireTypeOK
<1>4. \A q \in Commands : \A x \in Responses : Given(q, x)' => Given(q, x)
    BY <1>t DEF Given, Serving, WireTypeOK
<1>5. signal' \in BOOLEAN  BY <1>t DEF ServiceTypeOK
<1> QED  BY <1>1, <1>2, <1>3, <1>4, <1>5, QuietKeeps

(* The main thread interrupts the idle connections.                        *)
LEMMA MainInterruptsKeeps ==
    ASSUME RuntimeInv, MainInterrupts
    PROVE  RuntimeInv'
<1> USE RuntimeAssumption DEF MainInterrupts, Interrupted, Registered, wireVars, mainVars,
       commandVars, residentVars, artifactVars
<1>t. WireTypeOK /\ ServiceTypeOK /\ Serving  BY DEF RuntimeInv, RuntimeTypeOK
<1>1. WireTypeOK'  BY <1>t DEF WireTypeOK, Serving
<1>2. Quiet  BY <1>t DEF Quiet, InLock, WireTypeOK
<1>3. Serving'  BY <1>t DEF Serving, InLock, WireTypeOK
<1>4. \A q \in Commands : \A x \in Responses : Given(q, x)' => Given(q, x)
    BY <1>t DEF Given, Serving, WireTypeOK
<1>5. signal' \in BOOLEAN  BY <1>t DEF ServiceTypeOK
<1> QED  BY <1>1, <1>2, <1>3, <1>4, <1>5, QuietKeeps

(* A cancel is answered without the lock.                                  *)
LEMMA HandlesCancelKeeps ==
    ASSUME RuntimeInv, NEW c \in Connections, HandlesCancel(c)
    PROVE  RuntimeInv'
<1> USE RuntimeAssumption DEF HandlesCancel, Replies, Response, Moves, wireVars, mainVars,
      residentVars, artifactVars
<1>t. WireTypeOK /\ ServiceTypeOK /\ Serving  BY DEF RuntimeInv, RuntimeTypeOK
<1> DEFINE hit == holder # NoCommand /\ request[holder] = Subject[request[c]]
<1>0. Response(request[c], hit) \in Responses
    BY <1>t DEF Serving, Responses
<1>1. WireTypeOK'
    <2> HIDE DEF Response, hit
    <2> QED  BY <1>t, <1>0 DEF WireTypeOK, hit
<1>2. Quiet  BY <1>t DEF Quiet, InLock, WireTypeOK
<1>3. Serving'
    <2>1. reply'[c] = Response(request[c], hit)  BY <1>t DEF WireTypeOK
    <2>2. Response(request[c], hit).command = request[c]  OBVIOUS
    <2> HIDE DEF Response, hit
    <2> QED  BY <1>t, <1>0, <2>1, <2>2 DEF Serving, InLock, WireTypeOK, hit
<1>4. \A q \in Commands : \A x \in Responses : Given(q, x)' => Given(q, x)
    <2>1. conn[c] = "cancelling" => Op[request[c]] = "cancel"
        BY <1>t DEF Serving
    <2> QED  BY <1>t, <2>1 DEF Given, Serving, WireTypeOK
<1>5. signal' \in BOOLEAN  BY <1>t DEF ServiceTypeOK
<1> QED  BY <1>1, <1>2, <1>3, <1>4, <1>5, QuietKeeps

(* A repeated command gets its cached answer.                              *)
LEMMA ReplaysKeeps ==
    ASSUME RuntimeInv, NEW c \in Connections, Replays(c)
    PROVE  RuntimeInv'
<1> USE RuntimeAssumption DEF Replays, Replies, Moves, wireVars, mainVars, commandVars,
      residentVars, artifactVars
<1>t. WireTypeOK /\ ServiceTypeOK /\ Serving /\ Agreeing  BY DEF RuntimeInv, RuntimeTypeOK
<1>s. request[c] \in Commands /\ Op[request[c]] # "cancel"  BY <1>t DEF Serving
<1>x. PICK x \in CachedFor(request[c]) : Replies(c, x)  OBVIOUS
<1>y. x \in Range(replays) /\ x.command = request[c] /\ x \in Responses
    <2>1. PICK y \in CachedFor(request[c]) : y.command = request[c]  BY DEF SameContent
    <2>2. x = y  BY <1>t, <2>1 DEF Agreeing, CachedFor
    <2>3. x \in Range(replays)  BY DEF CachedFor
    <2>4. x \in Responses  BY <1>t, <2>3 DEF Range, ServiceTypeOK
    <2> QED  BY <2>1, <2>2, <2>3, <2>4
<1>1. WireTypeOK'  BY <1>t, <1>x, <1>y DEF WireTypeOK
<1>2. Quiet  BY <1>t, <1>x DEF Quiet, InLock, WireTypeOK
<1>3. Serving'  BY <1>t, <1>s, <1>x, <1>y DEF Serving, InLock, WireTypeOK
<1>4. \A q \in Commands : \A z \in Responses : Given(q, z)' => Given(q, z)
    BY <1>t, <1>x, <1>y DEF Given, Serving, WireTypeOK
<1>5. signal' \in BOOLEAN  BY <1>t DEF ServiceTypeOK
<1> QED  BY <1>1, <1>2, <1>3, <1>4, <1>5, QuietKeeps

-----------------------------------------------------------------------------
(* Steps of the command that holds the lock.                               *)

(* A thread without a new answer gives none.                               *)
LEMMA SilentAgrees ==
    ASSUME RuntimeInv, UNCHANGED <<replays, lastSeq, kept>>,
           \A r \in Commands : \A x \in Responses : Given(r, x)' => Given(r, x)
    PROVE  Agreeing'
BY DEF RuntimeInv, Agreeing, Made, Loads

(* Nothing of the store changed.                                           *)
LEMMA StoreRests ==
    ASSUME RuntimeInv, UNCHANGED residentVars,
           storeHeld => holder' = holder /\ request'[holder] = request[holder]
    PROVE  Finite' /\ MemoryAccounted'
<1> USE DEF RuntimeInv, residentVars
<1>1. Finite'  BY DEF Finite
<1>2. MemoryAccounted'  BY DEF MemoryAccounted
<1> QED  BY <1>1, <1>2

(* A command takes the lock.                                               *)
LEMMA ExecutesKeeps ==
    ASSUME RuntimeInv, NEW c \in Connections, Executes(c)
    PROVE  RuntimeInv'
<1> USE RuntimeAssumption DEF Executes, Moves, Fresh, wireVars, mainVars, residentVars,
      artifactVars
<1>t. WireTypeOK /\ ServiceTypeOK /\ StoreTypeOK /\ Serving /\ Exclusive
    BY DEF RuntimeInv, RuntimeTypeOK
<1>s. request[c] \in Commands /\ Op[request[c]] # "cancel"  BY <1>t DEF Serving
<1>p. conn'[c] \in {"claiming", "reserving", "executing"}
    BY <1>t DEF WireTypeOK
<1>q. /\ conn'[c] = "claiming" => Numeric(request[c])
      /\ conn'[c] = "reserving" => Op[request[c]] = "load"
    BY <1>t DEF WireTypeOK
<1>m. conn' = [conn EXCEPT ![c] = conn'[c]]  BY <1>t DEF WireTypeOK
<1>w. RuntimeTypeOK'
    <2>1. WireTypeOK'  BY <1>t, <1>p, <1>m DEF WireTypeOK
    <2>2. ServiceTypeOK'  BY <1>t, <1>s DEF ServiceTypeOK
    <2>3. StoreTypeOK'  BY <1>t DEF StoreTypeOK
    <2> QED  BY <2>1, <2>2, <2>3 DEF RuntimeTypeOK
<1>1. Serving'  BY <1>t, <1>s, <1>p, <1>q, <1>m DEF Serving, InLock, WireTypeOK, Loads, Numeric
<1>2. Exclusive'  BY <1>t, <1>p, <1>m, <1>s DEF Exclusive, InLock, WireTypeOK, ServiceTypeOK
<1>3. UsedUp'  BY <1>t, <1>p DEF RuntimeInv, UsedUp
<1>4. ClaimedOnce'
    <2>1. conn'[c] = "reserving" => ~Numeric(request[c])  BY <1>q DEF Numeric
    <2> QED  BY <1>t, <1>p, <1>m, <2>1 DEF RuntimeInv, ClaimedOnce, WireTypeOK
<1>5. LoadsOnce'  BY DEF RuntimeInv, LoadsOnce
<1>6. Agreeing'
    <2>1. \A q \in Commands : \A x \in Responses : Given(q, x)' => Given(q, x)
        BY <1>t, <1>p, <1>m DEF Given, WireTypeOK
    <2> QED  BY <2>1, SilentAgrees
<1>7. Finite' /\ MemoryAccounted'
    BY <1>t, StoreRests DEF Exclusive
<1>8. OverIsEmpty'  BY DEF RuntimeInv, OverIsEmpty
<1> QED  BY <1>w, <1>1, <1>2, <1>3, <1>4, <1>5, <1>6, <1>7, <1>8 DEF RuntimeInv

(* An artifact is claimed for its load.                                    *)
LEMMA ClaimsKeeps ==
    ASSUME RuntimeInv, NEW c \in Connections, Claims(c)
    PROVE  RuntimeInv'
<1> USE RuntimeAssumption DEF Claims, Moves, wireVars, mainVars, commandVars, residentVars,
      artifactVars
<1>t. WireTypeOK /\ ServiceTypeOK /\ StoreTypeOK /\ Serving /\ Exclusive
    BY DEF RuntimeInv, RuntimeTypeOK
<1>h. holder = c /\ holder # NoCommand  BY <1>t DEF Exclusive, InLock
<1>w. RuntimeTypeOK'
    <2>1. WireTypeOK'  BY <1>t DEF WireTypeOK
    <2>2. ServiceTypeOK'  BY <1>t DEF ServiceTypeOK
    <2>3. StoreTypeOK'  BY <1>t DEF StoreTypeOK
    <2> QED  BY <2>1, <2>2, <2>3 DEF RuntimeTypeOK
<1>1. Serving'  BY <1>t DEF Serving, InLock, WireTypeOK, Loads, Numeric
<1>2. Exclusive'  BY <1>t, <1>h DEF Exclusive, InLock, WireTypeOK, ServiceTypeOK
<1>3. UsedUp'  BY <1>t, <1>h DEF RuntimeInv, UsedUp, WireTypeOK
<1>4. ClaimedOnce'  BY <1>t, <1>h DEF RuntimeInv, ClaimedOnce, WireTypeOK, Serving, Exclusive, InLock
<1>5. LoadsOnce'  BY DEF RuntimeInv, LoadsOnce
<1>6. Agreeing'
    <2>1. \A q \in Commands : \A x \in Responses : Given(q, x)' => Given(q, x)
        BY <1>t DEF Given, WireTypeOK
    <2> QED  BY <2>1, SilentAgrees
<1>7. Finite' /\ MemoryAccounted'  BY <1>t, StoreRests
<1>8. OverIsEmpty'  BY DEF RuntimeInv, OverIsEmpty
<1> QED  BY <1>w, <1>1, <1>2, <1>3, <1>4, <1>5, <1>6, <1>7, <1>8 DEF RuntimeInv

(* The backend has converted the tensor.                                   *)
LEMMA ConvertsKeeps ==
    ASSUME RuntimeInv, NEW c \in Connections, Converts(c)
    PROVE  RuntimeInv'
<1> USE RuntimeAssumption DEF Converts, Moves, wireVars, mainVars, commandVars, residentVars,
      artifactVars
<1>t. WireTypeOK /\ ServiceTypeOK /\ StoreTypeOK /\ Serving /\ Exclusive
    BY DEF RuntimeInv, RuntimeTypeOK
<1>h. holder = c /\ holder # NoCommand  BY <1>t DEF Exclusive, InLock
<1>w. RuntimeTypeOK'
    <2>1. WireTypeOK'  BY <1>t DEF WireTypeOK
    <2>2. ServiceTypeOK'  BY <1>t DEF ServiceTypeOK
    <2>3. StoreTypeOK'  BY <1>t DEF StoreTypeOK
    <2> QED  BY <2>1, <2>2, <2>3 DEF RuntimeTypeOK
<1>1. Serving'  BY <1>t DEF Serving, InLock, WireTypeOK, Loads, Numeric
<1>2. Exclusive'  BY <1>t, <1>h DEF Exclusive, InLock, WireTypeOK, ServiceTypeOK
<1>3. UsedUp'  BY <1>t, <1>h DEF RuntimeInv, UsedUp, WireTypeOK
<1>4. ClaimedOnce'  BY <1>t, <1>h DEF RuntimeInv, ClaimedOnce, WireTypeOK, Serving, Exclusive, InLock
<1>5. LoadsOnce'  BY DEF RuntimeInv, LoadsOnce
<1>6. Agreeing'
    <2>1. \A q \in Commands : \A x \in Responses : Given(q, x)' => Given(q, x)
        BY <1>t DEF Given, WireTypeOK
    <2> QED  BY <2>1, SilentAgrees
<1>7. Finite' /\ MemoryAccounted'  BY <1>t, StoreRests
<1>8. OverIsEmpty'  BY DEF RuntimeInv, OverIsEmpty
<1> QED  BY <1>w, <1>1, <1>2, <1>3, <1>4, <1>5, <1>6, <1>7, <1>8 DEF RuntimeInv

(* A load reserves what its conversion needs.                              *)
LEMMA ReservesKeeps ==
    ASSUME RuntimeInv, NEW c \in Connections, Reserves(c)
    PROVE  RuntimeInv'
<1> USE RuntimeAssumption DEF Reserves, Moves, wireVars, mainVars, commandVars, artifactVars
<1>t. WireTypeOK /\ ServiceTypeOK /\ StoreTypeOK /\ Serving /\ Exclusive
    BY DEF RuntimeInv, RuntimeTypeOK
<1>h. holder = c /\ holder # NoCommand  BY <1>t DEF Exclusive, InLock
<1>s. request[c] \in Loads /\ Needs[request[c]] \in Nat  BY <1>t DEF Serving
<1>w. RuntimeTypeOK'
    <2>1. WireTypeOK'  BY <1>t DEF WireTypeOK
    <2>2. ServiceTypeOK'  BY <1>t DEF ServiceTypeOK
    <2>3. StoreTypeOK'
        <3>1. pool' \in 0 .. PoolBytes  BY <1>t, <1>s DEF StoreTypeOK
        <3>2. storeHeld' \in BOOLEAN  OBVIOUS
        <3> QED  BY <1>t, <3>1, <3>2 DEF StoreTypeOK
    <2> QED  BY <2>1, <2>2, <2>3 DEF RuntimeTypeOK
<1>1. Serving'  BY <1>t DEF Serving, InLock, WireTypeOK, Loads, Numeric
<1>2. Exclusive'  BY <1>t, <1>h DEF Exclusive, InLock, WireTypeOK, ServiceTypeOK
<1>3. UsedUp'  BY <1>t, <1>h DEF RuntimeInv, UsedUp, WireTypeOK
<1>4. ClaimedOnce'  BY <1>t DEF RuntimeInv, ClaimedOnce, WireTypeOK
<1>5. LoadsOnce'  BY DEF RuntimeInv, LoadsOnce
<1>6. Agreeing'
    <2>1. \A q \in Commands : \A x \in Responses : Given(q, x)' => Given(q, x)
        BY <1>t DEF Given, WireTypeOK
    <2> QED  BY <2>1, SilentAgrees
<1>7. Finite'  BY DEF RuntimeInv, Finite
<1>8. MemoryAccounted'
    <2>1. TotalBytes(records, Keeps) \in Nat /\ TotalBytes(quarantine, Needs) \in Nat
        BY <1>t, BytesFinite DEF RuntimeInv, Finite, StoreTypeOK
    <2>2. pool = TotalBytes(records, Keeps) + TotalBytes(quarantine, Needs)
        BY <2>1 DEF RuntimeInv, MemoryAccounted
    <2> HIDE DEF TotalBytes
    <2>3. pool' = TotalBytes(records', Keeps) + TotalBytes(quarantine', Needs) + Needs[request'[holder']]
        BY <1>h, <1>s, <2>1, <2>2
    <2> QED  BY <2>3, <1>t DEF RuntimeInv, MemoryAccounted, StoreTypeOK
<1>9. OverIsEmpty'  BY DEF RuntimeInv, OverIsEmpty
<1> QED  BY <1>w, <1>1, <1>2, <1>3, <1>4, <1>5, <1>6, <1>7, <1>8, <1>9 DEF RuntimeInv

-----------------------------------------------------------------------------
(* The end of a command.                                                   *)

(* The cache keeps its bound, and nothing but the new answer is added.     *)
LEMMA TrimmedCache ==
    ASSUME NEW s \in Seq(Responses), Len(s) <= MaxCached, NEW x \in Responses
    PROVE  /\ Trimmed(Append(s, x)) \in Seq(Responses)
           /\ Len(Trimmed(Append(s, x))) <= MaxCached
           /\ Range(Trimmed(Append(s, x))) \subseteq Range(s) \cup {x}
<1> USE RuntimeAssumption
<1> DEFINE t == Append(s, x)
<1>1. t \in Seq(Responses) /\ Len(t) = Len(s) + 1  OBVIOUS
<1>2. \A i \in 1 .. Len(t) : t[i] \in Range(s) \cup {x}  BY DEF Range
<1>3. CASE Len(t) > MaxCached
    <2> HIDE DEF t
    <2>1. Tail(t) \in Seq(Responses) /\ Len(Tail(t)) = Len(t) - 1  BY <1>1, <1>3
    <2>2. \A i \in 1 .. Len(Tail(t)) : Tail(t)[i] = t[i + 1]  BY <1>1, <1>3
    <2>3. Range(Tail(t)) \subseteq Range(s) \cup {x}
        <3> DEFINE u == Tail(t)
        <3>1. \A i \in 1 .. Len(u) : u[i] \in Range(s) \cup {x}
            BY <1>1, <1>2, <2>1, <2>2
        <3>2. DOMAIN u = 1 .. Len(u)  BY <2>1
        <3> HIDE DEF u
        <3>3. Range(u) \subseteq Range(s) \cup {x}  BY <3>1, <3>2 DEF Range
        <3> QED  BY <3>3 DEF u
    <2>4. Trimmed(t) = Tail(t)  BY <1>3 DEF Trimmed
    <2>5. Len(Tail(t)) <= MaxCached  BY <1>1, <2>1
    <2> QED  BY <2>1, <2>3, <2>4, <2>5 DEF t
<1>4. CASE ~(Len(t) > MaxCached)
    <2> HIDE DEF t
    <2>1. Trimmed(t) = t  BY <1>4 DEF Trimmed
    <2>2. DOMAIN t = 1 .. Len(t)  BY <1>1
    <2>3. Range(t) \subseteq Range(s) \cup {x}  BY <1>2, <2>2 DEF Range
    <2> QED  BY <1>1, <1>4, <2>1, <2>3 DEF t
<1> QED  BY <1>3, <1>4

(* A response is one, and to its own command.                              *)
LEMMA ResponseType ==
    ASSUME NEW r \in Commands, NEW ok \in BOOLEAN
    PROVE  Response(r, ok) \in Responses /\ Response(r, ok).command = r
BY DEF Response, Responses

(* An answered command gives up the lock and its number; its answer is the *)
(* first one to it.                                                        *)
LEMMA AnsweredKeeps ==
    ASSUME RuntimeInv, NEW c \in Connections, conn[c] \in InLock, NEW ok \in BOOLEAN,
           Answered(c, ok), sessionOver' \in BOOLEAN, ~storeHeld',
           kept \subseteq kept', kept' \subseteq kept \cup {Allocation(c)},
           quarantine' \subseteq quarantine \cup {Allocation(c)}, records' \subseteq kept',
           inbox' \subseteq inbox,
           kept' # kept => conn[c] = "converted" /\ ~Numeric(request[c]),
           \A a \in deleted' \ deleted :
              a \notin inbox' \/ (conn[c] = "consuming" /\ a = ArtifactOf[request[c]]),
           request[c] \in Loads => (ok <=> \E a \in kept' : a[1] = request[c])
    PROVE  /\ WireTypeOK' /\ ServiceTypeOK' /\ Serving' /\ Exclusive' /\ UsedUp' /\ ClaimedOnce'
           /\ LoadsOnce' /\ Agreeing' /\ holder = c /\ holder' = NoCommand
<1> USE RuntimeAssumption DEF Answered, Replies, Moves, mainVars
<1>t. WireTypeOK /\ ServiceTypeOK /\ StoreTypeOK /\ Serving /\ Exclusive /\ UsedUp
    BY DEF RuntimeInv, RuntimeTypeOK
<1>h. /\ holder = c /\ holder # NoCommand
      /\ Sequence[request[c]] = lastSeq + 1
      /\ request[c] \in Commands /\ Op[request[c]] # "cancel"
    BY <1>t DEF Exclusive, Serving
<1> DEFINE x == Response(request[c], ok)
<1>x. x \in Responses /\ x.command = request[c]  BY <1>h, ResponseType
<1>c. /\ replays' \in Seq(Responses) /\ Len(replays') <= MaxCached
      /\ Range(replays') \subseteq Range(replays) \cup {x}
    <2> HIDE DEF x
    <2> QED  BY <1>t, <1>x, TrimmedCache DEF ServiceTypeOK, x
<1>r. /\ reply' = [reply EXCEPT ![c] = x] /\ lastSeq' = lastSeq + 1
      /\ reply'[c] = x
    BY <1>h, <1>t DEF WireTypeOK
<1> HIDE DEF x
<1>1. WireTypeOK'  BY <1>t, <1>x, <1>r DEF WireTypeOK
<1>2. ServiceTypeOK'
    <2>1. signal' \in BOOLEAN  OBVIOUS
    <2>2. holder' \in Connections \cup {NoCommand} /\ lastSeq' \in Nat /\ runs' = runs
        BY <1>t, <1>r DEF ServiceTypeOK
    <2> QED  BY <1>t, <1>c, <2>1, <2>2 DEF ServiceTypeOK
<1>3. Serving'  BY <1>t, <1>h, <1>x, <1>r DEF Serving, InLock, WireTypeOK
<1>4. Exclusive'  BY <1>t, <1>h DEF Exclusive, InLock, WireTypeOK
<1>5. UsedUp'
    <2>1. \A a \in kept \cup quarantine : Sequence[a[1]] <= lastSeq + 1
        <3> SUFFICES ASSUME NEW a \in kept \cup quarantine PROVE Sequence[a[1]] <= lastSeq + 1
            OBVIOUS
        <3>1. CASE Sequence[a[1]] <= lastSeq
            <4>1. a[1] \in Commands  BY <1>t DEF StoreTypeOK, Loads
            <4> QED  BY <3>1, <4>1, <1>t DEF ServiceTypeOK
        <3>2. CASE a = Allocation(holder)
            BY <3>2, <1>h, <1>t DEF Allocation, ServiceTypeOK
        <3> QED  BY <3>1, <3>2, <1>t DEF UsedUp
    <2>2. Sequence[Allocation(c)[1]] <= lastSeq + 1
        BY <1>h, <1>t DEF Allocation, ServiceTypeOK
    <2>3. \A a \in kept' \cup quarantine' : Sequence[a[1]] <= lastSeq'
        BY <2>1, <2>2, <1>r
    <2> QED  BY <2>3 DEF UsedUp
<1>6. ClaimedOnce'
    <2>1. \A d \in Connections : conn'[d] \notin {"reserving", "converting", "converted"}
        BY <1>t, <1>h DEF Exclusive, InLock, WireTypeOK
    <2>2. \A a \in kept' : Numeric(a[1]) => ArtifactOf[a[1]] \notin inbox'
        BY DEF RuntimeInv, ClaimedOnce, Allocation
    <2> QED  BY <2>1, <2>2 DEF ClaimedOnce
<1>7. LoadsOnce'
    <2>1. conn[c] = "converted" => \A a \in kept : Sequence[a[1]] # Sequence[request[c]]
        <3> SUFFICES ASSUME conn[c] = "converted", NEW a \in kept
                     PROVE  Sequence[a[1]] # Sequence[request[c]]
            OBVIOUS
        <3>1. Sequence[a[1]] <= lastSeq  BY <1>h, <1>t DEF UsedUp
        <3>2. a[1] \in Commands  BY <1>t DEF StoreTypeOK, Loads
        <3> QED  BY <3>1, <3>2, <1>h, <1>t DEF ServiceTypeOK
    <2>2. \A a, b \in kept' : Sequence[a[1]] = Sequence[b[1]] => a = b
        BY <2>1 DEF RuntimeInv, LoadsOnce, Allocation
    <2>3. \A a, b \in kept' :
              Numeric(a[1]) /\ Numeric(b[1]) /\ ArtifactOf[a[1]] = ArtifactOf[b[1]] => a = b
        BY DEF RuntimeInv, LoadsOnce, Allocation
    <2>4. conn[c] = "consuming" =>
              Allocation(c) \in kept /\ Numeric(Allocation(c)[1])
        BY <1>t, <1>h DEF UsedUp, Serving, Allocation
    <2>5. conn[c] = "consuming" => ArtifactOf[request[c]] \notin inbox
        BY <2>4 DEF RuntimeInv, ClaimedOnce, Allocation
    <2>6. deleted' \cap inbox' = {}
        BY <2>5 DEF RuntimeInv, LoadsOnce
    <2> QED  BY <1>6, <2>2, <2>3, <2>6 DEF LoadsOnce, ClaimedOnce
<1>8. Agreeing'
    <2>0. Agreeing  BY DEF RuntimeInv
    <2>1. \A r \in Commands : \A y \in Responses :
              Given(r, y)' => Given(r, y) \/ (r = request[c] /\ y = x)
        BY <1>t, <1>x, <1>r, <1>c DEF Given, WireTypeOK
    <2>2. \A y \in Responses : ~Given(request[c], y)
        BY <1>h, <1>t, <2>0 DEF Agreeing, ServiceTypeOK
    <2>3. \A r \in Commands : \A y \in Responses :
              Given(r, y)' => y.command = r /\ Sequence[r] <= lastSeq'
        BY <2>0, <2>1, <1>x, <1>h, <1>r, <1>t DEF Agreeing, ServiceTypeOK
    <2>4. \A r \in Commands : \A y, z \in Responses : Given(r, y)' /\ Given(r, z)' => y = z
        BY <2>0, <2>1, <2>2, <1>h DEF Agreeing
    <2>5. \A y \in Range(replays) :
              y \in Responses /\ y.command \in Commands /\ Sequence[y.command] # lastSeq + 1
        <3> SUFFICES ASSUME NEW y \in Range(replays)
                     PROVE  y \in Responses /\ y.command \in Commands /\ Sequence[y.command] # lastSeq + 1
            OBVIOUS
        <3>1. y \in Responses  BY <1>t DEF Range, ServiceTypeOK
        <3>2. y.command \in Commands  BY <3>1 DEF Responses
        <3>3. Given(y.command, y)  BY DEF Given
        <3>4. Sequence[y.command] <= lastSeq  BY <2>0, <3>1, <3>2, <3>3 DEF Agreeing
        <3> QED  BY <3>1, <3>2, <3>4, <1>t DEF ServiceTypeOK
    <2>6. \A y, z \in Range(replays') : Sequence[y.command] = Sequence[z.command] => y = z
        <3>1. \A y, z \in Range(replays) : Sequence[y.command] = Sequence[z.command] => y = z
            BY <2>0 DEF Agreeing
        <3> QED  BY <2>5, <3>1, <1>c, <1>x, <1>h
    <2>7. \A r \in Loads : r # request[c] => (Made(r)' <=> Made(r))
        BY DEF Made, Allocation
    <2>8. \A r \in Loads : \A y \in Responses : Given(r, y)' => (y.passed <=> Made(r)')
        <3> SUFFICES ASSUME NEW r \in Loads, NEW y \in Responses, Given(r, y)'
                     PROVE  y.passed <=> Made(r)'
            OBVIOUS
        <3>r. r \in Commands  BY DEF Loads
        <3>1. CASE r = request[c]
            <4>1. y = x  BY <2>1, <2>2, <3>1, <3>r
            <4>2. y.passed = ok  BY <4>1 DEF x, Response
            <4> QED  BY <3>1, <4>2 DEF Made
        <3>2. CASE r # request[c]
            <4>1. Given(r, y)  BY <2>1, <3>2, <3>r
            <4>2. y.passed <=> Made(r)  BY <2>0, <4>1 DEF Agreeing
            <4> QED  BY <2>7, <3>2, <4>2
        <3> QED  BY <3>1, <3>2
    <2> QED  BY <2>3, <2>4, <2>6, <2>8 DEF Agreeing
<1> QED  BY <1>h, <1>1, <1>2, <1>3, <1>4, <1>5, <1>6, <1>7, <1>8

(* What is left of the invariant after an answer.                          *)
LEMMA AnswerCompletes ==
    ASSUME WireTypeOK', ServiceTypeOK', StoreTypeOK', Serving', Exclusive', UsedUp', ClaimedOnce',
           LoadsOnce', Agreeing', Finite', MemoryAccounted', OverIsEmpty'
    PROVE  RuntimeInv'
BY DEF RuntimeInv, RuntimeTypeOK

(* The holder of the lock, and whether the store is locked.                *)
LEMMA LockHolder ==
    ASSUME RuntimeInv, NEW c \in Connections, conn[c] \in InLock
    PROVE  /\ holder = c /\ holder # NoCommand /\ request[c] \in Commands /\ ~sessionOver
           /\ (storeHeld <=> conn[c] \in {"converting", "converted"})
<1>1. holder = c /\ holder # NoCommand  BY RuntimeAssumption DEF RuntimeInv, Exclusive
<1>2. request[c] \in Commands  BY DEF RuntimeInv, Serving
<1>3. ~sessionOver  BY <1>1 DEF RuntimeInv, OverIsEmpty
<1>4. (storeHeld <=> conn[c] \in {"converting", "converted"})
    BY <1>1 DEF RuntimeInv, RuntimeTypeOK, StoreTypeOK, Exclusive
<1> QED  BY <1>1, <1>2, <1>3, <1>4

(* A load has made no tensor before it is retained.                        *)
LEMMA NoTensorYet ==
    ASSUME RuntimeInv, NEW c \in Connections, conn[c] \in InLock, conn[c] # "consuming"
    PROVE  \A a \in kept : a[1] # request[c]
<1> USE RuntimeAssumption
<1>1. holder = c /\ request[c] \in Commands  BY LockHolder
<1>2. Sequence[request[c]] = lastSeq + 1 /\ lastSeq \in Nat
    BY <1>1, LockHolder DEF RuntimeInv, RuntimeTypeOK, ServiceTypeOK, Exclusive
<1>3. \A a \in kept : Sequence[a[1]] <= lastSeq  BY <1>1 DEF RuntimeInv, UsedUp
<1> QED  BY <1>2, <1>3

(* A command that an exception ends uses up nothing and keeps nothing.     *)
LEMMA EscapesKeeps ==
    ASSUME RuntimeInv, NEW c \in Connections, conn[c] \in InLock, conn[c] # "consuming",
           Escapes(c), UNCHANGED <<records, quarantine, kept, alive, inbox, deleted>>,
           StoreTypeOK', ~storeHeld', Finite', MemoryAccounted'
    PROVE  RuntimeInv'
<1> USE RuntimeAssumption DEF Escapes, ConnectionEnds, Moves, mainVars
<1>t. WireTypeOK /\ ServiceTypeOK /\ UsedUp /\ Exclusive /\ Serving
    BY DEF RuntimeInv, RuntimeTypeOK
<1>h. holder = c /\ holder # NoCommand /\ ~sessionOver  BY LockHolder
<1>1. WireTypeOK'  BY <1>t DEF WireTypeOK
<1>2. ServiceTypeOK'  BY <1>t DEF ServiceTypeOK
<1>3. Serving'  BY <1>t DEF Serving, InLock, WireTypeOK
<1>4. Exclusive'  BY <1>t, <1>h DEF Exclusive, InLock, WireTypeOK
<1>5. UsedUp'  BY <1>t, <1>h DEF UsedUp
<1>6. ClaimedOnce'  BY <1>t DEF RuntimeInv, ClaimedOnce, WireTypeOK
<1>7. LoadsOnce'  BY DEF RuntimeInv, LoadsOnce
<1>8. Agreeing'
    <2>1. \A q \in Commands : \A x \in Responses : Given(q, x)' => Given(q, x)
        BY <1>t DEF Given, WireTypeOK
    <2> QED  BY <2>1, SilentAgrees
<1>9. OverIsEmpty'  BY <1>h DEF OverIsEmpty
<1> QED  BY <1>1, <1>2, <1>3, <1>4, <1>5, <1>6, <1>7, <1>8, <1>9, AnswerCompletes

(* The artifact of a load cannot be claimed.                               *)
LEMMA ClaimFailsKeeps ==
    ASSUME RuntimeInv, NEW c \in Connections, ClaimFails(c)
    PROVE  RuntimeInv'
<1> USE RuntimeAssumption DEF ClaimFails, artifactVars
<1>t. StoreTypeOK /\ ServiceTypeOK /\ UsedUp /\ Serving  BY DEF RuntimeInv, RuntimeTypeOK
<1>l. conn[c] \in InLock /\ conn[c] # "consuming"  BY DEF InLock
<1>h. /\ holder = c /\ holder # NoCommand /\ request[c] \in Commands /\ ~sessionOver
      /\ ~storeHeld /\ UNCHANGED residentVars
    BY <1>l, LockHolder DEF residentVars
<1>1. /\ WireTypeOK' /\ ServiceTypeOK' /\ Serving' /\ Exclusive' /\ UsedUp' /\ ClaimedOnce'
      /\ LoadsOnce' /\ Agreeing' /\ holder' = NoCommand
    <2>1. sessionOver' \in BOOLEAN /\ ~storeHeld'  BY <1>h, <1>t DEF ServiceTypeOK, residentVars
    <2>2. /\ kept' = kept /\ quarantine' = quarantine /\ records' \subseteq kept'
          /\ inbox' \subseteq inbox
          /\ \A a \in deleted' \ deleted :
                a \notin inbox' \/ (conn[c] = "consuming" /\ a = ArtifactOf[request[c]])
        BY <1>h, <1>t DEF residentVars, UsedUp
    <2>3. Answered(c, FALSE)  OBVIOUS
    <2>4. \A a \in kept' : a[1] # request[c]  BY <1>l, <2>2, NoTensorYet
    <2> HIDE DEF ClaimFails
    <2> QED  BY <1>l, <2>1, <2>2, <2>3, <2>4, AnsweredKeeps
<1>2. StoreTypeOK'
    BY <1>t, <1>h DEF StoreTypeOK, residentVars
<1>3. Finite' /\ MemoryAccounted'  BY <1>h, StoreRests
<1>4. OverIsEmpty'  BY <1>h DEF OverIsEmpty
<1> QED  BY <1>1, <1>2, <1>3, <1>4, AnswerCompletes

(* A numeric load is answered once its artifact is consumed.               *)
LEMMA ConsumesKeeps ==
    ASSUME RuntimeInv, NEW c \in Connections, Consumes(c)
    PROVE  RuntimeInv'
<1> USE RuntimeAssumption DEF Consumes, artifactVars
<1>t. StoreTypeOK /\ ServiceTypeOK /\ UsedUp /\ Serving  BY DEF RuntimeInv, RuntimeTypeOK
<1>l. conn[c] \in InLock  BY DEF InLock
<1>h. /\ holder = c /\ holder # NoCommand /\ request[c] \in Commands /\ ~sessionOver
      /\ ~storeHeld /\ UNCHANGED residentVars
    BY <1>l, LockHolder DEF residentVars
<1>1. /\ WireTypeOK' /\ ServiceTypeOK' /\ Serving' /\ Exclusive' /\ UsedUp' /\ ClaimedOnce'
      /\ LoadsOnce' /\ Agreeing' /\ holder' = NoCommand
    <2>1. sessionOver' \in BOOLEAN /\ ~storeHeld'  BY <1>h, <1>t DEF ServiceTypeOK, residentVars
    <2>2. /\ kept' = kept /\ quarantine' = quarantine /\ records' \subseteq kept'
          /\ inbox' \subseteq inbox
          /\ \A a \in deleted' \ deleted :
                a \notin inbox' \/ (conn[c] = "consuming" /\ a = ArtifactOf[request[c]])
        BY <1>h, <1>t DEF residentVars, UsedUp
    <2>3. Answered(c, TRUE)  OBVIOUS
    <2>4. \E a \in kept' : a[1] = request[c]  BY <1>h, <1>t, <2>2 DEF UsedUp, Allocation
    <2> HIDE DEF Consumes
    <2> QED  BY <1>l, <2>1, <2>2, <2>3, <2>4, AnsweredKeeps
<1>2. StoreTypeOK'
    BY <1>t, <1>h DEF StoreTypeOK, residentVars, Serving, Numeric
<1>3. Finite' /\ MemoryAccounted'  BY <1>h, StoreRests
<1>4. OverIsEmpty'  BY <1>h DEF OverIsEmpty
<1> QED  BY <1>1, <1>2, <1>3, <1>4, AnswerCompletes

(* A load does not fit.                                                    *)
LEMMA ReservationRefusedKeeps ==
    ASSUME RuntimeInv, NEW c \in Connections, ReservationRefused(c)
    PROVE  RuntimeInv'
<1> USE RuntimeAssumption DEF ReservationRefused, artifactVars
<1>t. StoreTypeOK /\ ServiceTypeOK /\ UsedUp /\ Serving  BY DEF RuntimeInv, RuntimeTypeOK
<1>l. conn[c] \in InLock /\ conn[c] # "consuming"  BY DEF InLock
<1>h. /\ holder = c /\ holder # NoCommand /\ request[c] \in Commands /\ ~sessionOver
      /\ ~storeHeld /\ UNCHANGED residentVars
    BY <1>l, LockHolder DEF residentVars
<1>1. /\ WireTypeOK' /\ ServiceTypeOK' /\ Serving' /\ Exclusive' /\ UsedUp' /\ ClaimedOnce'
      /\ LoadsOnce' /\ Agreeing' /\ holder' = NoCommand
    <2>1. sessionOver' \in BOOLEAN /\ ~storeHeld'  BY <1>h, <1>t DEF ServiceTypeOK, residentVars
    <2>2. /\ kept' = kept /\ quarantine' = quarantine /\ records' \subseteq kept'
          /\ inbox' \subseteq inbox
          /\ \A a \in deleted' \ deleted :
                a \notin inbox' \/ (conn[c] = "consuming" /\ a = ArtifactOf[request[c]])
        BY <1>h, <1>t DEF residentVars, UsedUp
    <2>3. Answered(c, FALSE)  OBVIOUS
    <2>4. \A a \in kept' : a[1] # request[c]  BY <1>l, <2>2, NoTensorYet
    <2> HIDE DEF ReservationRefused
    <2> QED  BY <1>l, <2>1, <2>2, <2>3, <2>4, AnsweredKeeps
<1>2. StoreTypeOK'
    BY <1>t, <1>h DEF StoreTypeOK, residentVars
<1>3. Finite' /\ MemoryAccounted'  BY <1>h, StoreRests
<1>4. OverIsEmpty'  BY <1>h DEF OverIsEmpty
<1> QED  BY <1>1, <1>2, <1>3, <1>4, AnswerCompletes

(* The status is answered.                                                 *)
LEMMA ReportsStatusKeeps ==
    ASSUME RuntimeInv, NEW c \in Connections, ReportsStatus(c)
    PROVE  RuntimeInv'
<1> USE RuntimeAssumption DEF ReportsStatus, artifactVars
<1>t. StoreTypeOK /\ ServiceTypeOK /\ UsedUp /\ Serving  BY DEF RuntimeInv, RuntimeTypeOK
<1>l. conn[c] \in InLock /\ conn[c] # "consuming"  BY DEF InLock
<1>h. /\ holder = c /\ holder # NoCommand /\ request[c] \in Commands /\ ~sessionOver
      /\ ~storeHeld /\ UNCHANGED residentVars
    BY <1>l, LockHolder DEF residentVars
<1>k. /\ kept' = kept /\ quarantine' = quarantine /\ records' \subseteq kept' /\ ~storeHeld'
      /\ UNCHANGED <<records, alive, inbox, deleted>>
    BY <1>h, <1>t DEF residentVars, UsedUp
<1>2. StoreTypeOK'
    BY <1>t, <1>h DEF StoreTypeOK, residentVars
<1>3. Finite' /\ MemoryAccounted'
    <2>1. CASE Answered(c, TRUE)  BY <2>1, <1>h, StoreRests DEF Answered
    <2>2. CASE Escapes(c)  BY <2>2, <1>h, StoreRests DEF Escapes
    <2> QED  BY <2>1, <2>2
<1>4. CASE Answered(c, TRUE) /\ UNCHANGED sessionOver
    <2>1. sessionOver' \in BOOLEAN  BY <1>4, <1>t DEF ServiceTypeOK
    <2>2. /\ WireTypeOK' /\ ServiceTypeOK' /\ Serving' /\ Exclusive' /\ UsedUp' /\ ClaimedOnce'
          /\ LoadsOnce' /\ Agreeing' /\ holder' = NoCommand
        BY <1>4, <1>l, <1>k, <2>1, AnsweredKeeps DEF Loads
    <2>3. OverIsEmpty'  BY <1>4, <1>h DEF OverIsEmpty
    <2> QED  BY <1>2, <1>3, <2>2, <2>3, AnswerCompletes
<1>5. CASE Escapes(c)
    BY <1>5, <1>l, <1>k, <1>2, <1>3, EscapesKeeps
<1> QED  BY <1>4, <1>5

(* Freed allocations take their bytes with them.                           *)
LEMMA FreesKeeps ==
    ASSUME RuntimeInv, ~storeHeld, NEW S, S \subseteq records \cup quarantine, NEW freed,
           FreesThose(S, freed)
    PROVE  /\ Finite' /\ MemoryAccounted' /\ pool' \in 0 .. PoolBytes
           /\ records' \subseteq records /\ quarantine' \subseteq quarantine
           /\ alive' = records' \cup quarantine' /\ alive' = alive \ freed
           /\ ~storeHeld' /\ storeHeld' \in BOOLEAN /\ kept' = kept
<1> USE RuntimeAssumption DEF FreesThose
<1>t. StoreTypeOK /\ Finite /\ MemoryAccounted  BY DEF RuntimeInv, RuntimeTypeOK
<1>1. /\ records' = records \ freed /\ quarantine' = quarantine \ freed
      /\ ~storeHeld' /\ storeHeld' \in BOOLEAN /\ kept' = kept /\ alive' = alive \ freed
    BY <1>t DEF StoreTypeOK
<1>2. /\ \A a \in records : Keeps[a[1]] \in Nat
      /\ \A a \in quarantine : Needs[a[1]] \in Nat
    BY <1>t DEF StoreTypeOK
<1>3. /\ IsFiniteSet(records')
      /\ TotalBytes(records', Keeps)
            = TotalBytes(records, Keeps) - TotalBytes(freed \cap records, Keeps)
      /\ TotalBytes(records', Keeps) \in Nat /\ TotalBytes(freed \cap records, Keeps) \in Nat
    <2>1. IsFiniteSet(records)  BY <1>t DEF Finite
    <2>2. /\ IsFiniteSet(records \ freed)
          /\ TotalBytes(records \ freed, Keeps)
                = TotalBytes(records, Keeps) - TotalBytes(freed \cap records, Keeps)
          /\ TotalBytes(records \ freed, Keeps) \in Nat
          /\ TotalBytes(freed \cap records, Keeps) \in Nat
        BY <1>2, <2>1, BytesRemove
    <2> QED  BY <1>1, <2>2, Zenon
<1>4. /\ IsFiniteSet(quarantine')
      /\ TotalBytes(quarantine', Needs)
            = TotalBytes(quarantine, Needs) - TotalBytes(freed \cap quarantine, Needs)
      /\ TotalBytes(quarantine', Needs) \in Nat /\ TotalBytes(freed \cap quarantine, Needs) \in Nat
    <2>1. IsFiniteSet(quarantine)  BY <1>t DEF Finite
    <2>2. /\ IsFiniteSet(quarantine \ freed)
          /\ TotalBytes(quarantine \ freed, Needs)
                = TotalBytes(quarantine, Needs) - TotalBytes(freed \cap quarantine, Needs)
          /\ TotalBytes(quarantine \ freed, Needs) \in Nat
          /\ TotalBytes(freed \cap quarantine, Needs) \in Nat
        BY <1>2, <2>1, BytesRemove
    <2> QED  BY <1>1, <2>2, Zenon
<1>5. /\ TotalBytes(records, Keeps) \in Nat /\ TotalBytes(quarantine, Needs) \in Nat
      /\ pool = TotalBytes(records, Keeps) + TotalBytes(quarantine, Needs)
    BY <1>t, <1>2, BytesFinite DEF Finite, MemoryAccounted
<1>6. /\ pool' = TotalBytes(records', Keeps) + TotalBytes(quarantine', Needs)
      /\ pool' \in 0 .. PoolBytes
    BY <1>3, <1>4, <1>5, <1>t DEF StoreTypeOK
<1>7. alive' = records' \cup quarantine' /\ records' \cap quarantine' = {}
    BY <1>1, <1>t DEF MemoryAccounted
<1>8. MemoryAccounted'
    <2> HIDE DEF FreesThose
    <2>1. pool' = TotalBytes(records', Keeps) + TotalBytes(quarantine', Needs) + 0
        BY <1>3, <1>4, <1>6
    <2>2. pool' <= PoolBytes  BY <1>6
    <2> QED  BY <1>1, <1>7, <2>1, <2>2 DEF MemoryAccounted
<1> QED  BY <1>1, <1>3, <1>4, <1>6, <1>7, <1>8 DEF Finite

(* A tensor is unloaded.                                                   *)
LEMMA UnloadsKeeps ==
    ASSUME RuntimeInv, NEW c \in Connections, Unloads(c)
    PROVE  RuntimeInv'
<1> USE RuntimeAssumption DEF Unloads, artifactVars
<1>t. StoreTypeOK /\ ServiceTypeOK /\ UsedUp /\ Exclusive /\ MemoryAccounted
    BY DEF RuntimeInv, RuntimeTypeOK
<1>l. conn[c] \in InLock /\ conn[c] # "consuming"  BY DEF InLock
<1>h. holder = c /\ holder # NoCommand /\ request[c] \in Commands /\ ~sessionOver /\ ~storeHeld
    BY <1>l, LockHolder
<1>a. UNCHANGED <<inbox, deleted>>  OBVIOUS
<1>1. ASSUME UNCHANGED sessionOver, NEW freed \in SUBSET Of(Subject[request[c]]),
             FreesThose(Of(Subject[request[c]]), freed), Answered(c, freed # {})
      PROVE  RuntimeInv'
    <2>s. Of(Subject[request[c]]) \subseteq records \cup quarantine  BY DEF Of
    <2>2. /\ Finite' /\ MemoryAccounted' /\ pool' \in 0 .. PoolBytes
          /\ records' \subseteq records /\ quarantine' \subseteq quarantine
          /\ alive' = records' \cup quarantine' /\ alive' = alive \ freed
          /\ ~storeHeld' /\ storeHeld' \in BOOLEAN /\ kept' = kept
        BY <1>h, <1>1, <2>s, FreesKeeps
    <2>o. sessionOver' \in BOOLEAN /\ (freed # {}) \in BOOLEAN  BY <1>t, <1>1 DEF ServiceTypeOK
    <2>1. /\ WireTypeOK' /\ ServiceTypeOK' /\ Serving' /\ Exclusive' /\ UsedUp' /\ ClaimedOnce'
          /\ LoadsOnce' /\ Agreeing' /\ holder' = NoCommand
        BY <1>l, <1>a, <2>2, <1>1, <2>o, <1>t, AnsweredKeeps DEF UsedUp, Loads
    <2>3. StoreTypeOK'  BY <1>t, <1>a, <2>2 DEF StoreTypeOK
    <2>4. OverIsEmpty'  BY <1>h, <1>1, <2>1, <2>2, <1>t DEF OverIsEmpty, MemoryAccounted
    <2> QED  BY <2>1, <2>2, <2>3, <2>4, AnswerCompletes
<1>2. CASE Escapes(c) /\ UNCHANGED residentVars
    <2>1. UNCHANGED <<records, quarantine, kept, alive, storeHeld, pool>>
        BY <1>2 DEF residentVars
    <2>2. StoreTypeOK' /\ ~storeHeld'  BY <1>t, <1>h, <1>a, <2>1 DEF StoreTypeOK
    <2>3. Finite' /\ MemoryAccounted'  BY <1>2, <1>h, StoreRests DEF Escapes
    <2> QED  BY <1>2, <1>l, <1>a, <2>1, <2>2, <2>3, EscapesKeeps
<1> QED  BY <1>1, <1>2

(* Quarantined resources are released after all.                           *)
LEMMA RetriesQuarantineKeeps ==
    ASSUME RuntimeInv, NEW c \in Connections, RetriesQuarantine(c)
    PROVE  RuntimeInv'
<1> USE RuntimeAssumption DEF RetriesQuarantine, artifactVars
<1>t. StoreTypeOK /\ ServiceTypeOK /\ UsedUp /\ Exclusive /\ MemoryAccounted
    BY DEF RuntimeInv, RuntimeTypeOK
<1>l. conn[c] \in InLock  BY DEF InLock
<1>h. holder = c /\ request[c] \in Commands /\ ~sessionOver /\ ~storeHeld
    BY <1>l, LockHolder
<1>f. PICK freed \in SUBSET quarantine : FreesThose(quarantine, freed) /\ Answered(c, TRUE)
    OBVIOUS
<1>s. quarantine \subseteq records \cup quarantine  BY DEF Of
<1>2. /\ Finite' /\ MemoryAccounted' /\ pool' \in 0 .. PoolBytes
      /\ records' \subseteq records /\ quarantine' \subseteq quarantine
      /\ alive' = records' \cup quarantine' /\ alive' = alive \ freed
      /\ ~storeHeld' /\ storeHeld' \in BOOLEAN /\ kept' = kept
    BY <1>h, <1>f, <1>s, FreesKeeps
<1>o. sessionOver' \in BOOLEAN /\ TRUE \in BOOLEAN  BY <1>t, <1>f DEF ServiceTypeOK
<1>1. /\ WireTypeOK' /\ ServiceTypeOK' /\ Serving' /\ Exclusive' /\ UsedUp' /\ ClaimedOnce'
      /\ LoadsOnce' /\ Agreeing' /\ holder' = NoCommand
    BY <1>l, <1>2, <1>f, <1>o, <1>t, AnsweredKeeps DEF UsedUp, Loads
<1>3. StoreTypeOK'  BY <1>t, <1>2 DEF StoreTypeOK
<1>4. OverIsEmpty'  BY <1>h, <1>1, <1>2, <1>f, <1>t DEF OverIsEmpty, MemoryAccounted
<1> QED  BY <1>1, <1>2, <1>3, <1>4, AnswerCompletes

(* The session is shut down, unless a release failed.                      *)
LEMMA ShutsDownKeeps ==
    ASSUME RuntimeInv, NEW c \in Connections, ShutsDown(c)
    PROVE  RuntimeInv'
<1> USE RuntimeAssumption DEF ShutsDown, artifactVars
<1>t. StoreTypeOK /\ ServiceTypeOK /\ UsedUp /\ Exclusive /\ MemoryAccounted
    BY DEF RuntimeInv, RuntimeTypeOK
<1>l. conn[c] \in InLock  BY DEF InLock
<1>h. holder = c /\ request[c] \in Commands /\ ~sessionOver /\ ~storeHeld
    BY <1>l, LockHolder
<1>f. PICK freed \in SUBSET (records \cup quarantine) :
          /\ FreesThose(records \cup quarantine, freed)
          /\ sessionOver' = (freed = records \cup quarantine)
          /\ Answered(c, freed = records \cup quarantine)
    OBVIOUS
<1>s. records \cup quarantine \subseteq records \cup quarantine  BY DEF Of
<1>2. /\ Finite' /\ MemoryAccounted' /\ pool' \in 0 .. PoolBytes
      /\ records' \subseteq records /\ quarantine' \subseteq quarantine
      /\ alive' = records' \cup quarantine' /\ alive' = alive \ freed
      /\ ~storeHeld' /\ storeHeld' \in BOOLEAN /\ kept' = kept
    BY <1>h, <1>f, <1>s, FreesKeeps
<1>o. sessionOver' \in BOOLEAN /\ (freed = records \cup quarantine) \in BOOLEAN  BY <1>t, <1>f DEF ServiceTypeOK
<1>1. /\ WireTypeOK' /\ ServiceTypeOK' /\ Serving' /\ Exclusive' /\ UsedUp' /\ ClaimedOnce'
      /\ LoadsOnce' /\ Agreeing' /\ holder' = NoCommand
    BY <1>l, <1>2, <1>f, <1>o, <1>t, AnsweredKeeps DEF UsedUp, Loads
<1>3. StoreTypeOK'  BY <1>t, <1>2 DEF StoreTypeOK
<1>4. OverIsEmpty'  BY <1>h, <1>1, <1>2, <1>f, <1>t DEF OverIsEmpty, MemoryAccounted
<1> QED  BY <1>1, <1>2, <1>3, <1>4, AnswerCompletes

(* The main thread releases what it can when it closes the worker.         *)
LEMMA MainReleasesKeeps ==
    ASSUME RuntimeInv, MainReleases
    PROVE  RuntimeInv'
<1> USE RuntimeAssumption DEF MainReleases, wireVars, commandVars, artifactVars
<1>t. StoreTypeOK /\ ServiceTypeOK /\ WireTypeOK  BY DEF RuntimeInv, RuntimeTypeOK
<1>f. PICK freed \in SUBSET (records \cup quarantine) :
          FreesThose(records \cup quarantine, freed)
    OBVIOUS
<1>2. /\ Finite' /\ MemoryAccounted' /\ pool' \in 0 .. PoolBytes
      /\ records' \subseteq records /\ quarantine' \subseteq quarantine
      /\ alive' = records' \cup quarantine' /\ alive' = alive \ freed
      /\ ~storeHeld' /\ storeHeld' \in BOOLEAN /\ kept' = kept
    BY <1>f, FreesKeeps
<1>3. RuntimeTypeOK'
    <2>1. WireTypeOK'  BY <1>t DEF WireTypeOK
    <2>2. ServiceTypeOK'  BY <1>t DEF ServiceTypeOK
    <2>3. StoreTypeOK'  BY <1>t, <1>2 DEF StoreTypeOK
    <2> QED  BY <2>1, <2>2, <2>3 DEF RuntimeTypeOK
<1>4. Serving'  BY DEF RuntimeInv, Serving
<1>5. Exclusive'  BY <1>2 DEF RuntimeInv, Exclusive
<1>6. UsedUp'  BY <1>2 DEF RuntimeInv, UsedUp, Allocation
<1>7. ClaimedOnce' /\ LoadsOnce'  BY <1>2 DEF RuntimeInv, ClaimedOnce, LoadsOnce
<1>8. Agreeing'  BY <1>2, SilentAgrees DEF Given
<1>9. OverIsEmpty'  BY <1>2 DEF RuntimeInv, OverIsEmpty
<1> QED  BY <1>2, <1>3, <1>4, <1>5, <1>6, <1>7, <1>8, <1>9 DEF RuntimeInv

(* A reservation that is given back leaves what the tables hold.           *)
LEMMA GivesBackKeeps ==
    ASSUME RuntimeInv, NEW c \in Connections, conn[c] \in {"converting", "converted"},
           GivesBack(c), UNCHANGED artifactVars
    PROVE  /\ Finite' /\ MemoryAccounted' /\ StoreTypeOK' /\ ~storeHeld'
           /\ UNCHANGED <<records, quarantine, kept, alive>> /\ records \subseteq kept
<1> USE RuntimeAssumption DEF GivesBack, artifactVars
<1>t. StoreTypeOK /\ MemoryAccounted /\ Finite /\ Serving  BY DEF RuntimeInv, RuntimeTypeOK
<1>l. conn[c] \in InLock  BY DEF InLock
<1>h. holder = c /\ storeHeld /\ request[c] \in Loads
    BY <1>l, <1>t, LockHolder DEF Serving
<1>1. /\ TotalBytes(records, Keeps) \in Nat /\ TotalBytes(quarantine, Needs) \in Nat
      /\ Needs[request[c]] \in Nat
    BY <1>t, <1>h, BytesFinite DEF Finite, StoreTypeOK
<1>2. pool = TotalBytes(records, Keeps) + TotalBytes(quarantine, Needs) + Needs[request[c]]
    BY <1>t, <1>h DEF MemoryAccounted
<1>3. /\ pool' = TotalBytes(records', Keeps) + TotalBytes(quarantine', Needs)
      /\ pool' = TotalBytes(records', Keeps) + TotalBytes(quarantine', Needs) + 0
      /\ pool' \in 0 .. PoolBytes
    BY <1>1, <1>2, <1>t DEF StoreTypeOK
<1>4. ~storeHeld' /\ storeHeld' \in BOOLEAN  OBVIOUS
<1>5. StoreTypeOK'  BY <1>3, <1>4, <1>t DEF StoreTypeOK
<1>6. MemoryAccounted'
    <2>1. pool' <= PoolBytes  BY <1>3
    <2> QED  BY <1>3, <1>4, <1>t, <2>1 DEF MemoryAccounted
<1>7. Finite'  BY <1>t DEF Finite
<1> QED  BY <1>4, <1>5, <1>6, <1>7 DEF RuntimeInv, UsedUp

(* A conversion that fails without an allocation.                          *)
LEMMA ConversionFailsKeeps ==
    ASSUME RuntimeInv, NEW c \in Connections, ConversionFails(c)
    PROVE  RuntimeInv'
<1> USE RuntimeAssumption DEF ConversionFails
<1>t. StoreTypeOK /\ ServiceTypeOK /\ WireTypeOK /\ UsedUp /\ Exclusive /\ Serving
    BY DEF RuntimeInv, RuntimeTypeOK
<1>l. conn[c] \in InLock  BY DEF InLock
<1>h. /\ holder = c /\ holder # NoCommand /\ request[c] \in Commands /\ ~sessionOver
      /\ storeHeld /\ request[c] \in Loads
    BY <1>l, <1>t, LockHolder DEF Serving
<1>g. /\ Finite' /\ MemoryAccounted' /\ StoreTypeOK' /\ ~storeHeld'
      /\ UNCHANGED <<records, quarantine, kept, alive>> /\ records \subseteq kept
    BY GivesBackKeeps
<1>a. UNCHANGED <<inbox, deleted>>  BY DEF artifactVars
<1>n. \A a \in kept : a[1] # request[c]  BY <1>l, NoTensorYet
<1>1. CASE Answered(c, FALSE) /\ UNCHANGED sessionOver
    <2>1. sessionOver' \in BOOLEAN  BY <1>1, <1>t DEF ServiceTypeOK
    <2>2. /\ WireTypeOK' /\ ServiceTypeOK' /\ Serving' /\ Exclusive' /\ UsedUp' /\ ClaimedOnce'
      /\ LoadsOnce' /\ Agreeing' /\ holder' = NoCommand
        BY <1>1, <1>l, <1>g, <1>a, <1>n, <2>1, AnsweredKeeps
    <2>3. OverIsEmpty'  BY <1>1, <1>h DEF OverIsEmpty
    <2> QED  BY <1>g, <2>2, <2>3, AnswerCompletes
<1>2. CASE Escapes(c)
    <2>1. conn[c] # "consuming"  OBVIOUS
    <2> QED  BY <1>2, <1>l, <1>g, <1>a, <2>1, EscapesKeeps
<1> QED  BY <1>1, <1>2

(* A wrong tensor is released.                                             *)
LEMMA DiscardsKeeps ==
    ASSUME RuntimeInv, NEW c \in Connections, Discards(c)
    PROVE  RuntimeInv'
<1> USE RuntimeAssumption DEF Discards
<1>t. StoreTypeOK /\ ServiceTypeOK /\ WireTypeOK /\ UsedUp /\ Exclusive /\ Serving
    BY DEF RuntimeInv, RuntimeTypeOK
<1>l. conn[c] \in InLock  BY DEF InLock
<1>h. /\ holder = c /\ holder # NoCommand /\ request[c] \in Commands /\ ~sessionOver
      /\ storeHeld /\ request[c] \in Loads
    BY <1>l, <1>t, LockHolder DEF Serving
<1>g. /\ Finite' /\ MemoryAccounted' /\ StoreTypeOK' /\ ~storeHeld'
      /\ UNCHANGED <<records, quarantine, kept, alive>> /\ records \subseteq kept
    BY GivesBackKeeps
<1>a. UNCHANGED <<inbox, deleted>>  BY DEF artifactVars
<1>n. \A a \in kept : a[1] # request[c]  BY <1>l, NoTensorYet
<1>1. sessionOver' \in BOOLEAN  BY <1>t DEF ServiceTypeOK
<1>2. /\ WireTypeOK' /\ ServiceTypeOK' /\ Serving' /\ Exclusive' /\ UsedUp' /\ ClaimedOnce'
      /\ LoadsOnce' /\ Agreeing' /\ holder' = NoCommand
    BY <1>l, <1>g, <1>a, <1>n, <1>1, AnsweredKeeps
<1>3. OverIsEmpty'  BY <1>h DEF OverIsEmpty
<1> QED  BY <1>g, <1>2, <1>3, AnswerCompletes

(* The allocation of the load that converts is a new one.                  *)
LEMMA NewAllocation ==
    ASSUME RuntimeInv, NEW c \in Connections, conn[c] = "converted"
    PROVE  /\ Allocation(c) \in Loads \X Nat
           /\ Allocation(c)[1] = request[c]
           /\ Allocation(c) \notin kept \cup quarantine \cup records
           /\ \A a \in kept : Sequence[a[1]] # Sequence[request[c]]
<1> USE RuntimeAssumption
<1>t. StoreTypeOK /\ ServiceTypeOK /\ WireTypeOK /\ UsedUp /\ Exclusive /\ Serving
    BY DEF RuntimeInv, RuntimeTypeOK
<1>l. conn[c] \in InLock  BY DEF InLock
<1>h. /\ holder = c /\ holder # NoCommand /\ request[c] \in Commands /\ ~sessionOver
      /\ storeHeld /\ request[c] \in Loads
    BY <1>l, <1>t, LockHolder DEF Serving
<1>1. Sequence[request[c]] = lastSeq + 1  BY <1>h, <1>t DEF Exclusive
<1>2. \A a \in kept \cup quarantine : Sequence[a[1]] # Sequence[request[c]]
    <2> SUFFICES ASSUME NEW a \in kept \cup quarantine PROVE Sequence[a[1]] # Sequence[request[c]]
        OBVIOUS
    <2>1. Sequence[a[1]] <= lastSeq  BY <1>h, <1>t DEF UsedUp
    <2>2. a[1] \in Commands  BY <1>t DEF StoreTypeOK, Loads
    <2> QED  BY <1>1, <2>1, <2>2, <1>t DEF ServiceTypeOK
<1>3. Allocation(c) = <<request[c], runs[request[c]]>> /\ runs[request[c]] \in Nat
    BY <1>h, <1>t DEF Allocation, ServiceTypeOK
<1>4. Allocation(c)[1] = request[c] /\ Allocation(c) \in Loads \X Nat  BY <1>3, <1>h
<1>5. Allocation(c) \notin kept \cup quarantine  BY <1>2, <1>4
<1> QED  BY <1>2, <1>4, <1>5, <1>t DEF UsedUp

(* A wrong tensor that cannot be released keeps its whole reservation.     *)
LEMMA QuarantinesKeeps ==
    ASSUME RuntimeInv, NEW c \in Connections, Quarantines(c)
    PROVE  RuntimeInv'
<1> USE RuntimeAssumption DEF Quarantines, artifactVars
<1>t. StoreTypeOK /\ ServiceTypeOK /\ WireTypeOK /\ UsedUp /\ Exclusive /\ Serving
    BY DEF RuntimeInv, RuntimeTypeOK
<1>l. conn[c] \in InLock  BY DEF InLock
<1>h. /\ holder = c /\ holder # NoCommand /\ request[c] \in Commands /\ ~sessionOver
      /\ storeHeld /\ request[c] \in Loads
    BY <1>l, <1>t, LockHolder DEF Serving
<1> DEFINE a == Allocation(c)
<1>n. /\ a \in Loads \X Nat /\ a[1] = request[c]
      /\ a \notin kept \cup quarantine \cup records
    BY NewAllocation
<1> HIDE DEF a
<1>e. /\ quarantine' = quarantine \cup {a} /\ alive' = alive \cup {a}
      /\ UNCHANGED <<pool, records, kept, inbox, deleted, sessionOver>>
      /\ ~storeHeld' /\ storeHeld' \in BOOLEAN
    BY DEF a
<1>k. \A b \in kept : b[1] # request[c]  BY <1>l, NoTensorYet
<1>m. MemoryAccounted /\ Finite  BY DEF RuntimeInv
<1>1. /\ TotalBytes(records, Keeps) \in Nat /\ TotalBytes(quarantine, Needs) \in Nat
      /\ Needs[request[c]] \in Nat
    BY <1>t, <1>h, <1>m, BytesFinite DEF Finite, StoreTypeOK
<1>2. /\ IsFiniteSet(quarantine')
      /\ TotalBytes(quarantine', Needs) = TotalBytes(quarantine, Needs) + Needs[request[c]]
    <2>1. Needs[a[1]] \in Nat /\ \A b \in quarantine : Needs[b[1]] \in Nat
        BY <1>t, <1>h, <1>n DEF StoreTypeOK
    <2>2. /\ IsFiniteSet(quarantine \cup {a})
          /\ TotalBytes(quarantine \cup {a}, Needs) = TotalBytes(quarantine, Needs) + Needs[a[1]]
        BY <1>n, <1>m, <2>1, BytesAdd DEF Finite
    <2> QED  BY <1>e, <1>n, <2>2, Zenon
<1>3. pool = TotalBytes(records, Keeps) + TotalBytes(quarantine, Needs) + Needs[request[c]]
    BY <1>m, <1>h DEF MemoryAccounted
<1>4. MemoryAccounted'
    <2>1. pool' = TotalBytes(records', Keeps) + TotalBytes(quarantine', Needs) + 0
        BY <1>1, <1>2, <1>3, <1>e
    <2> QED  BY <2>1, <1>e, <1>m, <1>n, <1>t DEF MemoryAccounted, StoreTypeOK
<1>5. Finite'  BY <1>2, <1>e, <1>m DEF Finite
<1>6. StoreTypeOK'  BY <1>e, <1>n, <1>t DEF StoreTypeOK
<1>7. sessionOver' \in BOOLEAN  BY <1>t, <1>e DEF ServiceTypeOK
<1>8. /\ WireTypeOK' /\ ServiceTypeOK' /\ Serving' /\ Exclusive' /\ UsedUp' /\ ClaimedOnce'
      /\ LoadsOnce' /\ Agreeing' /\ holder' = NoCommand
    BY <1>l, <1>e, <1>k, <1>t, <1>7, AnsweredKeeps DEF a, UsedUp
<1>9. OverIsEmpty'  BY <1>h, <1>e DEF OverIsEmpty
<1> QED  BY <1>4, <1>5, <1>6, <1>8, <1>9, AnswerCompletes

(* A converted tensor becomes a record and its reservation shrinks.        *)
LEMMA RetainsKeeps ==
    ASSUME RuntimeInv, NEW c \in Connections, Retains(c)
    PROVE  RuntimeInv'
<1> USE RuntimeAssumption DEF Retains, artifactVars
<1>t. StoreTypeOK /\ ServiceTypeOK /\ WireTypeOK /\ UsedUp /\ Exclusive /\ Serving
    BY DEF RuntimeInv, RuntimeTypeOK
<1>l. conn[c] \in InLock  BY DEF InLock
<1>h. /\ holder = c /\ holder # NoCommand /\ request[c] \in Commands /\ ~sessionOver
      /\ storeHeld /\ request[c] \in Loads
    BY <1>l, <1>t, LockHolder DEF Serving
<1> DEFINE a == Allocation(c)
<1>n. /\ a \in Loads \X Nat /\ a[1] = request[c]
      /\ a \notin kept \cup quarantine \cup records
      /\ \A b \in kept : Sequence[b[1]] # Sequence[request[c]]
    BY NewAllocation
<1> HIDE DEF a
<1>e. /\ records' = records \cup {a} /\ alive' = alive \cup {a} /\ kept' = kept \cup {a}
      /\ pool' = pool - (Needs[request[c]] - Keeps[request[c]])
      /\ UNCHANGED <<quarantine, inbox, deleted, sessionOver>>
      /\ ~storeHeld' /\ storeHeld' \in BOOLEAN
    BY DEF a, commandVars
<1>m. MemoryAccounted /\ Finite  BY DEF RuntimeInv
<1>1. /\ TotalBytes(records, Keeps) \in Nat /\ TotalBytes(quarantine, Needs) \in Nat
      /\ Needs[request[c]] \in Nat /\ Keeps[request[c]] \in Nat
      /\ Keeps[request[c]] <= Needs[request[c]]
    BY <1>t, <1>h, <1>m, BytesFinite DEF Finite, StoreTypeOK
<1>2. /\ IsFiniteSet(records')
      /\ TotalBytes(records', Keeps) = TotalBytes(records, Keeps) + Keeps[request[c]]
    <2>1. Keeps[a[1]] \in Nat /\ \A b \in records : Keeps[b[1]] \in Nat
        BY <1>t, <1>h, <1>n DEF StoreTypeOK
    <2>2. /\ IsFiniteSet(records \cup {a})
          /\ TotalBytes(records \cup {a}, Keeps) = TotalBytes(records, Keeps) + Keeps[a[1]]
        BY <1>n, <1>m, <2>1, BytesAdd DEF Finite
    <2> QED  BY <1>e, <1>n, <2>2, Zenon
<1>3. pool = TotalBytes(records, Keeps) + TotalBytes(quarantine, Needs) + Needs[request[c]]
    BY <1>m, <1>h DEF MemoryAccounted
<1>4. /\ pool' = TotalBytes(records', Keeps) + TotalBytes(quarantine', Needs) + 0
      /\ pool' \in 0 .. PoolBytes
    BY <1>1, <1>2, <1>3, <1>e, <1>t DEF StoreTypeOK
<1>5. MemoryAccounted'
    <2>1. pool' <= PoolBytes  BY <1>4
    <2>2. alive' = records' \cup quarantine' /\ records' \cap quarantine' = {}
        BY <1>e, <1>m, <1>n DEF MemoryAccounted
    <2> QED  BY <1>4, <1>e, <2>1, <2>2 DEF MemoryAccounted
<1>6. Finite'  BY <1>2, <1>e, <1>m DEF Finite
<1>7. StoreTypeOK'  BY <1>4, <1>e, <1>n, <1>t DEF StoreTypeOK
<1>8. CASE Numeric(request[c])
    <2>0. /\ conn' = [conn EXCEPT ![c] = "consuming"]
          /\ UNCHANGED <<agenda, frame, request, reply, served, busy, gone, cut, answers, main,
                         aborted, holder, signal, lastSeq, replays, runs>>
        BY <1>8 DEF Moves, mainVars, commandVars
    <2>1. WireTypeOK' /\ ServiceTypeOK'
        <3>1. WireTypeOK'  BY <1>t, <2>0 DEF WireTypeOK
        <3>2. ServiceTypeOK'  BY <1>t, <1>e, <2>0 DEF ServiceTypeOK
        <3> QED  BY <3>1, <3>2
    <2>2. Serving'  BY <1>t, <1>8, <2>0 DEF Serving, InLock, WireTypeOK
    <2>3. Exclusive'  BY <1>t, <1>h, <1>e, <2>0 DEF Exclusive, InLock, WireTypeOK
    <2>4. Allocation(holder)' = a  BY <1>h, <2>0 DEF Allocation, a
    <2>5. UsedUp'
        <3>1. conn'[holder'] = "consuming"  BY <1>h, <1>t, <2>0 DEF WireTypeOK
        <3>2. \A b \in kept \cup quarantine : Sequence[b[1]] <= lastSeq
            BY <1>h, <1>t DEF UsedUp
        <3>3. records' \subseteq kept'  BY <1>e, <1>t DEF UsedUp
        <3> QED  BY <1>e, <1>h, <2>0, <2>4, <3>1, <3>2, <3>3 DEF UsedUp
    <2>6. /\ ArtifactOf[a[1]] \notin inbox
          /\ \A b \in kept : Numeric(b[1]) => ArtifactOf[b[1]] # ArtifactOf[a[1]]
        BY <1>8, <1>n DEF RuntimeInv, ClaimedOnce
    <2>7. ClaimedOnce'
        <3>1. \A d \in Connections : conn'[d] \notin {"reserving", "converting", "converted"}
            BY <1>t, <1>h, <2>0 DEF Exclusive, InLock, WireTypeOK
        <3>2. \A b \in kept' : Numeric(b[1]) => ArtifactOf[b[1]] \notin inbox'
            BY <1>e, <2>6 DEF RuntimeInv, ClaimedOnce
        <3> QED  BY <3>1, <3>2 DEF ClaimedOnce
    <2>8. LoadsOnce'
        <3>1. \A b, d \in kept' : Sequence[b[1]] = Sequence[d[1]] => b = d
            BY <1>e, <1>n DEF RuntimeInv, LoadsOnce
        <3>2. \A b, d \in kept' :
                  Numeric(b[1]) /\ Numeric(d[1]) /\ ArtifactOf[b[1]] = ArtifactOf[d[1]] => b = d
            BY <1>e, <2>6 DEF RuntimeInv, LoadsOnce
        <3>3. deleted' \cap inbox' = {}
            BY <1>e DEF RuntimeInv, LoadsOnce
        <3> QED  BY <2>7, <3>1, <3>2, <3>3 DEF LoadsOnce, ClaimedOnce
    <2>9. Agreeing'
        <3>1. \A q \in Commands : \A x \in Responses : Given(q, x)' => Given(q, x)
            BY <1>t, <2>0 DEF Given, WireTypeOK
        <3>2. \A x \in Responses : ~Given(request[c], x)
            <4>1. Sequence[request[c]] = lastSeq + 1  BY <1>h, <1>t DEF Exclusive
            <4> QED  BY <1>h, <1>t, <4>1 DEF RuntimeInv, Agreeing, ServiceTypeOK
        <3>3. \A q \in Loads : q # request[c] => (Made(q)' <=> Made(q))
            BY <1>e, <1>n DEF Made
        <3>4. \A q \in Loads : \A x \in Responses : Given(q, x)' => (x.passed <=> Made(q)')
            BY <3>1, <3>2, <3>3 DEF RuntimeInv, Agreeing, Loads
        <3> QED  BY <2>0, <3>1, <3>4 DEF RuntimeInv, Agreeing
    <2>10. OverIsEmpty'  BY <1>h, <1>e DEF OverIsEmpty
    <2> QED  BY <1>5, <1>6, <1>7, <2>1, <2>2, <2>3, <2>5, <2>7, <2>8, <2>9, <2>10, AnswerCompletes
<1>9. CASE ~Numeric(request[c])
    <2>1. Answered(c, TRUE)  BY <1>9
    <2>2. sessionOver' \in BOOLEAN  BY <1>t, <1>e DEF ServiceTypeOK
    <2>m. \E b \in kept' : b[1] = request[c]  BY <1>e, <1>n
    <2>3. /\ WireTypeOK' /\ ServiceTypeOK' /\ Serving' /\ Exclusive' /\ UsedUp' /\ ClaimedOnce'
      /\ LoadsOnce' /\ Agreeing' /\ holder' = NoCommand
        BY <1>l, <1>9, <1>e, <1>t, <2>m, <2>1, <2>2, AnsweredKeeps DEF a, UsedUp
    <2>4. OverIsEmpty'  BY <1>h, <1>e DEF OverIsEmpty
    <2> QED  BY <1>5, <1>6, <1>7, <2>3, <2>4, AnswerCompletes
<1> QED  BY <1>8, <1>9

-----------------------------------------------------------------------------
(* The worker starts with the invariant.                                   *)
LEMMA RuntimeStarts == RuntimeInit => RuntimeInv
<1> SUFFICES ASSUME RuntimeInit PROVE RuntimeInv  OBVIOUS
<1> USE RuntimeAssumption DEF RuntimeInit
<1>1. WireTypeOK
    <2>1. aborted \in BOOLEAN  BY Zenon
    <2>2. 0 \in 0 .. MaxCommands  OBVIOUS
    <2> QED  BY <2>1, <2>2 DEF WireTypeOK
<1>2. ServiceTypeOK
    <2>1. signal \in BOOLEAN /\ sessionOver \in BOOLEAN  BY Zenon
    <2>2. replays \in Seq(Responses) /\ Len(replays) <= MaxCached  OBVIOUS
    <2> QED  BY <2>1, <2>2 DEF ServiceTypeOK
<1>3. StoreTypeOK
    <2>1. storeHeld \in BOOLEAN  BY Zenon
    <2> QED  BY <2>1 DEF StoreTypeOK
<1>4. Serving /\ Exclusive
    <2>1. Serving  BY DEF Serving, InLock
    <2>2. Exclusive  BY DEF Exclusive, InLock
    <2> QED  BY <2>1, <2>2
<1>5. UsedUp /\ ClaimedOnce /\ LoadsOnce /\ OverIsEmpty
    BY DEF UsedUp, ClaimedOnce, LoadsOnce, OverIsEmpty
<1>6. Agreeing
    <2>1. Range(replays) = {}  BY DEF Range
    <2> QED  BY <2>1 DEF Agreeing, Given, Loads
<1>7. Finite  BY FS_EmptySet DEF Finite
<1>8. MemoryAccounted
    <2>1. TotalBytes(records, Keeps) = 0 /\ TotalBytes(quarantine, Needs) = 0
        BY BytesEmpty, Zenon
    <2> QED  BY <2>1 DEF MemoryAccounted
<1> QED  BY <1>1, <1>2, <1>3, <1>4, <1>5, <1>6, <1>7, <1>8 DEF RuntimeInv, RuntimeTypeOK

(* A step that changes nothing here.                                       *)
LEMMA RuntimeStutters ==
    ASSUME RuntimeInv, UNCHANGED runtimeVars
    PROVE  RuntimeInv'
<1> USE DEF runtimeVars, wireVars, mainVars, commandVars, residentVars, artifactVars
<1>t. WireTypeOK /\ ServiceTypeOK /\ Serving  BY DEF RuntimeInv, RuntimeTypeOK
<1>1. WireTypeOK'  BY <1>t DEF WireTypeOK
<1>2. Quiet  BY DEF Quiet
<1>3. Serving'  BY <1>t DEF Serving
<1>4. \A q \in Commands : \A x \in Responses : Given(q, x)' => Given(q, x)  BY DEF Given
<1>5. signal' \in BOOLEAN  BY <1>t DEF ServiceTypeOK
<1> QED  BY <1>1, <1>2, <1>3, <1>4, <1>5, QuietKeeps

(* Every step of the worker and its clients keeps the invariant.           *)
LEMMA RuntimeNextKeeps ==
    ASSUME RuntimeInv, [RuntimeNext]_runtimeVars
    PROVE  RuntimeInv'
<1>1. CASE MainStep \/ MainAborts
    BY <1>1, MainSeesClosedKeeps, MainJoinsKeeps, MainInterruptsKeeps, MainReleasesKeeps,
       MainAbortsKeeps DEF MainStep
<1>2. ASSUME NEW c \in Connections,
             \/ Accepts(c) \/ (\E r \in Commands : ClientSends(c, r)) \/ Disconnects(c)
             \/ ReceiveFails(c)
      PROVE  RuntimeInv'
    BY <1>2, AcceptsKeeps, ClientSendsKeeps, DisconnectsKeeps, ReceiveFailsKeeps
<1>3. ASSUME NEW c \in Connections, HandlesCommand(c) PROVE RuntimeInv'
    BY <1>3, HandlesCancelKeeps, ReplaysKeeps, RefusesKeeps, ExecutesKeeps, ClaimsKeeps,
       ClaimFailsKeeps, ConsumesKeeps, ReservesKeeps, ReservationRefusedKeeps, ConvertsKeeps,
       ConversionFailsKeeps, RetainsKeeps, DiscardsKeeps, QuarantinesKeeps, UnloadsKeeps,
       ReportsStatusKeeps, RetriesQuarantineKeeps, ShutsDownKeeps DEF HandlesCommand
<1>4. ASSUME NEW c \in Connections, ServesConnection(c) PROVE RuntimeInv'
    BY <1>3, <1>4, RegistersKeeps, ChecksClosedKeeps, SeesClosedKeeps, ReceivesKeeps,
       ReceivesEndKeeps, MarksBusyKeeps, DeliversKeeps, DeliversLastKeeps, DeliveryFailsKeeps,
       InterruptsOthersKeeps DEF ServesConnection
<1> QED  BY <1>1, <1>2, <1>4, RuntimeStutters DEF RuntimeNext

(* The resident runtime keeps its invariant for any number of connections, *)
(* commands and artifacts and for every size of its limits.                *)
THEOREM RuntimeSafety == RuntimeSpec => []RuntimeInv
BY RuntimeStarts, RuntimeNextKeeps, PTL DEF RuntimeSpec

(* A sequence number and an artifact each make at most one resident        *)
(* tensor, whatever clients replay, race for or lose, and an artifact that *)
(* was loaded or deleted is not in the inbox any more.                     *)
THEOREM RuntimeLoadsOnce == RuntimeSpec => []LoadsOnce
<1>1. RuntimeInv => LoadsOnce  BY DEF RuntimeInv
<1> QED  BY <1>1, RuntimeSafety, PTL

(* All answers to a command are the same and its own, and a load was       *)
(* answered as passed exactly if it made a tensor, although the cache      *)
(* forgets and connections break.                                          *)
THEOREM RuntimeAnswersAgree == RuntimeSpec => []AnswersAgree
<1>1. RuntimeInv => AnswersAgree
    <2> SUFFICES ASSUME RuntimeInv PROVE AnswersAgree  OBVIOUS
    <2>1. \A r \in Commands : \A x \in answers[r] : x \in Responses /\ Given(r, x)
        BY DEF RuntimeInv, RuntimeTypeOK, WireTypeOK, Given
    <2>2. \A r \in Commands : \A x, y \in answers[r] : x = y /\ x.command = r
        BY <2>1 DEF RuntimeInv, Agreeing
    <2>3. \A r \in Loads : \A x \in answers[r] : x.passed <=> \E a \in kept : a[1] = r
        BY <2>1 DEF RuntimeInv, Agreeing, Made, Loads
    <2> QED  BY <2>2, <2>3 DEF AnswersAgree
<1> QED  BY <1>1, RuntimeSafety, PTL

(* The admission counts exactly what the tables and the load in progress   *)
(* hold, within its capacity, and every resource is in one table.          *)
THEOREM RuntimeMemoryAccounted == RuntimeSpec => []MemoryAccounted
<1>1. RuntimeInv => MemoryAccounted  BY DEF RuntimeInv
<1> QED  BY <1>1, RuntimeSafety, PTL

(* A session that is over holds nothing, for ever.                         *)
THEOREM RuntimeOverHoldsNothing == RuntimeSpec => []SessionOverHoldsNothing
<1>1. RuntimeInv => SessionOverHoldsNothing
    <2> SUFFICES ASSUME RuntimeInv, sessionOver PROVE alive = {} /\ pool = 0 /\ holder = NoCommand
        BY DEF SessionOverHoldsNothing
    <2>1. alive = {} /\ holder = NoCommand  BY DEF RuntimeInv, OverIsEmpty
    <2>2. records = {} /\ quarantine = {} /\ ~storeHeld
        BY <2>1 DEF RuntimeInv, MemoryAccounted, Exclusive
    <2>3. TotalBytes(records, Keeps) = 0 /\ TotalBytes(quarantine, Needs) = 0
        BY <2>2, BytesEmpty, Zenon
    <2> QED  BY <2>1, <2>2, <2>3 DEF RuntimeInv, MemoryAccounted
<1> QED  BY <1>1, RuntimeSafety, PTL

-----------------------------------------------------------------------------
(* The semantic cache.  Its inductive invariant names the handles in the   *)
(* cache and in the hands of each thread, and says that these sets and the *)
(* list of failed releases share nothing and together are the backend's.   *)
CachedHandles == {a[1] : a \in anchors}
InHand ==
    [t \in Threads |-> {p[2] : p \in freeing[t]}
                          \cup (IF doing[t] \in {"check", "insert"} THEN {anchor[t][1]} ELSE {})]

Apart ==
    /\ \A t \in Threads : InHand[t] \cap CachedHandles = {}
    /\ \A t, u \in Threads : t # u => InHand[t] \cap InHand[u] = {}
    /\ CachedHandles \cap (owed \cup dropped) = {}
    /\ \A t \in Threads : InHand[t] \cap (owed \cup dropped) = {}
AllHeld ==
    /\ CachedHandles \subseteq backend
    /\ \A t \in Threads : InHand[t] \subseteq backend
    /\ \A h \in backend :
          h \in CachedHandles \cup owed \cup dropped \/ \E t \in Threads : h \in InHand[t]
Retries ==
    /\ \A h \in owed \ backend : \E t \in Threads : doing[t] = "retried" /\ anchor[t][1] = h
    /\ \A t \in Threads : doing[t] = "retried" => anchor[t][1] \notin backend

(* One entry and one release per handle; only a thread at its releases has *)
(* any, and a thread with a captured handle has its anchor.                *)
OneEach ==
    /\ \A a, b \in anchors : a[1] = b[1] => a = b
    /\ \A t \in Threads : \A p, q \in freeing[t] : p[2] = q[2] => p = q
AtHand ==
    \A t \in Threads :
        /\ doing[t] # "free" => freeing[t] = {}
        /\ doing[t] \in {"check", "insert"} => anchor[t] \in Handles \X Keys

(* A thread retries each handle of the list it has read once; what it      *)
(* still has to retry is listed, was dropped meanwhile, or is gone because *)
(* another thread retried it, and then nobody has it.                      *)
Retrying == {"retry", "retried"}
Retriers ==
    /\ \A t \in Threads : doing[t] \notin Retrying => retrying[t] = {}
    /\ \A t \in Threads : \A p \in retrying[t] : p[2] \in backend => p[2] \in owed \cup dropped
    /\ \A t \in Threads : \A p, q \in retrying[t] : p[2] = q[2] => p = q
    /\ \A t \in Threads : doing[t] = "retried" => \A p \in retrying[t] : p[2] # anchor[t][1]

SemanticInv ==
    /\ SemanticTypeOK /\ WithinBudget
    /\ Apart /\ AllHeld /\ Retries /\ OneEach /\ AtHand /\ Retriers

-----------------------------------------------------------------------------
(* The order of what is left of a dictionary numbers its entries.          *)
LEMMA ReorderedType ==
    ASSUME NEW order, NEW rest, NEW last, IsFiniteSet(rest)
    PROVE  Reordered(order, rest, last) \in [DOMAIN order -> Nat]
<1>1. IsFiniteSet(rest \ {last})  BY FS_Difference
<1>2. Cardinality(rest \ {last}) \in Nat  BY <1>1, FS_CardinalityType
<1>3. ASSUME NEW x \in DOMAIN order
      PROVE  Cardinality({y \in rest \ {last} : order[y] <= order[x]}) \in Nat
    <2>1. {y \in rest \ {last} : order[y] <= order[x]} \subseteq rest \ {last}  OBVIOUS
    <2>2. IsFiniteSet({y \in rest \ {last} : order[y] <= order[x]})
        BY <1>1, <2>1, FS_Subset
    <2> QED  BY <2>2, FS_CardinalityType
<1> QED  BY <1>2, <1>3 DEF Reordered

LEMMA KeysFinite ==
    ASSUME NEW s, IsFiniteSet(s)
    PROVE  IsFiniteSet(KeysOf(s))
<1> DEFINE f == [a \in s |-> a[2]]
<1>1. f \in Surjection(s, KeysOf(s))  BY DEF Surjection, KeysOf
<1> HIDE DEF f
<1> QED  BY <1>1, FS_Surjection

(* Each of the next steps moves handles between the cache and the hands of *)
(* the thread that takes it, and leaves the others alone.                  *)
LEMMA TransferKeeps ==
    ASSUME Apart, AllHeld, Retries, NEW t \in Threads,
           UNCHANGED <<owed, dropped, backend>>,
           CachedHandles' \cup InHand'[t] = CachedHandles \cup InHand[t],
           CachedHandles' \cap InHand'[t] = {},
           \A u \in Threads \ {t} : InHand'[u] = InHand[u],
           \A u \in Threads \ {t} : doing'[u] = doing[u] /\ anchor'[u] = anchor[u],
           doing[t] # "retried", doing'[t] # "retried"
    PROVE  Apart' /\ AllHeld' /\ Retries'
<1> USE DEF Apart, AllHeld, Retries
<1>1. CachedHandles' \subseteq CachedHandles \cup InHand[t]
      /\ InHand'[t] \subseteq CachedHandles \cup InHand[t]
    OBVIOUS
<1>2. Apart'
    <2> HIDE DEF AllHeld, Retries
    <2>1. ASSUME NEW u \in Threads PROVE (InHand[u] \cap CachedHandles = {})'
        BY <1>1
    <2>2. ASSUME NEW u \in Threads, NEW v \in Threads, u # v
          PROVE  (InHand[u] \cap InHand[v] = {})'
        BY <1>1, <2>2
    <2>3. (CachedHandles \cap (owed \cup dropped) = {})'
        BY <1>1
    <2>4. ASSUME NEW u \in Threads PROVE (InHand[u] \cap (owed \cup dropped) = {})'
        BY <1>1
    <2> QED  BY <2>1, <2>2, <2>3, <2>4
<1>3. AllHeld'
    <2> HIDE DEF Apart, Retries
    <2>1. CachedHandles' \subseteq backend' /\ \A u \in Threads : InHand'[u] \subseteq backend'
        BY <1>1
    <2>2. ASSUME NEW h \in backend'
          PROVE  \/ h \in CachedHandles' \cup owed' \cup dropped'
                 \/ \E u \in Threads : h \in InHand'[u]
        <3>1. CASE h \in CachedHandles \cup InHand[t]
            BY <3>1
        <3>2. CASE h \in owed \cup dropped
            BY <3>2
        <3>3. ASSUME NEW u \in Threads, h \in InHand[u]
              PROVE  h \in CachedHandles' \/ \E v \in Threads : h \in InHand'[v]
            BY <3>3
        <3> QED  BY <3>1, <3>2, <3>3
    <2> QED  BY <2>1, <2>2
<1>4. Retries'
    <2> HIDE DEF Apart, AllHeld
    <2> QED  BY DEF Retries
<1> QED  BY <1>2, <1>3, <1>4

LEMMA RetriersRest ==
    ASSUME Retriers, NEW t \in Threads, UNCHANGED retrying,
           owed \cup dropped \subseteq owed' \cup dropped',
           \A u \in Threads : \A p \in retrying[u] : p[2] \in backend' => p[2] \in backend,
           \A u \in Threads \ {t} : doing'[u] = doing[u] /\ anchor'[u] = anchor[u],
           doing[t] \notin Retrying, doing'[t] \notin Retrying
    PROVE  Retriers'
<1>1. \A u \in Threads : doing'[u] \in Retrying <=> doing[u] \in Retrying
    OBVIOUS
<1>2. \A u \in Threads : doing'[u] = "retried" => u # t
    BY DEF Retrying
<1>3. \A u \in Threads : retrying'[u] = retrying[u]
    OBVIOUS
<1>4. \A u \in Threads : \A p \in retrying'[u] :
          p[2] \in backend' => p[2] \in owed' \cup dropped'
    BY <1>3 DEF Retriers
<1>5. \A u \in Threads : doing'[u] = "retried" => \A p \in retrying'[u] : p[2] # anchor'[u][1]
    BY <1>2, <1>3 DEF Retriers
<1> HIDE DEF Retrying
<1> QED  BY <1>1, <1>3, <1>4, <1>5 DEF Retriers

(* What _evict_to_budget leaves fits, and what it takes out is about to be *)
(* released once.                                                          *)
Accounted(s, order, bytes) ==
    /\ s \subseteq Handles \X Keys
    /\ IsFiniteSet(s)
    /\ order \in [Keys -> Nat]
    /\ bytes = TotalBytes(s, Size)
Shrunk(t, s, order, cap, replaced) ==
    /\ anchors' \subseteq s
    /\ IsFiniteSet(anchors')
    /\ resident' \in Nat
    /\ resident' = TotalBytes(anchors', Size)
    /\ resident' <= cap.bytes
    /\ Cardinality(anchors') <= cap.entries
    /\ place' \in [Keys -> Nat]
    /\ freeing' = [freeing EXCEPT ![t] = Releases(replaced, order, s \ anchors')]
LEMMA ShrinkFits ==
    ASSUME NEW t, NEW s, NEW order, NEW bytes, Accounted(s, order, bytes),
           NEW cap, NEW replaced, Shrink(t, s, order, bytes, cap, replaced)
    PROVE  Shrunk(t, s, order, cap, replaced)
<1> USE DEF Accounted
<1>1. PICK out \in SUBSET s :
          /\ FitsWithout(out, s, bytes, cap)
          /\ anchors' = s \ out
          /\ place' = Reordered(order, KeysOf(s \ out), Nothing)
          /\ resident' = bytes - TotalBytes(out, Size)
          /\ freeing' = [freeing EXCEPT ![t] = Releases(replaced, order, out)]
    BY DEF Shrink, Evicts
<1>2. \A a \in s : Size[a[1]] \in Nat
    BY SemanticAssumption
<1>3. /\ IsFiniteSet(s \ out)
      /\ TotalBytes(s \ out, Size) = TotalBytes(s, Size) - TotalBytes(out \cap s, Size)
      /\ TotalBytes(s \ out, Size) \in Nat /\ TotalBytes(out \cap s, Size) \in Nat
    BY <1>2, BytesRemove
<1>4. out \cap s = out /\ s \ anchors' = out
    BY <1>1
<1>5. resident' \in Nat /\ resident' = TotalBytes(anchors', Size)
    BY <1>1, <1>3, <1>4
<1>6. resident' <= cap.bytes /\ Cardinality(anchors') <= cap.entries
    BY <1>1 DEF FitsWithout
<1>7. place' \in [Keys -> Nat]
    <2>1. IsFiniteSet(KeysOf(s \ out))
        BY <1>3, KeysFinite
    <2> QED  BY <1>1, <2>1, ReorderedType
<1> QED  BY <1>1, <1>3, <1>4, <1>5, <1>6, <1>7 DEF Shrunk

(* Anchors with a handle each that leave for release are released once.    *)
Releasable(replaced, order, out) ==
    /\ replaced \cap out = {}
    /\ \A a, b \in replaced \cup out : a[1] = b[1] => a = b
    /\ \A a \in replaced \cup out : a[1] \in Handles /\ order[a[2]] \in Nat
LEMMA ReleasedOnce ==
    ASSUME NEW replaced, NEW order, NEW out, Releasable(replaced, order, out)
    PROVE  /\ Releases(replaced, order, out) \subseteq Nat \X Handles
           /\ \A p, q \in Releases(replaced, order, out) : p[2] = q[2] => p = q
           /\ {p[2] : p \in Releases(replaced, order, out)} = {a[1] : a \in replaced \cup out}
<1> DEFINE R == Releases(replaced, order, out)
<1> USE DEF Releases, Releasable
<1>1. R \subseteq Nat \X Handles
    OBVIOUS
<1>2. \A p, q \in R : p[2] = q[2] => p = q
    OBVIOUS
<1>3. {p[2] : p \in R} = {a[1] : a \in replaced \cup out}
    <2>1. \A p \in R : \E a \in replaced \cup out : p[2] = a[1]
        OBVIOUS
    <2>2. \A a \in replaced \cup out : \E p \in R : p[2] = a[1]
        <3>1. \A a \in replaced : <<0, a[1]>> \in R
            OBVIOUS
        <3>2. \A a \in out : <<order[a[2]], a[1]>> \in R
            OBVIOUS
        <3> HIDE DEF R
        <3> QED  BY <3>1, <3>2
    <2> HIDE DEF R
    <2> QED  BY <2>1, <2>2
<1> QED  BY <1>1, <1>2, <1>3

(* A step that puts what its thread has into the cache, and takes entries  *)
(* out of it for release: put(), discard(), clear() and resize().          *)
TakesOut(t, added, replaced, order, out) ==
    /\ order \in [Keys -> Nat]
    /\ InHand[t] = {a[1] : a \in added}
    /\ added \subseteq Handles \X Keys
    /\ \A a, b \in anchors \cup added : a[1] = b[1] => a = b
    /\ replaced \cap out = {}
    /\ replaced \cup out \subseteq anchors \cup added
    /\ anchors' = (anchors \cup added) \ (replaced \cup out)
    /\ doing[t] \notin Retrying
    /\ doing' = [doing EXCEPT ![t] = "free"]
    /\ freeing' = [freeing EXCEPT ![t] = Releases(replaced, order, out)]
    /\ UNCHANGED <<owed, turn, dropped, backend, anchor, retrying>>
WellBounded ==
    /\ IsFiniteSet(anchors)
    /\ resident \in Nat
    /\ resident = TotalBytes(anchors, Size)
    /\ place \in [Keys -> Nat]
    /\ capacity \in [entries : Nat, bytes : Nat]
    /\ resident <= capacity.bytes
    /\ Cardinality(anchors) <= capacity.entries
LEMMA TakenOutKeeps ==
    ASSUME SemanticInv, NEW t \in Threads, NEW added, NEW replaced, NEW order, NEW out,
           TakesOut(t, added, replaced, order, out), WellBounded'
    PROVE  SemanticInv'
<1> USE DEF SemanticInv, TakesOut, WellBounded
<1>1. anchors \subseteq Handles \X Keys /\ freeing \in [Threads -> SUBSET (Nat \X Handles)]
      /\ DOMAIN doing = Threads
    BY DEF SemanticTypeOK
<1> DEFINE R == Releases(replaced, order, out)
<1>2. /\ freeing' \in [Threads -> SUBSET (Nat \X Handles)]
      /\ \A u \in Threads : \A p, q \in freeing'[u] : p[2] = q[2] => p = q
      /\ {p[2] : p \in freeing'[t]} = {a[1] : a \in replaced \cup out}
      /\ \A u \in Threads \ {t} : freeing'[u] = freeing[u]
    <2>1. Releasable(replaced, order, out)
        BY <1>1 DEF Releasable
    <2>2. /\ R \subseteq Nat \X Handles
          /\ \A p, q \in R : p[2] = q[2] => p = q
          /\ {p[2] : p \in R} = {a[1] : a \in replaced \cup out}
        <3> HIDE DEF SemanticInv, TakesOut, WellBounded
        <3> QED  BY <2>1, ReleasedOnce
    <2> HIDE DEF R
    <2>3. freeing'[t] = R /\ \A u \in Threads \ {t} : freeing'[u] = freeing[u]
        BY <1>1 DEF R
    <2>4. freeing' \in [Threads -> SUBSET (Nat \X Handles)]
        <3>1. freeing' = [freeing EXCEPT ![t] = R]
            BY DEF R
        <3> QED  BY <1>1, <2>2, <3>1
    <2>5. \A u \in Threads : \A p, q \in freeing'[u] : p[2] = q[2] => p = q
        BY <2>2, <2>3 DEF OneEach
    <2> QED  BY <2>2, <2>3, <2>4, <2>5
<1>3. anchors' \subseteq Handles \X Keys
    BY <1>1
<1>4. SemanticTypeOK'
    BY <1>2, <1>3 DEF SemanticTypeOK
<1>5. WithinBudget'
    BY DEF WithinBudget
<1>6. OneEach' /\ AtHand'
    BY <1>1, <1>2 DEF OneEach, AtHand
<1>7. /\ InHand'[t] = {a[1] : a \in replaced \cup out}
      /\ \A u \in Threads \ {t} : InHand'[u] = InHand[u]
    BY <1>1, <1>2 DEF InHand
<1>8. CachedHandles' \cup InHand'[t] = CachedHandles \cup InHand[t]
    <2>1. CachedHandles' \cup InHand'[t] = {a[1] : a \in anchors' \cup replaced \cup out}
        BY <1>7 DEF CachedHandles
    <2>2. CachedHandles \cup InHand[t] = {a[1] : a \in anchors \cup added}
        BY DEF CachedHandles
    <2>3. anchors' \cup replaced \cup out = anchors \cup added
        OBVIOUS
    <2> QED  BY <2>1, <2>2, <2>3
<1>9. CachedHandles' \cap InHand'[t] = {}
    BY <1>7 DEF CachedHandles
<1>10. /\ doing'[t] = "free"
       /\ \A u \in Threads \ {t} : doing'[u] = doing[u] /\ anchor'[u] = anchor[u]
    BY <1>1
<1>11. doing[t] # "retried" /\ doing'[t] # "retried" /\ doing'[t] \notin Retrying
    BY <1>10 DEF Retrying
<1>12. Apart' /\ AllHeld' /\ Retries'
    BY <1>7, <1>8, <1>9, <1>10, <1>11, TransferKeeps
<1>13. Retriers'
    <2> HIDE DEF Retrying
    <2> QED  BY <1>10, <1>11, RetriersRest
<1> QED  BY <1>4, <1>5, <1>6, <1>12, <1>13

-----------------------------------------------------------------------------
(* A capture has a handle nobody has.                                      *)
LEMMA CaptureKeeps ==
    ASSUME SemanticInv, NEW t \in Threads, NEW k \in Keys, Capture(t, k)
    PROVE  SemanticInv'
<1> USE SemanticAssumption DEF SemanticInv, SemanticTypeOK
<1>1. PICK h \in Handles :
          /\ New(h)
          /\ backend' = backend \cup {h}
          /\ anchor' = [anchor EXCEPT ![t] = <<h, k>>]
    BY DEF Capture
<1>2. /\ doing[t] = "idle" /\ doing' = [doing EXCEPT ![t] = "check"]
      /\ UNCHANGED <<anchors, place, resident, capacity, owed, turn, dropped, freeing, retrying>>
    BY DEF Capture, Move, cacheVars
<1>3. SemanticTypeOK' /\ WithinBudget' /\ OneEach' /\ AtHand'
    BY <1>1, <1>2 DEF WithinBudget, OneEach, AtHand
<1>4. /\ CachedHandles' = CachedHandles
      /\ InHand'[t] = {h} /\ InHand[t] = {}
      /\ \A u \in Threads \ {t} : InHand'[u] = InHand[u]
    BY <1>1, <1>2 DEF CachedHandles, InHand, AtHand
<1>5. h \notin backend /\ h \notin dropped /\ \A u \in Threads : anchor[u][1] # h
    BY <1>1 DEF New
<1>6. h \notin owed
    BY <1>5 DEF Retries
<1>7. h \notin CachedHandles /\ \A u \in Threads : h \notin InHand[u]
    BY <1>5 DEF AllHeld
<1>8. Apart'
    <2> HIDE DEF SemanticTypeOK
    <2> QED  BY <1>2, <1>4, <1>5, <1>6, <1>7 DEF Apart
<1>9. AllHeld'
    BY <1>1, <1>2, <1>4 DEF AllHeld
<1>10. Retries'
    BY <1>1, <1>2, <1>5 DEF Retries
<1>11. Retriers'
    <2>1. /\ doing[t] \notin Retrying /\ doing'[t] \notin Retrying
          /\ \A u \in Threads \ {t} : doing'[u] = doing[u] /\ anchor'[u] = anchor[u]
        BY <1>1, <1>2 DEF Retrying
    <2>2. \A u \in Threads : \A p \in retrying[u] : p[2] \in backend' => p[2] \in backend
        BY <1>1 DEF New
    <2> HIDE DEF SemanticTypeOK
    <2> QED  BY <1>2, <2>1, <2>2, RetriersRest
<1> QED  BY <1>3, <1>8, <1>9, <1>10, <1>11

(* A captured handle that is too large for the cache is released.          *)
LEMMA CheckKeeps ==
    ASSUME SemanticInv, NEW t \in Threads, Check(t)
    PROVE  SemanticInv'
<1> USE SemanticAssumption DEF SemanticInv, SemanticTypeOK
<1>1. /\ doing[t] = "check" /\ freeing[t] = {} /\ anchor[t] \in Handles \X Keys
      /\ UNCHANGED <<anchors, place, resident, capacity, owed, turn, dropped, backend, anchor, retrying>>
    BY DEF Check, AtHand, cacheVars, releaseVars
<1>2. CASE /\ freeing' = [freeing EXCEPT ![t] = {<<0, anchor[t][1]>>}]
           /\ doing' = [doing EXCEPT ![t] = "free"]
    <2>1. SemanticTypeOK' /\ WithinBudget'
        BY <1>1, <1>2 DEF WithinBudget
    <2>2. OneEach' /\ AtHand'
        BY <1>1, <1>2 DEF OneEach, AtHand
    <2>3. /\ CachedHandles' = CachedHandles /\ InHand'[t] = {anchor[t][1]}
          /\ InHand[t] = {anchor[t][1]}
          /\ \A u \in Threads \ {t} : InHand'[u] = InHand[u]
        <3>1. {p[2] : p \in {<<0, anchor[t][1]>>}} = {anchor[t][1]}
            OBVIOUS
        <3>2. freeing'[t] = {<<0, anchor[t][1]>>} /\ doing'[t] = "free"
            BY <1>1, <1>2
        <3>3. InHand'[t] = {p[2] : p \in freeing'[t]}
            BY <1>1, <3>2 DEF InHand
        <3>4. InHand[t] = {anchor[t][1]}
            BY <1>1 DEF InHand
        <3>5. CachedHandles' = CachedHandles /\ \A u \in Threads \ {t} : InHand'[u] = InHand[u]
            BY <1>1, <1>2 DEF CachedHandles, InHand
        <3> QED  BY <3>1, <3>2, <3>3, <3>4, <3>5
    <2>4. CachedHandles' \cap InHand'[t] = {}
        BY <2>3 DEF Apart
    <2>5. Apart' /\ AllHeld' /\ Retries'
        BY <1>1, <1>2, <2>3, <2>4, TransferKeeps
    <2>6. Retriers'
        <3>1. /\ doing[t] \notin Retrying /\ doing'[t] \notin Retrying
              /\ \A u \in Threads \ {t} : doing'[u] = doing[u] /\ anchor'[u] = anchor[u]
            BY <1>1, <1>2 DEF Retrying
        <3> HIDE DEF SemanticTypeOK
        <3> QED  BY <1>1, <3>1, RetriersRest
    <2> QED  BY <2>1, <2>2, <2>5, <2>6
<1>3. CASE freeing' = freeing /\ doing' = [doing EXCEPT ![t] = "insert"]
    <2>1. SemanticTypeOK' /\ WithinBudget' /\ OneEach' /\ AtHand'
        BY <1>1, <1>3 DEF WithinBudget, OneEach, AtHand
    <2>2. CachedHandles' = CachedHandles /\ \A u \in Threads : InHand'[u] = InHand[u]
        BY <1>1, <1>3 DEF CachedHandles, InHand
    <2>3. CachedHandles' \cap InHand'[t] = {}
        BY <2>2 DEF Apart
    <2>4. Apart' /\ AllHeld' /\ Retries'
        BY <1>1, <1>3, <2>2, <2>3, TransferKeeps
    <2>5. Retriers'
        <3>1. /\ doing[t] \notin Retrying /\ doing'[t] \notin Retrying
              /\ \A u \in Threads \ {t} : doing'[u] = doing[u] /\ anchor'[u] = anchor[u]
            BY <1>1, <1>3 DEF Retrying
        <3> HIDE DEF SemanticTypeOK
        <3> QED  BY <1>1, <3>1, RetriersRest
    <2> QED  BY <2>1, <2>4, <2>5
<1> QED  BY <1>2, <1>3 DEF Check, Move

(* put() replaces the anchor of its key and evicts from the old end.       *)
LEMMA InsertKeeps ==
    ASSUME SemanticInv, NEW t \in Threads, Insert(t)
    PROVE  SemanticInv'
<1> USE SemanticAssumption DEF SemanticInv, SemanticTypeOK
<1> DEFINE c == anchor[t]
           previous == Under(c[2])
           s == (anchors \ previous) \cup {c}
           order == Reordered(place, KeysOf(anchors), c[2])
           bytes == resident - TotalBytes(previous, Size) + Size[c[1]]
           replaced == {a \in previous : a[1] # c[1]}
           out == s \ anchors'
<1>1. /\ doing[t] = "insert" /\ freeing[t] = {} /\ c \in Handles \X Keys
      /\ doing' = [doing EXCEPT ![t] = "free"]
      /\ UNCHANGED <<capacity, owed, turn, dropped, backend, anchor, retrying>>
      /\ Shrink(t, s, order, bytes, capacity, replaced)
    BY DEF Insert, AtHand, Move, releaseVars
<1>2. c[1] \notin CachedHandles
    BY <1>1 DEF Apart, InHand
<1>3. /\ \A a \in anchors : a[1] # c[1]
      /\ \A a, b \in anchors \cup {c} : a[1] = b[1] => a = b
      /\ c \notin anchors
    BY <1>2 DEF CachedHandles, OneEach
<1>4. previous \subseteq anchors /\ replaced = previous /\ c \notin previous
    BY <1>3 DEF Under
<1>5. s \subseteq Handles \X Keys /\ IsFiniteSet(s) /\ bytes = TotalBytes(s, Size)
    <2>1. \A a \in anchors : Size[a[1]] \in Nat
        OBVIOUS
    <2>2. /\ IsFiniteSet(anchors \ previous)
          /\ TotalBytes(anchors \ previous, Size)
                = TotalBytes(anchors, Size) - TotalBytes(previous \cap anchors, Size)
          /\ TotalBytes(anchors \ previous, Size) \in Nat
          /\ TotalBytes(previous \cap anchors, Size) \in Nat
        BY <2>1, BytesRemove
    <2>3. previous \cap anchors = previous
        BY <1>4
    <2>4. Size[c[1]] \in Nat /\ c \notin anchors \ previous
        BY <1>1, <1>3
    <2>5. /\ IsFiniteSet(s)
          /\ TotalBytes(s, Size) = TotalBytes(anchors \ previous, Size) + Size[c[1]]
        BY <2>1, <2>2, <2>4, BytesAdd
    <2>6. resident = TotalBytes(anchors, Size)
        BY DEF WithinBudget
    <2>7. s \subseteq Handles \X Keys
        BY <1>1
    <2> QED  BY <2>2, <2>3, <2>4, <2>5, <2>6, <2>7
<1>6. order \in [Keys -> Nat]
    <2>1. IsFiniteSet(KeysOf(anchors))
        BY KeysFinite
    <2> QED  BY <2>1, ReorderedType
<1> HIDE DEF order, bytes, s, previous, replaced, c
<1>7. capacity \in [entries : Nat, bytes : Nat]
    OBVIOUS
<1> HIDE DEF SemanticInv, SemanticTypeOK
<1>8. Shrunk(t, s, order, capacity, replaced)
    <2>1. Accounted(s, order, bytes)
        BY <1>5, <1>6 DEF Accounted
    <2> QED  BY <1>1, <2>1, ShrinkFits
<1>9. /\ replaced \cup out \subseteq anchors \cup {c} /\ replaced \cap out = {}
      /\ anchors' = (anchors \cup {c}) \ (replaced \cup out)
    BY <1>3, <1>4, <1>8 DEF s, Shrunk
<1>10. freeing' = [freeing EXCEPT ![t] = Releases(replaced, order, out)]
    BY <1>8 DEF Shrunk
<1> HIDE DEF out
<1>11. {c} \subseteq Handles \X Keys /\ InHand[t] = {a[1] : a \in {c}}
    <2>1. InHand[t] = {c[1]}
        BY <1>1 DEF InHand, c
    <2>2. {a[1] : a \in {c}} = {c[1]}
        OBVIOUS
    <2> QED  BY <1>1, <2>1, <2>2
<1>12. TakesOut(t, {c}, replaced, order, out)
    BY <1>1, <1>3, <1>6, <1>9, <1>10, <1>11 DEF TakesOut, Retrying
<1>13. WellBounded'
    BY <1>1, <1>7, <1>8 DEF WellBounded, Shrunk
<1> QED  BY <1>12, <1>13, TakenOutKeeps

(* A lookup moves an entry to the young end and reads it.                  *)
LEMMA LookupKeeps ==
    ASSUME SemanticInv, NEW t \in Threads, NEW k \in Keys, Lookup(t, k)
    PROVE  SemanticInv'
<1> USE SemanticAssumption DEF SemanticInv, SemanticTypeOK
<1>1. PICK a \in anchors : anchor' = [anchor EXCEPT ![t] = a]
    BY DEF Lookup, Under
<1>2. /\ doing[t] = "idle" /\ doing' = [doing EXCEPT ![t] = "restore"]
      /\ place' = Reordered(place, KeysOf(anchors), k)
      /\ UNCHANGED <<anchors, resident, capacity, owed, turn, dropped, backend, freeing, retrying>>
    BY DEF Lookup, Move, releaseVars
<1>3. place' \in [Keys -> Nat]
    BY <1>2, KeysFinite, ReorderedType
<1>4. SemanticTypeOK' /\ WithinBudget' /\ OneEach' /\ AtHand'
    BY <1>1, <1>2, <1>3 DEF WithinBudget, OneEach, AtHand
<1>5. CachedHandles' = CachedHandles /\ \A u \in Threads : InHand'[u] = InHand[u]
    BY <1>1, <1>2 DEF CachedHandles, InHand
<1>6. CachedHandles' \cap InHand'[t] = {}
    BY <1>5 DEF Apart
<1>7. Apart' /\ AllHeld' /\ Retries'
    BY <1>1, <1>2, <1>5, <1>6, TransferKeeps
<1>8. Retriers'
    <2>1. /\ doing[t] \notin Retrying /\ doing'[t] \notin Retrying
          /\ \A u \in Threads \ {t} : doing'[u] = doing[u] /\ anchor'[u] = anchor[u]
        BY <1>1, <1>2 DEF Retrying
    <2> HIDE DEF SemanticTypeOK
    <2> QED  BY <1>2, <2>1, RetriersRest
<1> QED  BY <1>4, <1>7, <1>8

(* A restore, or the end of a call, changes nothing else.                  *)
LEMMA RestoreKeeps ==
    ASSUME SemanticInv, NEW t \in Threads, Restore(t) \/ Done(t)
    PROVE  SemanticInv'
<1> USE SemanticAssumption DEF SemanticInv, SemanticTypeOK
<1>1. /\ doing[t] \in {"restore", "free"} /\ freeing[t] = {}
      /\ \E d \in {"idle", "discard"} : doing' = [doing EXCEPT ![t] = d]
      /\ anchor' \in {anchor, [anchor EXCEPT ![t] = NoAnchor]}
      /\ UNCHANGED <<anchors, place, resident, capacity, owed, turn, dropped, backend, freeing, retrying>>
    BY DEF Restore, Done, Move, AtHand, cacheVars, releaseVars
<1>2. SemanticTypeOK'
    BY <1>1 DEF NoAnchor
<1>3. WithinBudget' /\ OneEach' /\ AtHand'
    BY <1>1 DEF WithinBudget, OneEach, AtHand
<1>4. CachedHandles' = CachedHandles /\ \A u \in Threads : InHand'[u] = InHand[u]
    BY <1>1 DEF CachedHandles, InHand
<1>5. CachedHandles' \cap InHand'[t] = {}
    BY <1>4 DEF Apart
<1>6. Apart' /\ AllHeld' /\ Retries'
    BY <1>1, <1>4, <1>5, TransferKeeps
<1>7. Retriers'
    <2>1. /\ doing[t] \notin Retrying /\ doing'[t] \notin Retrying
          /\ \A u \in Threads \ {t} : doing'[u] = doing[u] /\ anchor'[u] = anchor[u]
        BY <1>1 DEF Retrying
    <2> HIDE DEF SemanticTypeOK
    <2> QED  BY <1>1, <2>1, RetriersRest
<1> QED  BY <1>2, <1>3, <1>6, <1>7

(* discard() takes out what is under the key by now.                       *)
LEMMA DiscardKeeps ==
    ASSUME SemanticInv, NEW t \in Threads, Discard(t)
    PROVE  SemanticInv'
<1> USE SemanticAssumption DEF SemanticInv, SemanticTypeOK
<1> DEFINE previous == Under(anchor[t][2])
<1>1. /\ doing[t] = "discard" /\ doing' = [doing EXCEPT ![t] = "free"]
      /\ anchors' = anchors \ previous
      /\ place' = Reordered(place, KeysOf(anchors'), Nothing)
      /\ resident' = resident - TotalBytes(previous, Size)
      /\ freeing' = [freeing EXCEPT ![t] = Releases(previous, place, {})]
      /\ UNCHANGED <<capacity, owed, turn, dropped, backend, anchor, retrying>>
    BY DEF Discard, Move, releaseVars
<1>2. previous \subseteq anchors
    BY DEF Under
<1> HIDE DEF previous
<1>3. InHand[t] = {a[1] : a \in {}}
    BY <1>1 DEF InHand, AtHand
<1>4. /\ IsFiniteSet(anchors')
      /\ TotalBytes(anchors', Size)
            = TotalBytes(anchors, Size) - TotalBytes(previous \cap anchors, Size)
      /\ TotalBytes(anchors', Size) \in Nat /\ TotalBytes(previous \cap anchors, Size) \in Nat
    BY <1>1, BytesRemove
<1>5. previous \cap anchors = previous
    BY <1>2
<1>6. resident' \in Nat /\ resident' = TotalBytes(anchors', Size) /\ resident' <= capacity.bytes
    <2>1. /\ resident = TotalBytes(anchors, Size) /\ resident <= capacity.bytes
          /\ resident \in Nat /\ capacity.bytes \in Nat
        BY DEF WithinBudget
    <2> HIDE DEF SemanticInv, SemanticTypeOK
    <2>2. TotalBytes(previous \cap anchors, Size) = TotalBytes(previous, Size)
        BY <1>5, Zenon
    <2>3. /\ TotalBytes(anchors', Size) = resident - TotalBytes(previous, Size)
          /\ TotalBytes(anchors', Size) \in Nat /\ TotalBytes(previous, Size) \in Nat
        BY <1>4, <2>1, <2>2, Zenon
    <2>4. resident' = TotalBytes(anchors', Size)
        BY <1>1, <2>3, Zenon
    <2>5. resident' \in Nat
        BY <2>3, <2>4, Zenon
    <2>6. resident' <= resident
        BY <1>1, <2>1, <2>3
    <2> QED  BY <2>1, <2>4, <2>5, <2>6
<1>7. Cardinality(anchors') <= capacity.entries
    <2>1. Cardinality(anchors') <= Cardinality(anchors) /\ Cardinality(anchors) \in Nat
          /\ Cardinality(anchors') \in Nat
        BY <1>1, <1>4, FS_Subset, FS_CardinalityType
    <2>2. Cardinality(anchors) <= capacity.entries /\ capacity.entries \in Nat
        BY DEF WithinBudget
    <2> QED  BY <2>1, <2>2
<1>8. place' \in [Keys -> Nat]
    BY <1>1, <1>4, KeysFinite, ReorderedType
<1>9. \A a, b \in anchors \cup {} : a[1] = b[1] => a = b
    BY DEF OneEach
<1>10. previous \cap {} = {} /\ previous \cup {} \subseteq anchors \cup {}
       /\ anchors' = (anchors \cup {}) \ (previous \cup {}) /\ {} \subseteq Handles \X Keys
    BY <1>1, <1>2
<1>11. place \in [Keys -> Nat] /\ capacity' \in [entries : Nat, bytes : Nat] /\ capacity' = capacity
    BY <1>1
<1> HIDE DEF SemanticInv, SemanticTypeOK
<1>12. TakesOut(t, {}, previous, place, {})
    BY <1>1, <1>3, <1>9, <1>10, <1>11 DEF TakesOut, Retrying
<1>13. WellBounded'
    BY <1>4, <1>6, <1>7, <1>8, <1>11 DEF WellBounded
<1> QED  BY <1>12, <1>13, TakenOutKeeps

(* clear() takes everything out.                                           *)
LEMMA ClearKeeps ==
    ASSUME SemanticInv, NEW t \in Threads, Clear(t)
    PROVE  SemanticInv'
<1> USE SemanticAssumption DEF SemanticInv, SemanticTypeOK
<1>1. /\ doing[t] = "idle" /\ doing' = [doing EXCEPT ![t] = "free"]
      /\ anchors' = {} /\ resident' = 0 /\ place' = [k \in Keys |-> 0]
      /\ freeing' = [freeing EXCEPT ![t] = Releases({}, place, anchors)]
      /\ UNCHANGED <<capacity, owed, turn, dropped, backend, anchor, retrying>>
    BY DEF Clear, Move, releaseVars
<1>2. InHand[t] = {a[1] : a \in {}}
    BY <1>1 DEF InHand, AtHand
<1>3. IsFiniteSet(anchors') /\ Cardinality(anchors') = 0 /\ resident' = TotalBytes(anchors', Size)
    BY <1>1, BytesEmpty, FS_EmptySet
<1>4. /\ resident' \in Nat /\ resident' <= capacity'.bytes
      /\ Cardinality(anchors') <= capacity'.entries
      /\ place' \in [Keys -> Nat] /\ capacity' \in [entries : Nat, bytes : Nat]
      /\ place \in [Keys -> Nat]
    BY <1>1, <1>3
<1>5. \A a, b \in anchors \cup {} : a[1] = b[1] => a = b
    BY DEF OneEach
<1>6. {} \cap anchors = {} /\ {} \cup anchors \subseteq anchors \cup {}
      /\ anchors' = (anchors \cup {}) \ ({} \cup anchors) /\ {} \subseteq Handles \X Keys
    BY <1>1
<1> HIDE DEF SemanticInv, SemanticTypeOK
<1>7. TakesOut(t, {}, {}, place, anchors)
    BY <1>1, <1>2, <1>4, <1>5, <1>6 DEF TakesOut, Retrying
<1>8. WellBounded'
    BY <1>3, <1>4 DEF WellBounded
<1> QED  BY <1>7, <1>8, TakenOutKeeps

(* The capacities of a pressure level.                                     *)
LEMMA TargetType ==
    ASSUME NEW l \in Levels
    PROVE  Target(l) \in [entries : Nat, bytes : Nat]
<1>1. NormalEntries \in Nat /\ NormalBytes \in Nat /\ l \in {"normal", "warning", "critical"}
    BY SemanticAssumption
<1>2. \A n \in Nat : AtLeastOne(n) \in Nat
    BY DEF AtLeastOne
<1>3. \A n \in Nat : n \div 1 \in Nat /\ n \div 2 \in Nat /\ n \div 8 \in Nat
    OBVIOUS
<1> QED  BY <1>1, <1>2, <1>3 DEF Target

(* resize() evicts to the new capacities.                                  *)
LEMMA ResizedKeeps ==
    ASSUME SemanticInv, NEW t \in Threads, NEW l \in Levels, Resize(t, l)
    PROVE  SemanticInv'
<1> USE SemanticAssumption DEF SemanticInv, SemanticTypeOK
<1> DEFINE out == anchors \ anchors'
           cap == Target(l)
<1>1. /\ doing[t] = "idle" /\ doing' = [doing EXCEPT ![t] = "free"]
      /\ capacity' = cap /\ UNCHANGED <<owed, turn, dropped, backend, anchor, retrying>>
      /\ Shrink(t, anchors, place, resident, cap, {})
    BY DEF Resize, Move, releaseVars
<1>2. cap \in [entries : Nat, bytes : Nat]
    BY TargetType
<1> HIDE DEF cap
<1>3. /\ anchors \subseteq Handles \X Keys /\ IsFiniteSet(anchors) /\ place \in [Keys -> Nat]
      /\ resident = TotalBytes(anchors, Size)
    BY DEF WithinBudget
<1>4. InHand[t] = {a[1] : a \in {}}
    BY <1>1 DEF InHand, AtHand
<1>5. \A a, b \in anchors \cup {} : a[1] = b[1] => a = b
    BY DEF OneEach
<1> HIDE DEF SemanticInv, SemanticTypeOK
<1>6. Shrunk(t, anchors, place, cap, {})
    <2>1. Accounted(anchors, place, resident)
        BY <1>3 DEF Accounted
    <2> QED  BY <1>1, <2>1, ShrinkFits
<1>7. {} \cap out = {} /\ {} \cup out \subseteq anchors \cup {}
      /\ anchors' = (anchors \cup {}) \ ({} \cup out) /\ {} \subseteq Handles \X Keys
      /\ freeing' = [freeing EXCEPT ![t] = Releases({}, place, out)]
    BY <1>6 DEF Shrunk
<1> HIDE DEF out
<1>8. TakesOut(t, {}, {}, place, out)
    BY <1>1, <1>3, <1>4, <1>5, <1>7 DEF TakesOut, Retrying
<1>9. WellBounded'
    BY <1>1, <1>2, <1>6 DEF WellBounded, Shrunk
<1> QED  BY <1>8, <1>9, TakenOutKeeps

-----------------------------------------------------------------------------
(* A release that raises is listed, and a full list drops its oldest.      *)
LEMMA OweType ==
    ASSUME SemanticTypeOK, NEW h \in Handles, Owe(h)
    PROVE  /\ owed' \subseteq Handles /\ IsFiniteSet(owed')
           /\ turn' \in [Handles -> Nat]
           /\ dropped' \subseteq Handles
           /\ owed' \cup dropped' = owed \cup dropped \cup {h}
<1> DEFINE listed == owed \cup {h}
           order == Reordered(turn, owed, h)
<1>1. /\ owed \subseteq Handles /\ IsFiniteSet(owed)
      /\ turn \in [Handles -> Nat] /\ dropped \subseteq Handles
    BY DEF SemanticTypeOK
<1>2. IsFiniteSet(listed)
    BY <1>1, FS_AddElement
<1>3. order \in [Handles -> Nat]
    BY <1>1, ReorderedType
<1>4. ASSUME NEW oldest \in listed, owed' = listed \ {oldest},
             turn' = Reordered(order, listed \ {oldest}, Nothing), dropped' = dropped \cup {oldest}
      PROVE  /\ owed' \subseteq Handles /\ IsFiniteSet(owed')
             /\ turn' \in [Handles -> Nat]
             /\ dropped' \subseteq Handles
             /\ owed' \cup dropped' = owed \cup dropped \cup {h}
    <2>1. IsFiniteSet(listed \ {oldest})
        BY <1>2, FS_Difference
    <2> HIDE DEF order
    <2>2. turn' \in [Handles -> Nat]
        BY <1>3, <1>4, <2>1, ReorderedType
    <2> QED  BY <1>1, <1>4, <2>1, <2>2
<1>5. CASE owed' = listed /\ turn' = order /\ dropped' = dropped
    BY <1>1, <1>2, <1>3, <1>5
<1> QED  BY <1>4, <1>5 DEF Owe

(* A release is called once, and its handle is gone or listed after it.    *)
LEMMA FreeKeeps ==
    ASSUME SemanticInv, NEW t \in Threads, Free(t)
    PROVE  SemanticInv'
<1> USE DEF SemanticInv, SemanticTypeOK
<1>1. PICK p \in freeing[t] :
          /\ \/ backend' = backend \ {p[2]} /\ UNCHANGED <<owed, turn, dropped>>
             \/ Owe(p[2]) /\ UNCHANGED backend
          /\ freeing' = [freeing EXCEPT ![t] = @ \ {p}]
    BY DEF Free
<1>2. /\ doing[t] = "free" /\ UNCHANGED <<anchors, place, resident, capacity, doing, anchor, retrying>>
    BY DEF Free, cacheVars
<1> DEFINE h == p[2]
<1>3. h \in Handles
    OBVIOUS
<1>4. /\ h \in InHand[t] /\ CachedHandles' = CachedHandles
      /\ InHand'[t] = InHand[t] \ {h}
      /\ \A u \in Threads \ {t} : InHand'[u] = InHand[u]
    <2>1. freeing'[t] = freeing[t] \ {p} /\ \A u \in Threads \ {t} : freeing'[u] = freeing[u]
        BY <1>1
    <2>2. InHand[t] = {q[2] : q \in freeing[t]} /\ InHand'[t] = {q[2] : q \in freeing'[t]}
        BY <1>2 DEF InHand
    <2>3. {q[2] : q \in freeing[t] \ {p}} = {q[2] : q \in freeing[t]} \ {h}
        <3>1. \A q \in freeing[t] \ {p} : q[2] # h
            BY DEF OneEach
        <3> HIDE DEF SemanticInv, SemanticTypeOK
        <3>2. \A q \in freeing[t] : q[2] # h => q \in freeing[t] \ {p}
            OBVIOUS
        <3> HIDE DEF h
        <3> QED  BY <3>1, <3>2
    <2>4. \A u \in Threads \ {t} : InHand'[u] = InHand[u]
        BY <1>2, <2>1 DEF InHand
    <2> QED  BY <1>2, <2>1, <2>2, <2>3, <2>4 DEF CachedHandles
<1>5. freeing' \in [Threads -> SUBSET (Nat \X Handles)]
    BY <1>1
<1>6. WithinBudget' /\ OneEach' /\ AtHand'
    BY <1>1, <1>2 DEF WithinBudget, OneEach, AtHand
<1>7. /\ h \notin CachedHandles /\ h \notin owed \cup dropped /\ h \in backend
      /\ \A u \in Threads \ {t} : h \notin InHand[u]
    <2> HIDE DEF SemanticTypeOK, h
    <2> QED  BY <1>4 DEF Apart, AllHeld
<1>r. /\ doing[t] \notin Retrying /\ doing'[t] \notin Retrying
      /\ \A u \in Threads \ {t} : doing'[u] = doing[u] /\ anchor'[u] = anchor[u]
    BY <1>2 DEF Retrying
<1>8. CASE backend' = backend \ {h} /\ UNCHANGED <<owed, turn, dropped>>
    <2>1. SemanticTypeOK'
        BY <1>2, <1>5, <1>8
    <2> HIDE DEF SemanticTypeOK, h
    <2>2. Apart'
        BY <1>4, <1>8 DEF Apart
    <2>3. AllHeld'
        BY <1>4, <1>7, <1>8 DEF AllHeld
    <2>4. Retries'
        BY <1>2, <1>7, <1>8 DEF Retries
    <2>5. Retriers'
        BY <1>2, <1>8, <1>r, RetriersRest
    <2> QED  BY <1>6, <2>1, <2>2, <2>3, <2>4, <2>5
<1>9. CASE Owe(h) /\ UNCHANGED backend
    <2>1. /\ owed' \subseteq Handles /\ IsFiniteSet(owed')
          /\ turn' \in [Handles -> Nat]
          /\ dropped' \subseteq Handles
          /\ owed' \cup dropped' = owed \cup dropped \cup {h}
        <3> HIDE DEF h
        <3> QED  BY <1>3, <1>9, OweType
    <2>2. SemanticTypeOK'
        BY <1>2, <1>5, <1>9, <2>1
    <2>3. owed' \subseteq owed \cup {h}
        BY <1>9 DEF Owe
    <2> HIDE DEF SemanticTypeOK, h
    <2>4. Apart'
        BY <1>4, <1>7, <2>1 DEF Apart
    <2>5. AllHeld'
        BY <1>4, <1>9, <2>1 DEF AllHeld
    <2>6. Retries'
        BY <1>2, <1>7, <1>9, <2>3 DEF Retries
    <2>7. owed \cup dropped \subseteq owed' \cup dropped'
        BY <2>1
    <2>8. Retriers'
        BY <1>2, <1>9, <1>r, <2>7, RetriersRest
    <2> QED  BY <1>6, <2>2, <2>4, <2>5, <2>6, <2>8
<1> QED  BY <1>1, <1>8, <1>9

(* A thread that begins or ends its retries changes nothing else.          *)
LEMMA RetryStartKeeps ==
    ASSUME SemanticInv, NEW t \in Threads, RetryStart(t) \/ RetryEnd(t)
    PROVE  SemanticInv'
<1> USE SemanticAssumption DEF SemanticInv, SemanticTypeOK
<1>1. /\ doing[t] \in {"idle", "retry"} /\ freeing[t] = {}
      /\ \E d \in {"retry", "idle"} : doing' = [doing EXCEPT ![t] = d]
      /\ UNCHANGED <<anchors, place, resident, capacity, owed, turn, dropped, backend, anchor,
                     freeing>>
    BY DEF RetryStart, RetryEnd, Move, AtHand, cacheVars, releaseVars
<1>2. retrying' \in [Threads -> SUBSET (Nat \X Handles)]
    BY DEF RetryStart, RetryEnd
<1>3. SemanticTypeOK' /\ WithinBudget' /\ OneEach' /\ AtHand'
    <2>1. SemanticTypeOK'
        BY <1>1, <1>2
    <2>2. WithinBudget'
        BY <1>1 DEF WithinBudget
    <2>3. OneEach' /\ AtHand'
        BY <1>1 DEF OneEach, AtHand
    <2> QED  BY <2>1, <2>2, <2>3
<1>4. CachedHandles' = CachedHandles /\ \A u \in Threads : InHand'[u] = InHand[u]
    BY <1>1 DEF CachedHandles, InHand
<1>5. CachedHandles' \cap InHand'[t] = {}
    BY <1>4 DEF Apart
<1>6. Apart' /\ AllHeld' /\ Retries'
    BY <1>1, <1>4, <1>5, TransferKeeps
<1>7. \A u \in Threads \ {t} : doing'[u] = doing[u] /\ anchor'[u] = anchor[u]
    BY <1>1
<1>8. CASE RetryStart(t)
    <2>1. doing[t] = "idle" /\ doing'[t] = "retry"
        BY <1>8 DEF RetryStart, Move
    <2>2. /\ retrying'[t] = {<<turn[h], h>> : h \in owed}
          /\ \A u \in Threads \ {t} : retrying'[u] = retrying[u]
        BY <1>8 DEF RetryStart
    <2>3. /\ \A p \in retrying'[t] : p[2] \in owed'
          /\ \A p, q \in retrying'[t] : p[2] = q[2] => p = q
        BY <1>1, <2>2
    <2>4. doing'[t] \in Retrying /\ doing'[t] # "retried"
        BY <2>1 DEF Retrying
    <2> HIDE DEF SemanticTypeOK, SemanticInv
    <2>5. Retriers
        BY DEF SemanticInv
    <2>6. Retriers'
        BY <1>1, <1>7, <2>2, <2>3, <2>4, <2>5 DEF Retriers
    <2> QED  BY <1>3, <1>6, <2>6 DEF SemanticInv
<1>9. CASE RetryEnd(t)
    <2>1. doing'[t] = "idle" /\ UNCHANGED retrying /\ retrying[t] = {}
        BY <1>9 DEF RetryEnd, Move
    <2>2. \A u \in Threads : doing'[u] \in Retrying => u # t
        BY <2>1 DEF Retrying
    <2>3. doing'[t] # "retried"
        BY <2>1
    <2> HIDE DEF SemanticTypeOK, SemanticInv
    <2>4. Retriers
        BY DEF SemanticInv
    <2>5. Retriers'
        BY <1>1, <1>7, <2>1, <2>2, <2>3, <2>4 DEF Retriers
    <2> QED  BY <1>3, <1>6, <2>5 DEF SemanticInv
<1> QED  BY <1>8, <1>9

(* A handle that is released by a retry was in nobody's hands.             *)
LEMMA RetryKeeps ==
    ASSUME SemanticInv, NEW t \in Threads, Retry(t)
    PROVE  SemanticInv'
<1> USE SemanticAssumption DEF SemanticInv, SemanticTypeOK
<1>1. PICK p \in retrying[t] :
          /\ retrying' = [retrying EXCEPT ![t] = @ \ {p}]
          /\ \/ /\ backend' = backend \ {p[2]}
                /\ anchor' = [anchor EXCEPT ![t] = <<p[2], Nothing>>]
                /\ Move(t, "retried")
             \/ UNCHANGED <<backend, anchor, doing>>
    BY DEF Retry
<1> DEFINE h == p[2]
<1>2. /\ doing[t] = "retry" /\ freeing[t] = {}
      /\ UNCHANGED <<anchors, place, resident, capacity, owed, turn, dropped, freeing>>
    BY DEF Retry, AtHand, cacheVars
<1>3. h \in Handles /\ (h \in backend => h \in owed \cup dropped)
    BY DEF Retriers
<1>4. /\ retrying' \in [Threads -> SUBSET (Nat \X Handles)]
      /\ retrying'[t] = retrying[t] \ {p} /\ \A u \in Threads \ {t} : retrying'[u] = retrying[u]
    BY <1>1
<1>5. \A q \in retrying'[t] : q[2] # h
    BY <1>4 DEF Retriers
<1>7. CASE /\ backend' = backend \ {h}
           /\ anchor' = [anchor EXCEPT ![t] = <<h, Nothing>>]
           /\ doing' = [doing EXCEPT ![t] = "retried"]
    <2>1. SemanticTypeOK' /\ WithinBudget' /\ OneEach' /\ AtHand'
        BY <1>2, <1>3, <1>4, <1>7 DEF WithinBudget, OneEach, AtHand
    <2>2. CachedHandles' = CachedHandles /\ \A u \in Threads : InHand'[u] = InHand[u]
        BY <1>2, <1>7 DEF CachedHandles, InHand
    <2>3. h \notin CachedHandles /\ \A u \in Threads : h \notin InHand[u]
        BY <1>3 DEF Apart, AllHeld
    <2>4. doing'[t] = "retried" /\ anchor'[t][1] = h
          /\ \A u \in Threads \ {t} : doing'[u] = doing[u] /\ anchor'[u] = anchor[u]
        BY <1>7
    <2>6. doing[t] \in Retrying /\ doing'[t] \in Retrying /\ doing[t] # "retried"
        BY <1>2, <2>4 DEF Retrying
    <2> HIDE DEF SemanticTypeOK, h
    <2>7. Apart'
        BY <1>2, <2>2 DEF Apart
    <2>8. AllHeld'
        BY <1>2, <1>7, <2>2, <2>3 DEF AllHeld
    <2>9. Retries'
        BY <1>2, <1>7, <2>4, <2>6 DEF Retries
    <2>10. Retriers'
        BY <1>2, <1>4, <1>5, <1>7, <2>4, <2>6 DEF Retriers
    <2> QED  BY <2>1, <2>7, <2>8, <2>9, <2>10
<1>8. CASE UNCHANGED <<backend, anchor, doing>>
    <2>1. SemanticTypeOK' /\ WithinBudget' /\ OneEach' /\ AtHand'
        BY <1>2, <1>4, <1>8 DEF WithinBudget, OneEach, AtHand
    <2>2. CachedHandles' = CachedHandles /\ \A u \in Threads : InHand'[u] = InHand[u]
        BY <1>2, <1>8 DEF CachedHandles, InHand
    <2>3. Apart' /\ AllHeld' /\ Retries'
        <3> HIDE DEF SemanticTypeOK
        <3> QED  BY <1>2, <1>8, <2>2 DEF Apart, AllHeld, Retries
    <2>4. doing[t] \in Retrying
        BY <1>2 DEF Retrying
    <2>5. Retriers'
        <3> HIDE DEF SemanticTypeOK
        <3> QED  BY <1>2, <1>4, <1>8, <2>4 DEF Retriers
    <2> QED  BY <2>1, <2>3, <2>5
<1> QED  BY <1>1, <1>7, <1>8 DEF Move

(* A handle leaves the list after its retry, if it is still there.         *)
LEMMA RetryDoneKeeps ==
    ASSUME SemanticInv, NEW t \in Threads, RetryDone(t)
    PROVE  SemanticInv'
<1> USE SemanticAssumption DEF SemanticInv, SemanticTypeOK
<1> DEFINE h == anchor[t][1]
<1>1. /\ doing[t] = "retried" /\ doing' = [doing EXCEPT ![t] = "retry"]
      /\ owed' = owed \ {h} /\ turn' = Reordered(turn, owed \ {h}, Nothing)
      /\ anchor' = [anchor EXCEPT ![t] = NoAnchor]
      /\ UNCHANGED <<anchors, place, resident, capacity, dropped, backend, freeing, retrying>>
    BY DEF RetryDone, Move, cacheVars
<1>2. h \notin backend
    BY <1>1 DEF Retries
<1>3. IsFiniteSet(owed') /\ turn' \in [Handles -> Nat]
    <2>1. IsFiniteSet(owed \ {h})
        BY FS_Difference
    <2>2. turn' \in [DOMAIN turn -> Nat]
        <3> HIDE DEF h
        <3> QED  BY <1>1, <2>1, ReorderedType
    <2> QED  BY <1>1, <2>1, <2>2
<1>4. SemanticTypeOK'
    BY <1>1, <1>3 DEF NoAnchor
<1>5. WithinBudget' /\ OneEach' /\ AtHand'
    BY <1>1 DEF WithinBudget, OneEach, AtHand
<1>6. CachedHandles' = CachedHandles /\ \A u \in Threads : InHand'[u] = InHand[u]
    BY <1>1 DEF CachedHandles, InHand
<1>7. \A u \in Threads \ {t} : doing'[u] = doing[u] /\ anchor'[u] = anchor[u]
    BY <1>1
<1>8. doing'[t] # "retried" /\ doing'[t] \in Retrying /\ doing[t] \in Retrying
    BY <1>1 DEF Retrying
<1> HIDE DEF SemanticTypeOK
<1>11. Apart'
    BY <1>1, <1>6 DEF Apart
<1>12. AllHeld'
    BY <1>1, <1>2, <1>6 DEF AllHeld
<1>13. Retries'
    BY <1>1, <1>7, <1>8 DEF Retries
<1>14. \A u \in Threads : \A p \in retrying'[u] :
          p[2] \in backend' => p[2] \in owed' \cup dropped'
    <2> HIDE DEF h
    <2> QED  BY <1>1, <1>2 DEF Retriers
<1>15. Retriers'
    BY <1>1, <1>7, <1>8, <1>14 DEF Retriers
<1> QED  BY <1>4, <1>5, <1>11, <1>12, <1>13, <1>15

-----------------------------------------------------------------------------
LEMMA SemanticStarts ==
    ASSUME SemanticInit
    PROVE  SemanticInv
<1> USE SemanticAssumption DEF SemanticInit
<1>1. IsFiniteSet({}) /\ Cardinality({}) = 0 /\ TotalBytes({}, Size) = 0
    BY FS_EmptySet, BytesEmpty
<1>2. SemanticTypeOK
    BY <1>1 DEF SemanticTypeOK, NoAnchor
<1>3. WithinBudget
    BY <1>1 DEF WithinBudget
<1>4. CachedHandles = {} /\ \A t \in Threads : InHand[t] = {}
    BY DEF CachedHandles, InHand
<1>5. Apart /\ AllHeld /\ Retries /\ OneEach /\ AtHand /\ Retriers
    BY <1>4 DEF Apart, AllHeld, Retries, OneEach, AtHand, Retriers, Retrying
<1> QED  BY <1>2, <1>3, <1>5 DEF SemanticInv

LEMMA SemanticStutters ==
    ASSUME SemanticInv, UNCHANGED semanticVars
    PROVE  SemanticInv'
<1>1. UNCHANGED <<anchors, place, resident, capacity, owed, turn, dropped, backend, doing, anchor,
                  freeing, retrying>>
    BY DEF semanticVars, cacheVars, releaseVars, threadVars
<1>2. SemanticTypeOK' /\ WithinBudget' /\ OneEach' /\ AtHand' /\ Retriers'
    BY <1>1 DEF SemanticInv, SemanticTypeOK, WithinBudget, OneEach, AtHand, Retriers
<1>3. CachedHandles' = CachedHandles /\ InHand' = InHand
    BY <1>1 DEF CachedHandles, InHand
<1>4. Apart' /\ AllHeld' /\ Retries'
    BY <1>1, <1>3 DEF SemanticInv, Apart, AllHeld, Retries
<1> QED  BY <1>2, <1>4 DEF SemanticInv

LEMMA SemanticNextKeeps ==
    ASSUME SemanticInv, SemanticNext
    PROVE  SemanticInv'
<1>1. PICK t \in Threads : SemanticStep(t)
    BY DEF SemanticNext
<1>2. CASE \E k \in Keys : Capture(t, k) \/ Lookup(t, k)
    BY <1>2, CaptureKeeps, LookupKeeps
<1>3. CASE Check(t) \/ Insert(t) \/ Restore(t) \/ Discard(t) \/ Clear(t)
    BY <1>3, CheckKeeps, InsertKeeps, RestoreKeeps, DiscardKeeps, ClearKeeps
<1>4. CASE RetryStart(t) \/ Retry(t) \/ RetryDone(t) \/ RetryEnd(t) \/ Free(t) \/ Done(t)
    BY <1>4, RetryStartKeeps, RetryKeeps, RetryDoneKeeps, FreeKeeps, RestoreKeeps
<1>5. CASE \E l \in Levels : Resize(t, l)
    BY <1>5, ResizedKeeps
<1> QED  BY <1>1, <1>2, <1>3, <1>4, <1>5 DEF SemanticStep

(* The inductive invariant of the semantic cache: what the cache, the      *)
(* threads and the list of failed releases have is apart, and together is  *)
(* what the backend holds, except for a handle whose retry has succeeded.  *)
THEOREM SemanticSafety == SemanticSpec => []SemanticInv
<1>1. SemanticInit => SemanticInv
    BY SemanticStarts
<1>2. SemanticInv /\ [SemanticNext]_semanticVars => SemanticInv'
    BY SemanticNextKeeps, SemanticStutters
<1> QED  BY <1>1, <1>2, PTL DEF SemanticSpec

(* The byte counter that put, discard, clear and resize update entry by    *)
(* entry is the sum of the cached anchors' bytes, and the entries and the  *)
(* bytes are within the capacities, for every set of threads, sizes and    *)
(* capacities.                                                             *)
THEOREM SemanticWithinBudget == SemanticSpec => []WithinBudget
<1>1. SemanticInv => WithinBudget
    BY DEF SemanticInv
<1> QED  BY <1>1, SemanticSafety, PTL

(* At most one owner has a handle, and somebody has it when it is neither  *)
(* listed nor gone.                                                        *)
CacheHas(h) == {"cache"} \X {a \in anchors : a[1] = h}
CaptureHas(h) ==
    {"capture"} \X {t \in Threads : doing[t] \in {"check", "insert"} /\ anchor[t][1] = h}
ReleaseHas(h) == {"release"} \X UNION {{t} \X {p \in freeing[t] : p[2] = h} : t \in Threads}
LEMMA ReleaseMember ==
    ASSUME NEW h, NEW x
    PROVE  x \in ReleaseHas(h) <=>
             \E t \in Threads : \E p \in freeing[t] : p[2] = h /\ x = <<"release", <<t, p>>>>
<1>1. \A y : y \in UNION {{t} \X {p \in freeing[t] : p[2] = h} : t \in Threads}
               <=> \E t \in Threads : \E p \in freeing[t] : p[2] = h /\ y = <<t, p>>
    <2> TAKE y
    <2>1. y \in UNION {{t} \X {p \in freeing[t] : p[2] = h} : t \in Threads}
             <=> \E t \in Threads : y \in {t} \X {p \in freeing[t] : p[2] = h}
        OBVIOUS
    <2> QED  BY <2>1
<1> DEFINE U == UNION {{t} \X {p \in freeing[t] : p[2] = h} : t \in Threads}
<1> HIDE DEF U
<1>2. x \in {"release"} \X U <=> \E y \in U : x = <<"release", y>>
    OBVIOUS
<1>3. ReleaseHas(h) = {"release"} \X U
    BY DEF ReleaseHas, U
<1> QED  BY <1>1, <1>2, <1>3 DEF U

LEMMA OneHolder ==
    ASSUME SemanticInv, NEW h
    PROVE  /\ \A x, y \in Holders(h) : x = y
           /\ Holders(h) # {} <=> h \in CachedHandles \/ \E t \in Threads : h \in InHand[t]
<1>1. Holders(h) = CacheHas(h) \cup CaptureHas(h) \cup ReleaseHas(h)
    BY Zenon DEF Holders, CacheHas, CaptureHas, ReleaseHas
<1>2. /\ \A x, y \in CacheHas(h) : x = y
      /\ \A x \in CacheHas(h) : h \in CachedHandles
      /\ h \in CachedHandles => CacheHas(h) # {}
    <2>1. \A a, b \in anchors : a[1] = b[1] => a = b
        BY DEF SemanticInv, OneEach
    <2>2. h \in CachedHandles => \E a \in anchors : a[1] = h
        BY DEF CachedHandles
    <2>3. \A x \in CacheHas(h) : x[2] \in anchors /\ x[2][1] = h /\ x = <<"cache", x[2]>>
        BY DEF CacheHas
    <2>4. \A a \in anchors : a[1] = h => <<"cache", a>> \in CacheHas(h)
        BY DEF CacheHas
    <2>5. \A a \in anchors : a[1] \in CachedHandles
        BY DEF CachedHandles
    <2>6. \A x, y \in CacheHas(h) : x = y
        BY <2>1, <2>3
    <2> QED  BY <2>2, <2>3, <2>4, <2>5, <2>6
<1>3. \A x \in CaptureHas(h) :
          /\ x[2] \in Threads /\ doing[x[2]] \in {"check", "insert"}
          /\ anchor[x[2]][1] = h /\ x = <<"capture", x[2]>>
    BY DEF CaptureHas
<1>4. \A t \in Threads :
          doing[t] \in {"check", "insert"} /\ anchor[t][1] = h => <<"capture", t>> \in CaptureHas(h)
    BY DEF CaptureHas
<1>5. \A t \in Threads : h \in InHand[t] <=>
         (\E p \in freeing[t] : p[2] = h) \/ (doing[t] \in {"check", "insert"} /\ anchor[t][1] = h)
    BY DEF InHand
<1>6. \A t \in Threads : doing[t] \in {"check", "insert"} => freeing[t] = {}
    BY DEF SemanticInv, AtHand
<1>7. \A t, u \in Threads : h \in InHand[t] /\ h \in InHand[u] => t = u
    BY DEF SemanticInv, Apart
<1>8. \A t \in Threads : h \in InHand[t] => h \notin CachedHandles
    BY DEF SemanticInv, Apart
<1>9. \A t \in Threads : \A p, q \in freeing[t] : p[2] = h /\ q[2] = h => p = q
    BY DEF SemanticInv, OneEach
<1>10. \A x \in CaptureHas(h) \cup ReleaseHas(h) : \E t \in Threads : h \in InHand[t]
    BY <1>3, <1>5, ReleaseMember
<1>11. \A t \in Threads : h \in InHand[t] => CaptureHas(h) \cup ReleaseHas(h) # {}
    <2>1. ASSUME NEW t \in Threads, NEW p \in freeing[t], p[2] = h
          PROVE  <<"release", <<t, p>>>> \in ReleaseHas(h)
        BY <2>1, ReleaseMember
    <2> QED  BY <1>4, <1>5, <2>1
<1>12. \A x, y \in CaptureHas(h) : x = y
    BY <1>3, <1>5, <1>7
<1>13. \A x, y \in ReleaseHas(h) : x = y
    <2> TAKE x, y \in ReleaseHas(h)
    <2>1. PICK t \in Threads : \E p \in freeing[t] : p[2] = h /\ x = <<"release", <<t, p>>>>
        BY ReleaseMember
    <2>2. PICK u \in Threads : \E p \in freeing[u] : p[2] = h /\ y = <<"release", <<u, p>>>>
        BY ReleaseMember
    <2>3. t = u
        BY <1>5, <1>7, <2>1, <2>2
    <2> QED  BY <1>9, <2>1, <2>2, <2>3
<1>14. CaptureHas(h) # {} => ReleaseHas(h) = {}
    <2> SUFFICES ASSUME NEW x \in CaptureHas(h), NEW y \in ReleaseHas(h) PROVE FALSE
        OBVIOUS
    <2>1. PICK t \in Threads : t = x[2] /\ doing[t] \in {"check", "insert"} /\ anchor[t][1] = h
        BY <1>3
    <2>2. PICK u \in Threads : \E p \in freeing[u] : p[2] = h
        BY ReleaseMember
    <2>3. t = u
        BY <1>5, <1>7, <2>1, <2>2
    <2> QED  BY <1>6, <2>1, <2>2, <2>3
<1>15. CacheHas(h) # {} => CaptureHas(h) \cup ReleaseHas(h) = {}
    BY <1>2, <1>8, <1>10
<1> QED  BY <1>1, <1>2, <1>10, <1>11, <1>12, <1>13, <1>14, <1>15

(* Every handle the backend holds has one owner that will release it, or   *)
(* is on the list of failed releases, or fell out of it; no owner has a    *)
(* handle that is gone.                                                    *)
THEOREM SemanticHandlesOwned == SemanticSpec => []HandlesOwned
<1>1. ASSUME SemanticInv PROVE HandlesOwned
    <2>1. ASSUME NEW h \in backend
          PROVE  Cardinality(Holders(h)) = IF Listed(h) THEN 0 ELSE 1
        <3>1. \A x, y \in Holders(h) : x = y
            BY <1>1, OneHolder
        <3>2. Holders(h) # {} <=> h \in CachedHandles \/ \E t \in Threads : h \in InHand[t]
            BY <1>1, OneHolder
        <3>3. CASE Listed(h)
            <4>1. h \notin CachedHandles /\ \A t \in Threads : h \notin InHand[t]
                BY <1>1, <3>3 DEF Listed, SemanticInv, Apart
            <4>2. Holders(h) = {}
                BY <3>2, <4>1
            <4> QED  BY <3>3, <4>2, FS_EmptySet
        <3>4. CASE ~Listed(h)
            <4>1. h \in CachedHandles \/ \E t \in Threads : h \in InHand[t]
                BY <1>1, <3>4 DEF Listed, SemanticInv, AllHeld
            <4>2. PICK x : x \in Holders(h)
                BY <3>2, <4>1
            <4>3. Holders(h) = {x}
                BY <3>1, <4>2
            <4> QED  BY <3>4, <4>3, FS_Singleton
        <3> QED  BY <3>3, <3>4
    <2>2. ASSUME NEW h \in Handles \ backend
          PROVE  Holders(h) = {} /\ (h \in owed => Retried(h))
        <3>1. Holders(h) # {} <=> h \in CachedHandles \/ \E t \in Threads : h \in InHand[t]
            BY <1>1, OneHolder
        <3>2. h \notin CachedHandles /\ \A t \in Threads : h \notin InHand[t]
            BY <1>1 DEF SemanticInv, AllHeld
        <3>3. h \in owed => Retried(h)
            BY <1>1 DEF SemanticInv, Retries, Retried
        <3> QED  BY <3>1, <3>2, <3>3
    <2> QED  BY <2>1, <2>2 DEF HandlesOwned
<1> QED  BY <1>1, SemanticSafety, PTL
=============================================================================
