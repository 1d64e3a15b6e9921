-------------------------- MODULE DownloadPool_proofs --------------------------
(***************************************************************************)
(* The download pool, for any number of workers and notes, any sizes and   *)
(* any limits: types, no note lost, and the bound of the memory gate.      *)
(***************************************************************************)
EXTENDS DownloadPool, FiniteInduction

Normal == {"submit", "consume", "store", "subtract", "notify", "shutdown", "finished"}

\* The main thread has a note in hand while it stores one.
HandOK == mpc \in {"store", "subtract", "notify"} => hand \in Notes

\* A note is in one place: not submitted, in the queue, with one worker, or
\* over.  So an outcome is set once.
PlacesOK ==
    /\ \A n \in Notes : n \in unsubmitted <=> future[n] = "none"
    /\ \A n \in queue : future[n] = "pending"
    /\ \A w \in Workers : job[w] # None => future[job[w]] = "pending" /\ job[w] \notin queue
    /\ \A v, w \in Workers : v # w /\ job[v] # None => job[v] # job[w]

\* Until a run is aborted a note whose download was taken over is written, or
\* about to be; between chunks all downloads are over.
HandledOK ==
    /\ mpc \in Normal => \A n \in Notes :
          future[n] = "handled" => n \in stored \/ (mpc = "store" /\ n = hand)
    /\ mpc \in {"submit", "shutdown", "finished"} =>
          \A n \in Notes : future[n] \in {"none", "handled", "givenUp"}
    /\ mpc \in {"shutdown", "finished"} => unsubmitted = {}

IInv == TypeOK /\ HandOK /\ PlacesOK /\ HandledOK

\* Nothing is submitted, nothing is lost.
LEMMA InitInv == Init => IInv
<1> SUFFICES ASSUME Init PROVE IInv
  OBVIOUS
<1>1. TypeOK
  <2>1. wpc \in [Workers -> {"idle", "gate", "goingToSleep", "asleep", "checkStop", "download"}]
    BY DEF Init
  <2>2. job \in [Workers -> Notes \cup {None}]
    BY DEF Init
  <2>3. \A w \in Workers : job[w] = None <=> wpc[w] = "idle"
    BY DEF Init
  <2>4. future \in [Notes -> {"none", "pending", "done", "skipped", "fatal", "stopped",
                              "handled", "givenUp"}]
    BY DEF Init
  <2>5. stop \in BOOLEAN /\ hand \in Notes \cup {None} /\ condOwner \in Workers \cup {None}
    BY DEF Init
  <2>6. unsubmitted \subseteq Notes /\ queue \subseteq Notes /\ stored \subseteq Notes
    BY DEF Init
  <2>7. memory \in Int /\ failures \in Nat /\ interrupts \in Nat /\ mpc = "submit"
    BY DEF Init
  <2> QED
    BY <2>1, <2>2, <2>3, <2>4, <2>5, <2>6, <2>7 DEF TypeOK
<1>2. HandOK /\ HandledOK
  BY DEF Init, HandOK, HandledOK, Normal
<1>3. PlacesOK
  BY DEF Init, PlacesOK
<1> QED
  BY <1>1, <1>2, <1>3 DEF IInv

----------------------------------------------------------------------------
(* The workers.                                                            *)

\* A call that returns sets the outcome of a note that had none.
LEMMA ReturnInv ==
    ASSUME IInv, NEW w \in Workers, wpc[w] # "idle",
           NEW outcome \in {"done", "skipped", "fatal", "stopped"}, Return(w, outcome),
           UNCHANGED <<queue, condOwner, main>>, memory' \in Int,
           failures' \in Nat, interrupts' \in Nat
    PROVE  IInv'
<1> DEFINE n == job[w]
<1>1. n \in Notes /\ future[n] = "pending"
  BY DEF IInv, TypeOK, PlacesOK
<1>2. /\ future' = [future EXCEPT ![n] = outcome] /\ job' = [job EXCEPT ![w] = None]
      /\ wpc' = [wpc EXCEPT ![w] = "idle"]
  BY DEF Return, Goto
<1>3. TypeOK'
  BY <1>1, <1>2, PoolAssumption DEF IInv, TypeOK, main
<1>4. HandOK' /\ HandledOK'
  BY <1>1, <1>2 DEF IInv, TypeOK, HandOK, HandledOK, Normal, main
<1>5. PlacesOK'
  BY <1>1, <1>2 DEF IInv, TypeOK, PlacesOK, main
<1> QED
  BY <1>3, <1>4, <1>5 DEF IInv

\* A worker keeps the invariant at each of its steps.
LEMMA WorkerInv ==
    ASSUME IInv, NEW w \in Workers, Worker(w) \/ DownloadFails(w)
    PROVE  IInv'
<1>1. CASE Take(w)
  <2>1. PICK n \in queue : queue' = queue \ {n} /\ job' = [job EXCEPT ![w] = n]
    BY <1>1 DEF Take
  <2>2. n \in Notes
    BY DEF IInv, TypeOK
  <2>3. TypeOK'
    BY <1>1, <2>1, <2>2, PoolAssumption DEF IInv, TypeOK, Take, Goto, main
  <2>4. PlacesOK'
    BY <1>1, <2>1, <2>2 DEF IInv, TypeOK, PlacesOK, Take, Goto, main
  <2> QED
    BY <1>1, <2>3, <2>4 DEF IInv, HandOK, HandledOK, Take, main
<1>2. CASE CheckMemory(w)
  BY <1>2 DEF IInv, TypeOK, HandOK, PlacesOK, HandledOK, CheckMemory, Goto, main
<1>3. CASE Sleep(w)
  BY <1>3 DEF IInv, TypeOK, HandOK, PlacesOK, HandledOK, Sleep, Goto, main
<1>4. CASE CheckStop(w)
  <2>1. CASE stop
    BY <1>4, <2>1, ReturnInv DEF CheckStop, IInv, TypeOK
  <2>2. CASE ~ stop
    BY <1>4, <2>2 DEF IInv, TypeOK, HandOK, PlacesOK, HandledOK, CheckStop, Goto, main
  <2> QED
    BY <2>1, <2>2
<1>5. CASE Downloaded(w)
  <2>1. job[w] \in Notes /\ Size[job[w]] \in Nat
    BY <1>5, PoolAssumption DEF Downloaded, IInv, TypeOK
  <2> QED
    BY <1>5, <2>1, ReturnInv DEF Downloaded, IInv, TypeOK
<1>6. CASE DownloadFails(w)
  BY <1>6, ReturnInv DEF DownloadFails, IInv, TypeOK
<1> QED
  BY <1>1, <1>2, <1>3, <1>4, <1>5, <1>6 DEF Worker

----------------------------------------------------------------------------
(* The main thread.                                                        *)

\* Notes that are submitted become pending and enter the queue.
LEMMA SubmitInv ==
    ASSUME IInv, mpc = "submit", NEW S \in SUBSET unsubmitted,
           unsubmitted' = unsubmitted \ S, queue' = queue \cup S,
           future' = [n \in Notes |-> IF n \in S THEN "pending" ELSE future[n]],
           mpc' \in {"consume", "unwind"}, failures' \in Nat, interrupts' \in Nat,
           UNCHANGED <<wpc, job, memory, condOwner, stop, hand, stored>>
    PROVE  IInv'
<1>1. S \subseteq Notes /\ \A n \in S : future[n] = "none"
  BY DEF IInv, TypeOK, PlacesOK
<1>2. TypeOK'
  BY <1>1 DEF IInv, TypeOK
<1>3. HandOK' /\ HandledOK'
  BY <1>1 DEF IInv, TypeOK, HandOK, HandledOK, Normal
<1>4. PlacesOK'
  BY <1>1 DEF IInv, TypeOK, PlacesOK
<1> QED
  BY <1>2, <1>3, <1>4 DEF IInv

\* A finished download is taken over.
LEMMA ConsumeInv ==
    ASSUME IInv, NEW n \in Notes, Consume(n)
    PROVE  IInv'
<1>1. TypeOK'
  BY DEF IInv, TypeOK, Consume
<1>2. HandOK' /\ HandledOK'
  BY DEF IInv, TypeOK, HandOK, HandledOK, Normal, Consume
<1>3. PlacesOK'
  BY DEF IInv, TypeOK, PlacesOK, Consume
<1> QED
  BY <1>1, <1>2, <1>3 DEF IInv

\* The other steps of the main thread, interrupts included.
LEMMA MainInv ==
    ASSUME IInv, MainThread \/ Interrupt \/ InterruptSubmit
    PROVE  IInv'
<1> USE DEF HandOK, PlacesOK, HandledOK, Normal, pool
<1>1. CASE Submit
  <2>1. CASE unsubmitted = {}
    BY <1>1, <2>1 DEF Submit, IInv, TypeOK
  <2>2. CASE unsubmitted # {}
    <3>1. PICK S \in SUBSET unsubmitted :
             /\ unsubmitted' = unsubmitted \ S /\ queue' = queue \cup S
             /\ future' = [n \in Notes |-> IF n \in S THEN "pending" ELSE future[n]]
      BY <1>1, <2>2 DEF Submit
    <3> QED
      BY <1>1, <2>2, <3>1, SubmitInv DEF Submit, IInv, TypeOK
  <2> QED
    BY <2>1, <2>2
<1>2. ASSUME NEW n \in Notes, Consume(n)
      PROVE  IInv'
  BY <1>2, ConsumeInv
<1>3. CASE ChunkDone
  BY <1>3 DEF ChunkDone, IInv, TypeOK
<1>4. CASE AddNote
  BY <1>4 DEF AddNote, IInv, TypeOK
<1>5. CASE Subtract
  <2>1. Size[hand] \in Nat
    BY <1>5, PoolAssumption DEF Subtract, IInv
  <2> QED
    BY <1>5, <2>1 DEF Subtract, IInv, TypeOK
<1>6. CASE Notify
  BY <1>6 DEF Notify, WakeAll, IInv, TypeOK
<1>7. CASE SetStop \/ ResetMemory \/ Interrupt
  <2>1. CASE SetStop
    BY <2>1 DEF SetStop, IInv, TypeOK
  <2>2. CASE ResetMemory
    BY <2>2 DEF ResetMemory, IInv, TypeOK
  <2>3. CASE Interrupt
    BY <2>3 DEF Interrupt, IInv, TypeOK
  <2> QED
    BY <1>7, <2>1, <2>2, <2>3
<1>8. CASE ResetNotify
  BY <1>8 DEF ResetNotify, WakeAll, IInv, TypeOK
<1>9. CASE Shutdown
  BY <1>9 DEF Shutdown, IInv, TypeOK
<1>10. CASE InterruptSubmit
  <2>1. PICK S \in SUBSET unsubmitted :
           /\ unsubmitted' = unsubmitted \ S /\ queue' = queue \cup S
           /\ future' = [n \in Notes |-> IF n \in S THEN "pending" ELSE future[n]]
    BY <1>10 DEF InterruptSubmit
  <2> QED
    BY <1>10, <2>1, SubmitInv DEF InterruptSubmit, IInv, TypeOK
<1> QED
  BY <1>1, <1>2, <1>3, <1>4, <1>5, <1>6, <1>7, <1>8, <1>9, <1>10 DEF MainThread

----------------------------------------------------------------------------
\* The invariant holds in every state.
THEOREM Invariance == Spec => []IInv
<1>1. ASSUME IInv, [Next]_vars
      PROVE  IInv'
  <2>1. CASE UNCHANGED vars
    BY <1>1, <2>1 DEF vars, pool, main, IInv, TypeOK, HandOK, PlacesOK, HandledOK
  <2>2. ASSUME NEW w \in Workers, Worker(w) \/ DownloadFails(w)
        PROVE  IInv'
    BY <1>1, <2>2, WorkerInv
  <2>3. CASE MainThread \/ Interrupt \/ InterruptSubmit
    BY <1>1, <2>3, MainInv
  <2> QED
    BY <1>1, <2>1, <2>2, <2>3 DEF Next
<1> QED
  BY <1>1, InitInv, PTL DEF Spec

\* The types of all variables; a worker has a note exactly while it is in a
\* call.
THEOREM TypeCorrect == Spec => []TypeOK
<1>1. IInv => TypeOK
  BY DEF IInv
<1> QED
  BY <1>1, Invariance, PTL

\* A run that ends normally has written every note or given it up with a
\* warning.
THEOREM LosesNothing == Spec => []NoneLost
<1>1. IInv => NoneLost
  BY DEF IInv, TypeOK, PlacesOK, HandledOK, Normal, NoneLost
<1> QED
  BY <1>1, Invariance, PTL

----------------------------------------------------------------------------
(* The memory gate.                                                        *)

\* There are notes, finitely many workers, and a largest note.
Finite == /\ IsFiniteSet(Workers)
          /\ \E n \in Notes : \A m \in Notes : Size[m] <= Size[n]

\* The workers that have not passed the gate for a note that is not counted.
Before == {w \in Workers : wpc[w] \notin {"checkStop", "download"}}

\* Every worker past the gate may still add a largest note; what is counted
\* leaves room for them.
RoomLeft == memory <= memory_limit - 1 + Cardinality(Before) * MaxSize

\* MaxSize is the size of the largest note.
LEMMA MaxSizeBounds ==
    ASSUME Finite
    PROVE  MaxSize \in Nat /\ \A n \in Notes : Size[n] <= MaxSize
<1>1. PICK n \in Notes : \A m \in Notes : Size[m] <= Size[n]
  BY DEF Finite
<1>2. \A m \in Notes : Size[m] \in Nat
  BY PoolAssumption
<1>3. \A x, y \in Nat : x >= y <=> y <= x
  OBVIOUS
<1> DEFINE sizes == {Size[m] : m \in Notes}
<1>4. Size[n] \in sizes /\ \A y \in sizes : Size[n] >= y
  BY <1>1, <1>2
<1>5. MaxSize = CHOOSE x \in sizes : \A y \in sizes : x >= y
  BY DEF MaxSize, Max
<1>6. MaxSize \in sizes /\ \A y \in sizes : MaxSize >= y
  BY <1>4, <1>5
<1> QED
  BY <1>2, <1>6

\* Finite sets of workers, and the room they leave.
LEMMA Rooms ==
    ASSUME Finite, NEW S \in SUBSET Workers, NEW w \in Workers \ S
    PROVE  /\ Cardinality(S) \in Nat
           /\ Cardinality(S) * MaxSize \in Nat
           /\ Cardinality(S \cup {w}) * MaxSize = Cardinality(S) * MaxSize + MaxSize
<1>1. IsFiniteSet(S)
  BY FS_Subset DEF Finite
<1>2. Cardinality(S) \in Nat
  BY <1>1, FS_CardinalityType
<1>3. Cardinality(S \cup {w}) = Cardinality(S) + 1
  BY <1>1, FS_AddElement
<1>4. \A c, m \in Nat : c * m \in Nat /\ (c + 1) * m = c * m + m
  OBVIOUS
<1> QED
  BY <1>2, <1>3, <1>4, MaxSizeBounds

\* No worker takes more than all of them.
LEMMA SomeRoom ==
    ASSUME Finite, NEW S \in SUBSET Workers
    PROVE  /\ Cardinality(S) * MaxSize \in Nat
           /\ Cardinality(S) * MaxSize <= Cardinality(Workers) * MaxSize
<1>1. /\ Cardinality(S) \in Nat /\ Cardinality(Workers) \in Nat
      /\ Cardinality(S) <= Cardinality(Workers)
  BY FS_Subset, FS_CardinalityType DEF Finite
<1>2. \A c, d, m \in Nat : c <= d => c * m \in Nat /\ c * m <= d * m
  OBVIOUS
<1> QED
  BY <1>1, <1>2, MaxSizeBounds

\* A call that returns from behind the gate gives its room back, less what
\* it has added to the counter.
LEMMA ReturnRoom ==
    ASSUME Finite, IInv, RoomLeft, NEW w \in Workers, wpc[w] \in {"checkStop", "download"},
           wpc' = [wpc EXCEPT ![w] = "idle"], memory' \in Int, memory' <= memory + MaxSize
    PROVE  RoomLeft'
<1>1. Before' = Before \cup {w} /\ w \notin Before /\ Before \subseteq Workers
  BY DEF Before, IInv, TypeOK
<1>2. /\ Cardinality(Before) * MaxSize \in Nat
      /\ Cardinality(Before') * MaxSize = Cardinality(Before) * MaxSize + MaxSize
  BY <1>1, Rooms
<1>3. memory \in Int /\ memory_limit \in Nat /\ MaxSize \in Nat
  BY PoolAssumption, MaxSizeBounds DEF IInv, TypeOK
<1> HIDE DEF Before
<1> QED
  BY <1>2, <1>3 DEF RoomLeft

\* A step that passes nobody through the gate and adds nothing keeps the room.
LEMMA SameRoom ==
    ASSUME Finite, IInv, RoomLeft, memory' \in Int, memory' <= memory,
           \A w \in Workers : wpc'[w] \in {"checkStop", "download"}
                               <=> wpc[w] \in {"checkStop", "download"}
    PROVE  RoomLeft'
<1>1. Before' = Before /\ Before \subseteq Workers
  BY DEF Before
<1>2. Cardinality(Before) * MaxSize \in Nat
  BY <1>1, SomeRoom
<1>3. memory \in Int /\ memory_limit \in Nat
  BY PoolAssumption DEF IInv, TypeOK
<1> QED
  BY <1>1, <1>2, <1>3 DEF RoomLeft

\* A worker passes the gate only while the counter is below the limit.
LEMMA WorkerRoom ==
    ASSUME Finite, IInv, RoomLeft, NEW w \in Workers, Worker(w) \/ DownloadFails(w)
    PROVE  RoomLeft'
<1> USE DEF Goto
<1>1. CASE Take(w) \/ Sleep(w)
  BY <1>1, SameRoom DEF Take, Sleep, IInv, TypeOK
<1>2. CASE CheckMemory(w)
  <2>1. CASE memory < memory_limit
    <3>1. Cardinality(Before') * MaxSize \in Nat
      BY SomeRoom DEF Before
    <3>2. memory' <= memory_limit - 1 /\ memory_limit \in Nat /\ memory' \in Int
      BY <1>2, <2>1, PoolAssumption DEF CheckMemory, IInv, TypeOK
    <3> QED
      BY <3>1, <3>2 DEF RoomLeft
  <2>2. CASE ~ memory < memory_limit
    BY <1>2, <2>2, SameRoom DEF CheckMemory, IInv, TypeOK
  <2> QED
    BY <2>1, <2>2
<1>3. CASE CheckStop(w)
  <2>1. CASE stop
    BY <1>3, <2>1, ReturnRoom, MaxSizeBounds DEF CheckStop, Return, IInv, TypeOK
  <2>2. CASE ~ stop
    BY <1>3, <2>2, SameRoom DEF CheckStop, IInv, TypeOK
  <2> QED
    BY <2>1, <2>2
<1>4. CASE Downloaded(w)
  <2>1. job[w] \in Notes /\ Size[job[w]] \in Nat /\ Size[job[w]] <= MaxSize
    BY <1>4, PoolAssumption, MaxSizeBounds DEF Downloaded, IInv, TypeOK
  <2> QED
    <3>1. memory' = memory + Size[job[w]] /\ memory \in Int /\ MaxSize \in Nat
      BY <1>4, MaxSizeBounds DEF Downloaded, IInv, TypeOK
    <3>2. memory' \in Int /\ memory' <= memory + MaxSize
      BY <2>1, <3>1
    <3> QED
      BY <1>4, <3>2, ReturnRoom DEF Downloaded, Return
<1>5. CASE DownloadFails(w)
  <2>1. memory' = memory /\ memory \in Int /\ MaxSize \in Nat
    BY <1>5, MaxSizeBounds DEF DownloadFails, IInv, TypeOK
  <2>2. memory' \in Int /\ memory' <= memory + MaxSize
    BY <2>1
  <2> QED
    BY <1>5, <2>2, ReturnRoom DEF DownloadFails, Return
<1> QED
  BY <1>1, <1>2, <1>3, <1>4, <1>5 DEF Worker

\* The main thread only ever lowers the counter.
LEMMA MainRoom ==
    ASSUME Finite, IInv, RoomLeft, MainThread \/ Interrupt \/ InterruptSubmit
    PROVE  RoomLeft'
<1>1. CASE ResetMemory
  <2>1. Before' = Before /\ Cardinality(Before) * MaxSize \in Nat
    BY <1>1, SomeRoom DEF ResetMemory, Before
  <2>2. memory' = 0 /\ memory_limit \in Nat \ {0}
    BY <1>1, PoolAssumption DEF ResetMemory
  <2> QED
    BY <2>1, <2>2 DEF RoomLeft
<1>2. CASE Subtract
  <2>1. Size[hand] \in Nat /\ memory \in Int
    BY <1>2, PoolAssumption DEF Subtract, IInv, HandOK, TypeOK
  <2> QED
    BY <1>2, <2>1, SameRoom DEF Subtract
<1>3. CASE Notify \/ ResetNotify
  BY <1>3, SameRoom DEF Notify, ResetNotify, WakeAll, IInv, TypeOK
<1>4. ASSUME ~ ResetMemory, ~ Subtract, ~ Notify, ~ ResetNotify
      PROVE  UNCHANGED <<memory, wpc>>
  BY <1>4 DEF MainThread, Interrupt, InterruptSubmit, Submit, Consume, ChunkDone, AddNote,
              SetStop, Shutdown, pool
<1> QED
  BY <1>1, <1>2, <1>3, <1>4, SameRoom DEF IInv, TypeOK

\* The gate bounds the counter: it exceeds the limit by less than one largest
\* note per worker, also while a run is being aborted.
THEOREM GateBounds == ASSUME Finite PROVE Spec => []MemoryBounded
<1>1. Init => RoomLeft
  <2> SUFFICES ASSUME Init PROVE RoomLeft
    OBVIOUS
  <2>1. Cardinality(Before) * MaxSize \in Nat
    BY SomeRoom DEF Before
  <2> QED
    BY <2>1, PoolAssumption DEF Init, RoomLeft
<1>2. ASSUME IInv, RoomLeft, [Next]_vars
      PROVE  RoomLeft'
  <2>1. CASE UNCHANGED vars
    BY <1>2, <2>1, SameRoom DEF vars, pool, IInv, TypeOK
  <2>2. ASSUME NEW w \in Workers, Worker(w) \/ DownloadFails(w)
        PROVE  RoomLeft'
    BY <1>2, <2>2, WorkerRoom
  <2>3. CASE MainThread \/ Interrupt \/ InterruptSubmit
    BY <1>2, <2>3, MainRoom
  <2> QED
    BY <1>2, <2>1, <2>2, <2>3 DEF Next
<1>3. IInv /\ RoomLeft => MemoryBounded
  <2> SUFFICES ASSUME IInv, RoomLeft PROVE MemoryBounded
    OBVIOUS
  <2>1. /\ Cardinality(Before) * MaxSize \in Nat
        /\ Cardinality(Before) * MaxSize <= Cardinality(Workers) * MaxSize
    BY SomeRoom DEF Before
  <2>2. Cardinality(Workers) * MaxSize \in Nat
    BY SomeRoom
  <2>3. memory \in Int /\ memory_limit \in Nat
    BY PoolAssumption DEF IInv, TypeOK
  <2> QED
    BY <2>1, <2>2, <2>3 DEF RoomLeft, MemoryBounded
<1> QED
  BY <1>1, <1>2, <1>3, Invariance, PTL DEF Spec

----------------------------------------------------------------------------
(* The counter is exact.                                                   *)

\* The notes that are downloaded and not taken over.
Done == {n \in Notes : future[n] = "done"}

\* g adds up the sizes of the notes of a set.
Sums(g) == g \in [SUBSET Notes -> Int] /\ g[{}] = 0 /\ AnyOrder(Size, Notes, g)

\* Until a run is aborted the counter is the size of the notes that are
\* downloaded and not taken over, and of the one that is being stored.
Counted(g) ==
    mpc \in Normal => memory = g[Done] + IF mpc \in {"store", "subtract"} THEN Size[hand] ELSE 0

\* A note more or less.
LEMMA OneMore ==
    ASSUME NEW g, Sums(g), NEW s \in SUBSET Notes, NEW n \in s
    PROVE  /\ g[s] = Size[n] + g[s \ {n}]
           /\ g[s] \in Int /\ g[s \ {n}] \in Int /\ Size[n] \in Int
<1>1. Size[n] \in Int /\ s \ {n} \in SUBSET Notes
  BY PoolAssumption
<1> QED
  BY <1>1 DEF Sums, AnyOrder

\* A step that neither counts nor takes over a note.
LEMMA SameCount ==
    ASSUME NEW g, Counted(g), Done' = Done, UNCHANGED <<memory, hand>>,
           mpc' \in Normal => mpc \in Normal,
           mpc' \in Normal => (mpc' \in {"store", "subtract"} <=> mpc \in {"store", "subtract"})
    PROVE  Counted(g)'
BY DEF Counted

\* A worker adds the size of a note before its Future is done.
LEMMA WorkerCounts ==
    ASSUME NEW g, Sums(g), IInv, Counted(g), NEW w \in Workers, Worker(w) \/ DownloadFails(w)
    PROVE  Counted(g)'
<1>1. CASE Take(w) \/ CheckMemory(w) \/ Sleep(w)
  <2>1. UNCHANGED <<memory, hand, future, mpc>>
    BY <1>1 DEF Take, CheckMemory, Sleep, main
  <2> QED
    BY <2>1, SameCount DEF Done
<1>2. ASSUME NEW outcome \in {"skipped", "fatal", "stopped"}, wpc[w] # "idle",
             Return(w, outcome), UNCHANGED <<memory, main>>
      PROVE  Counted(g)'
  <2>1. job[w] \in Notes /\ future[job[w]] = "pending"
    BY <1>2 DEF IInv, TypeOK, PlacesOK
  <2>2. Done' = Done
    BY <1>2, <2>1 DEF Return, Done, IInv, TypeOK
  <2> QED
    BY <1>2, <2>2, SameCount DEF main
<1>3. CASE CheckStop(w)
  <2>1. CASE stop
    BY <1>2, <1>3, <2>1 DEF CheckStop
  <2>2. CASE ~ stop
    <3>1. UNCHANGED <<memory, hand, future, mpc>>
      BY <1>3, <2>2 DEF CheckStop, main
    <3> QED
      BY <3>1, SameCount DEF Done
  <2> QED
    BY <2>1, <2>2
<1>4. CASE Downloaded(w)
  <2>1. PICK n \in Notes : n = job[w] /\ future[n] = "pending"
    BY <1>4 DEF Downloaded, IInv, TypeOK, PlacesOK
  <2>2. future' = [future EXCEPT ![n] = "done"] /\ memory' = memory + Size[n]
        /\ UNCHANGED <<mpc, hand>>
    BY <1>4, <2>1 DEF Downloaded, Return, main
  <2>3. n \in Done' /\ Done' \ {n} = Done /\ Done' \in SUBSET Notes
    BY <2>1, <2>2 DEF Done, IInv, TypeOK
  <2>4. /\ g[Done'] = Size[n] + g[Done]
        /\ g[Done'] \in Int /\ g[Done] \in Int /\ Size[n] \in Int
    BY <2>3, OneMore
  <2>5. ASSUME mpc \in {"store", "subtract"} PROVE Size[hand] \in Int
    BY <2>5, PoolAssumption DEF IInv, HandOK
  <2> QED
    BY <2>2, <2>4, <2>5 DEF Counted
<1>5. CASE DownloadFails(w)
  BY <1>2, <1>5 DEF DownloadFails
<1> QED
  BY <1>1, <1>3, <1>4, <1>5 DEF Worker

\* The main thread takes a note over, stores it, and subtracts its size.
LEMMA MainCounts ==
    ASSUME NEW g, Sums(g), IInv, Counted(g), MainThread \/ Interrupt \/ InterruptSubmit
    PROVE  Counted(g)'
<1> USE DEF Normal
<1>1. CASE Submit
  <2>1. Done' = Done
    BY <1>1 DEF Submit, Done, IInv, TypeOK, PlacesOK
  <2> QED
    BY <1>1, <2>1, SameCount DEF Submit
<1>2. ASSUME NEW n \in Notes, Consume(n)
      PROVE  Counted(g)'
  <2>1. CASE future[n] = "done"
    <3>1. n \in Done /\ Done' = Done \ {n} /\ Done \in SUBSET Notes
      BY <1>2, <2>1 DEF Consume, Done, IInv, TypeOK
    <3>2. /\ g[Done] = Size[n] + g[Done']
          /\ g[Done] \in Int /\ g[Done'] \in Int /\ Size[n] \in Int
      BY <3>1, OneMore
    <3>3. mpc = "consume" /\ mpc' = "store" /\ hand' = n /\ memory' = memory
      BY <1>2, <2>1 DEF Consume
    <3>4. memory = g[Done] + 0
      BY <3>3 DEF Counted
    <3> QED
      BY <3>2, <3>3, <3>4 DEF Counted
  <2>2. CASE future[n] # "done"
    <3>1. Done' = Done
      BY <1>2, <2>2 DEF Consume, Done, IInv, TypeOK
    <3>2. /\ UNCHANGED <<memory, hand>>
          /\ mpc' = mpc \/ mpc' = "abort"
      BY <1>2, <2>2 DEF Consume
    <3> QED
      BY <3>1, <3>2, SameCount
  <2> QED
    BY <2>1, <2>2
<1>3. CASE Subtract
  <2>1. Done' = Done /\ mpc = "subtract" /\ mpc' = "notify" /\ memory' = memory - Size[hand]
    BY <1>3 DEF Subtract, Done
  <2>2. Size[hand] \in Int /\ g[Done] \in Int
    BY <2>1, PoolAssumption DEF IInv, HandOK, Sums, Done
  <2>3. memory = g[Done] + Size[hand]
    BY <2>1 DEF Counted
  <2> QED
    BY <2>1, <2>2, <2>3 DEF Counted
<1>4. CASE AddNote
  BY <1>4, SameCount DEF AddNote, pool, Done
<1>5. CASE Notify
  <2>1. Done' = Done /\ mpc = "notify" /\ mpc' = "consume" /\ memory' = memory
    BY <1>5 DEF Notify, Done
  <2> QED
    BY <2>1 DEF Counted
<1>6. CASE ChunkDone
  BY <1>6, SameCount DEF ChunkDone, pool, Done
<1>7. CASE Shutdown
  BY <1>7, SameCount DEF Shutdown, pool, Done
<1>8. ASSUME SetStop \/ ResetMemory \/ ResetNotify \/ Interrupt \/ InterruptSubmit
      PROVE  Counted(g)'
  <2>1. mpc' \in {"reset", "resetNotify", "unwind", "abort"}
    BY <1>8 DEF SetStop, ResetMemory, ResetNotify, Interrupt, InterruptSubmit
  <2> QED
    BY <2>1 DEF Counted
<1> QED
  BY <1>1, <1>2, <1>3, <1>4, <1>5, <1>6, <1>7, <1>8 DEF MainThread

\* Between downloads and stores the counter is exactly the size of the notes
\* that are in memory and not written: the two threads that update it count
\* no note twice and forget none.
THEOREM AccountsForMemory == ASSUME IsFiniteSet(Notes) PROVE Spec => []MemoryAccounted
<1>1. PICK g \in [SUBSET Notes -> Int] :
         /\ g[{}] = 0 /\ AnyOrder(Size, Notes, g)
         /\ \A s \in SUBSET Notes : Total(Size, s) = g[s]
  <2>1. Size \in [Notes -> Int]
    BY PoolAssumption
  <2> QED
    BY <2>1, SumsOf
<1>2. Sums(g)
  BY <1>1 DEF Sums
<1>3. Init => Counted(g)
  <2> SUFFICES ASSUME Init PROVE Counted(g)
    OBVIOUS
  <2>1. Done = {} /\ memory = 0 /\ mpc = "submit"
    BY DEF Init, Done
  <2> QED
    BY <1>1, <2>1 DEF Counted
<1>4. ASSUME IInv, Counted(g), [Next]_vars
      PROVE  Counted(g)'
  <2>1. CASE UNCHANGED vars
    BY <1>4, <2>1, SameCount DEF vars, pool, main, Done
  <2>2. ASSUME NEW w \in Workers, Worker(w) \/ DownloadFails(w)
        PROVE  Counted(g)'
    BY <1>2, <1>4, <2>2, WorkerCounts
  <2>3. CASE MainThread \/ Interrupt \/ InterruptSubmit
    BY <1>2, <1>4, <2>3, MainCounts
  <2> QED
    BY <1>4, <2>1, <2>2, <2>3 DEF Next
<1>5. Counted(g) => MemoryAccounted
  <2>1. MapThenSumSet(LAMBDA n : Size[n], {n \in Notes : future[n] = "done"})
           = Total(Size, {n \in Notes : future[n] = "done"})
    BY DEF MapThenSumSet, MapThenFoldSet, Total, SumStep, AnyOf
  <2>2. Total(Size, {n \in Notes : future[n] = "done"}) = g[Done]
    BY <1>1 DEF Done
  <2> QED
    BY <2>1, <2>2 DEF Counted, MemoryAccounted, Normal
<1> QED
  BY <1>3, <1>4, <1>5, Invariance, PTL DEF Spec
============================================================================
