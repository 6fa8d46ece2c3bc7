---------------------------- MODULE BufferProofs ----------------------------
(***************************************************************************)
(* The bounded buffer of the threads is a ring, whatever its size is and   *)
(* whichever consumer takes an item, as long as the mutex is held from the *)
(* test of occupied to the change of the buffer: BufferInv.  And a call of *)
(* ecall_thread_functions comes to its end: no item is left over, and      *)
(* there is always a thread that can run, because the consumers take as    *)
(* many items as the producer puts: WorkInv.                               *)
(***************************************************************************)
EXTENDS ThreadFunctionsProofs

\* x in a ring of BUFFER_SIZE slots, when it goes round less than twice.
Once(x) == IF x < BUFFER_SIZE THEN x ELSE x - BUFFER_SIZE

LEMMA GoesRound ==
  ASSUME NEW x \in Nat, x < 2 * BUFFER_SIZE
  PROVE  x % BUFFER_SIZE = Once(x)
<1> DEFINE q == x \div BUFFER_SIZE
           r == x % BUFFER_SIZE
<1>1. BUFFER_SIZE \in Nat /\ BUFFER_SIZE > 0
  BY WhoIsWho
<1>2. q \in Int /\ r \in 0 .. BUFFER_SIZE - 1 /\ x = BUFFER_SIZE * q + r
  BY <1>1
<1> HIDE DEF q, r
<1>3. CASE q >= 2
  <2>1. BUFFER_SIZE * q >= BUFFER_SIZE * 2
    BY <1>1, <1>2, <1>3
  <2> QED
    BY <1>1, <1>2, <2>1
<1>4. CASE q <= -1
  <2>1. BUFFER_SIZE * q <= BUFFER_SIZE * (-1)
    BY <1>1, <1>2, <1>4
  <2> QED
    BY <1>1, <1>2, <2>1
<1>5. CASE q = 0
  BY <1>1, <1>2, <1>5 DEF Once, r
<1>6. CASE q = 1
  BY <1>1, <1>2, <1>6 DEF Once, r
<1> QED
  BY <1>2, <1>3, <1>4, <1>5, <1>6

\* The n slots from o on.
Occupied(o, n) == {(o + k) % BUFFER_SIZE : k \in 0 .. n - 1}

\* They are those from o to the end, and what goes round.
LEMMA OccupiedIs ==
  ASSUME NEW o \in Slots, NEW n \in 0 .. BUFFER_SIZE, NEW i \in Slots
  PROVE  i \in Occupied(o, n) <=> \/ o <= i /\ i < o + n
                                  \/ i < o /\ i + BUFFER_SIZE < o + n
<1>1. BUFFER_SIZE \in Nat /\ BUFFER_SIZE > 0
  BY WhoIsWho
<1>2. o \in Nat /\ o < BUFFER_SIZE /\ i \in Nat /\ i < BUFFER_SIZE
  BY <1>1 DEF Slots
<1>3. n \in Nat /\ n <= BUFFER_SIZE
  BY <1>1
<1>4. \A k \in 0 .. n - 1 : (o + k) % BUFFER_SIZE = Once(o + k)
  <2>1. ASSUME NEW k \in 0 .. n - 1
        PROVE  (o + k) % BUFFER_SIZE = Once(o + k)
    <3>1. o + k \in Nat /\ o + k < 2 * BUFFER_SIZE
      BY <1>1, <1>2, <1>3
    <3> QED
      BY <3>1, GoesRound
  <2> QED
    BY <2>1
<1>5. ASSUME i \in Occupied(o, n)
      PROVE  \/ o <= i /\ i < o + n
             \/ i < o /\ i + BUFFER_SIZE < o + n
  <2>1. PICK k \in 0 .. n - 1 : i = (o + k) % BUFFER_SIZE
    BY <1>5 DEF Occupied
  <2>2. i = Once(o + k)
    BY <1>4, <2>1
  <2> QED
    BY <1>1, <1>2, <1>3, <2>2 DEF Once
<1>6. ASSUME o <= i, i < o + n
      PROVE  i \in Occupied(o, n)
  <2>1. i - o \in 0 .. n - 1 /\ Once(o + (i - o)) = i
    BY <1>1, <1>2, <1>3, <1>6 DEF Once
  <2>2. i = (o + (i - o)) % BUFFER_SIZE
    BY <1>4, <2>1
  <2> QED
    BY <2>1, <2>2 DEF Occupied
<1>7. ASSUME i < o, i + BUFFER_SIZE < o + n
      PROVE  i \in Occupied(o, n)
  <2>1. /\ i + BUFFER_SIZE - o \in 0 .. n - 1
        /\ Once(o + (i + BUFFER_SIZE - o)) = i
    BY <1>1, <1>2, <1>3, <1>7 DEF Once
  <2>2. i = (o + (i + BUFFER_SIZE - o)) % BUFFER_SIZE
    BY <1>4, <2>1
  <2> QED
    BY <2>1, <2>2 DEF Occupied
<1> QED
  BY <1>5, <1>6, <1>7

-----------------------------------------------------------------------------
(* The two changes of the buffer *)

\* The end of the occupied slots, which nextin has to be.
EndOf(o, n) == (o + n) % BUFFER_SIZE

LEMMA EndIs ==
  ASSUME NEW o \in Slots, NEW n \in 0 .. BUFFER_SIZE
  PROVE  EndOf(o, n) = Once(o + n) /\ EndOf(o, n) \in Slots
<1>1. /\ BUFFER_SIZE \in Nat /\ BUFFER_SIZE > 0
      /\ o \in Nat /\ o < BUFFER_SIZE /\ n \in Nat /\ n <= BUFFER_SIZE
  BY WhoIsWho DEF Slots
<1>2. EndOf(o, n) = Once(o + n)
  BY <1>1, GoesRound DEF EndOf
<1> QED
  BY <1>1, <1>2 DEF Once, Slots

\* A slot more at the end.
LEMMA OccupiedGrows ==
  ASSUME NEW o \in Slots, NEW n \in 0 .. BUFFER_SIZE, n < BUFFER_SIZE
  PROVE  /\ EndOf(o, n + 1) = (EndOf(o, n) + 1) % BUFFER_SIZE
         /\ \A i \in Slots : i \in Occupied(o, n + 1) <=> i \in Occupied(o, n) \/ i = EndOf(o, n)
<1>1. /\ BUFFER_SIZE \in Nat /\ BUFFER_SIZE > 0
      /\ o \in Nat /\ o < BUFFER_SIZE /\ n \in Nat /\ n + 1 \in 0 .. BUFFER_SIZE
  BY WhoIsWho DEF Slots
<1>2. EndOf(o, n) = Once(o + n) /\ EndOf(o, n) \in Slots /\ EndOf(o, n + 1) = Once(o + (n + 1))
  BY <1>1, EndIs
<1>3. (EndOf(o, n) + 1) % BUFFER_SIZE = Once(EndOf(o, n) + 1)
  <2>1. EndOf(o, n) + 1 \in Nat /\ EndOf(o, n) + 1 < 2 * BUFFER_SIZE
    BY <1>1, <1>2 DEF Slots
  <2> QED
    BY <2>1, GoesRound
<1>4. Once(o + (n + 1)) = Once(Once(o + n) + 1)
  BY <1>1 DEF Once
<1>5. ASSUME NEW i \in Slots
      PROVE  i \in Occupied(o, n + 1) <=> i \in Occupied(o, n) \/ i = EndOf(o, n)
  <2>1. i \in Nat /\ i < BUFFER_SIZE
    BY <1>1 DEF Slots
  <2>2. i \in Occupied(o, n) <=> \/ o <= i /\ i < o + n
                                 \/ i < o /\ i + BUFFER_SIZE < o + n
    BY OccupiedIs
  <2>3. i \in Occupied(o, n + 1) <=> \/ o <= i /\ i < o + (n + 1)
                                     \/ i < o /\ i + BUFFER_SIZE < o + (n + 1)
    BY <1>1, OccupiedIs
  <2> QED
    BY <1>1, <1>2, <2>1, <2>2, <2>3 DEF Once
<1> QED
  BY <1>2, <1>3, <1>4, <1>5

\* A slot less at the beginning.
LEMMA OccupiedShrinks ==
  ASSUME NEW o \in Slots, NEW n \in 0 .. BUFFER_SIZE, n > 0
  PROVE  LET next == (o + 1) % BUFFER_SIZE
         IN  /\ EndOf(next, n - 1) = EndOf(o, n)
             /\ \A i \in Slots : i \in Occupied(next, n - 1) <=> i \in Occupied(o, n) /\ i # o
<1> DEFINE next == (o + 1) % BUFFER_SIZE
<1>1. /\ BUFFER_SIZE \in Nat /\ BUFFER_SIZE > 0
      /\ o \in Nat /\ o < BUFFER_SIZE /\ n \in Nat /\ n <= BUFFER_SIZE
      /\ n - 1 \in 0 .. BUFFER_SIZE
  BY WhoIsWho DEF Slots
<1>2. next = Once(o + 1) /\ next \in Slots
  <2>1. 1 \in 0 .. BUFFER_SIZE
    BY <1>1
  <2> QED
    BY <2>1, EndIs DEF EndOf
<1> HIDE DEF next
<1>3. EndOf(next, n - 1) = Once(next + (n - 1)) /\ EndOf(o, n) = Once(o + n)
  BY <1>1, <1>2, EndIs
<1>4. Once(next + (n - 1)) = Once(o + n)
  BY <1>1, <1>2 DEF Once
<1>5. ASSUME NEW i \in Slots
      PROVE  i \in Occupied(next, n - 1) <=> i \in Occupied(o, n) /\ i # o
  <2>1. i \in Nat /\ i < BUFFER_SIZE
    BY <1>1 DEF Slots
  <2>2. i \in Occupied(o, n) <=> \/ o <= i /\ i < o + n
                                 \/ i < o /\ i + BUFFER_SIZE < o + n
    BY OccupiedIs
  <2>3. i \in Occupied(next, n - 1) <=> \/ next <= i /\ i < next + (n - 1)
                                        \/ i < next /\ i + BUFFER_SIZE < next + (n - 1)
    BY <1>1, <1>2, OccupiedIs
  <2> QED
    BY <1>1, <1>2, <2>1, <2>2, <2>3 DEF Once
<1> QED
  BY <1>3, <1>4, <1>5 DEF next

-----------------------------------------------------------------------------

LEMMA RingIs ==
  RingHolds <=> /\ buffer.nextin = EndOf(buffer.nextout, buffer.occupied)
                /\ \A i \in Slots : buffer.buf[i] =
                     IF i \in Occupied(buffer.nextout, buffer.occupied) THEN i ELSE 0
BY DEF RingHolds, EndOf, Occupied

LEMMA RingIsNext ==
  RingHolds' <=> /\ buffer'.nextin = EndOf(buffer'.nextout, buffer'.occupied)
                 /\ \A i \in Slots : buffer'.buf[i] =
                      IF i \in Occupied(buffer'.nextout, buffer'.occupied) THEN i ELSE 0
BY DEF RingHolds, EndOf, Occupied, Slots

LEMMA PutsKeepsRing ==
  ASSUME BufferInv, RingHolds, ProducerPuts
  PROVE  RingHolds'
<1> DEFINE o == buffer.nextout
           n == buffer.occupied
<1>1. /\ o \in Slots /\ n \in 0 .. BUFFER_SIZE /\ n < BUFFER_SIZE
      /\ buffer.buf \in [Slots -> Slots] /\ buffer.nextin \in Slots
  BY DEF BufferInv, Numbers, ProducerPuts, Goes
<1>2. /\ buffer.nextin = EndOf(o, n)
      /\ \A i \in Slots : buffer.buf[i] = IF i \in Occupied(o, n) THEN i ELSE 0
  BY RingIs
<1>3. /\ buffer'.buf = [buffer.buf EXCEPT ![buffer.nextin] = buffer.nextin]
      /\ buffer'.occupied = n + 1 /\ buffer'.nextout = o
      /\ buffer'.nextin = (buffer.nextin + 1) % BUFFER_SIZE
  BY DEF ProducerPuts
<1> HIDE DEF o, n
<1>4. buffer'.nextin = EndOf(o, n + 1)
  BY <1>1, <1>2, <1>3, OccupiedGrows
<1>5. ASSUME NEW i \in Slots
      PROVE  buffer'.buf[i] = IF i \in Occupied(o, n + 1) THEN i ELSE 0
  <2>1. i \in Occupied(o, n + 1) <=> i \in Occupied(o, n) \/ i = EndOf(o, n)
    BY <1>1, OccupiedGrows
  <2>2. CASE i = buffer.nextin
    BY <1>1, <1>2, <1>3, <2>1, <2>2
  <2>3. CASE i # buffer.nextin
    BY <1>1, <1>2, <1>3, <2>1, <2>3
  <2> QED
    BY <2>2, <2>3
<1> QED
  BY <1>3, <1>4, <1>5, RingIsNext

LEMMA TakesKeepsRing ==
  ASSUME BufferInv, RingHolds, NEW t \in Consumers, ConsumerTakes(t)
  PROVE  RingHolds'
<1> DEFINE o == buffer.nextout
           n == buffer.occupied
           next == (o + 1) % BUFFER_SIZE
<1>1. /\ o \in Slots /\ n \in 0 .. BUFFER_SIZE /\ n > 0
      /\ buffer.buf \in [Slots -> Slots]
  BY DEF BufferInv, Numbers, ConsumerTakes, Goes
<1>2. /\ buffer.nextin = EndOf(o, n)
      /\ \A i \in Slots : buffer.buf[i] = IF i \in Occupied(o, n) THEN i ELSE 0
  BY RingIs
<1>3. /\ buffer'.buf = [buffer.buf EXCEPT ![o] = 0]
      /\ buffer'.occupied = n - 1 /\ buffer'.nextout = next
      /\ buffer'.nextin = buffer.nextin
  BY DEF ConsumerTakes
<1>4. /\ EndOf(next, n - 1) = EndOf(o, n)
      /\ \A i \in Slots : i \in Occupied(next, n - 1) <=> i \in Occupied(o, n) /\ i # o
  BY <1>1, OccupiedShrinks
<1> HIDE DEF o, n, next
<1>5. ASSUME NEW i \in Slots
      PROVE  buffer'.buf[i] = IF i \in Occupied(next, n - 1) THEN i ELSE 0
  <2>1. CASE i = o
    BY <1>1, <1>3, <1>4, <2>1
  <2>2. CASE i # o
    BY <1>1, <1>2, <1>3, <1>4, <2>2
  <2> QED
    BY <2>1, <2>2
<1> QED
  BY <1>2, <1>3, <1>4, <1>5, RingIsNext

\* Every other step leaves the buffer alone.
LEMMA StepRing == BufferInv /\ RingHolds /\ [Next]_threadVars => RingHolds'
<1> SUFFICES ASSUME BufferInv, RingHolds, [Next]_threadVars
             PROVE  RingHolds'
  OBVIOUS
<1>0. ASSUME buffer' = buffer
      PROVE  RingHolds'
  BY <1>0, RingIs, RingIsNext
<1>1. CASE Aside
  <2>1. pc \in [Threads -> Steps]
    BY DEF BufferInv
  <2> QED
    BY <1>0, <1>1, <2>1, AsideLeavesBuffer DEF buffering
<1>2. CASE ThreadsStart \/ UNCHANGED threadVars
  BY <1>0, <1>2 DEF ThreadsStart, threadVars, buffering
<1>3. CASE Produce
  <2>1. CASE ProducerPuts
    BY <2>1, PutsKeepsRing
  <2>2. CASE \/ BufferLocks(Producer) \/ ProducerWaits \/ ProducerFindsRoom
             \/ ProducerSignals \/ BufferUnlocks(Producer)
    BY <1>0, <2>2 DEF BufferLocks, ProducerWaits, ProducerFindsRoom,
                      ProducerSignals, Signals, BufferUnlocks, buffering
  <2> QED
    BY <1>3, <2>1, <2>2 DEF Produce
<1>4. ASSUME NEW t \in Consumers, Consume(t)
      PROVE  RingHolds'
  <2>1. CASE ConsumerTakes(t)
    BY <2>1, TakesKeepsRing
  <2>2. CASE \/ BufferLocks(t) \/ ConsumerWaits(t) \/ ConsumerFindsItem(t)
             \/ ConsumerSignals(t) \/ BufferUnlocks(t)
    BY <1>0, <2>2 DEF BufferLocks, ConsumerWaits, ConsumerFindsItem,
                      ConsumerSignals, Signals, BufferUnlocks, buffering
  <2> QED
    BY <1>4, <2>1, <2>2 DEF Consume
<1> QED
  BY <1>1, <1>2, <1>3, <1>4 DEF Next, Aside

LEMMA InitRing == Init => RingHolds
<1> SUFFICES ASSUME Init PROVE RingHolds
  OBVIOUS
<1>1. /\ buffer.nextin = 0 /\ buffer.nextout = 0 /\ buffer.occupied = 0
      /\ buffer.buf = [i \in Slots |-> 0]
  BY DEF Init
<1>2. 0 \in Slots /\ 0 \in 0 .. BUFFER_SIZE /\ BUFFER_SIZE > 0
  BY WhoIsWho DEF Slots
<1>3. EndOf(0, 0) = 0
  BY <1>2, EndIs DEF Once
<1>4. Occupied(0, 0) = {}
  BY DEF Occupied
<1> QED
  BY <1>1, <1>3, <1>4, RingIs

(***************************************************************************)
(* For any number of consumers and rounds and any size: the occupied slots *)
(* of the buffer are those from nextout to nextin, each holds what the     *)
(* producer stored in it, and the others are zero.                         *)
(***************************************************************************)
THEOREM BufferIsARing == Spec => []RingHolds
<1>1. BufferInv /\ RingHolds /\ [Next]_threadVars => BufferInv' /\ RingHolds'
  BY StepBufferInv, StepRing
<1> QED
  BY <1>1, InitBufferInv, InitRing, PTL DEF Spec

-----------------------------------------------------------------------------
(***************************************************************************)
(* The end of a call.  What is in the buffer and what the producer has     *)
(* still to put are as many items as the consumers have still to take: so  *)
(* nobody is left waiting for an item, or for room, that never comes.      *)
(***************************************************************************)

WorkerSteps == {"lock", "test", "wait", "change", "signal", "unlock", "done"}

\* A mutex is held by a thread that is going to free it; the workers wait for
\* the adders, and main for all of them.
HolderInv ==
  /\ \A t \in Workers : pc[t] \in WorkerSteps
  /\ mutex # Nobody => mutex \in Workers /\ pc[mutex] \in Critical
  /\ global_mutex # Nobody => global_mutex \in Adders /\ pc[global_mutex] \in Exclusive
  /\ main = "adding" => \A t \in Workers : pc[t] = "lock" /\ loop[t] = 0
  /\ main = "idle" => \A t \in Workers : pc[t] = "done"

\* The items that worker t has put or taken in this call.
Moved(t) ==
  IF pc[t] \in Resting THEN Rounds(t)
  ELSE IF pc[t] \in {"signal", "unlock"} THEN loop[t] + 1 ELSE loop[t]

\* The rounds in which the consumers have still to take an item.
ToTake == {r \in Consumers \X (0 .. LOOPS_PER_THREAD - 1) : r[2] >= Moved(r[1])}

WorkInv == buffer.occupied + (Total - Moved(Producer)) = Cardinality(ToTake)

-----------------------------------------------------------------------------
(* Who holds the mutexes *)

LEMMA WorkersAre ==
  /\ Producer \in Workers /\ Producer \in Threads
  /\ \A t \in Consumers : t \in Workers /\ t \in Threads /\ t # Producer
  /\ \A t \in Workers : t = Producer \/ t \in Consumers
  /\ \A t \in Workers : t \in Threads /\ t # Nobody /\ t \notin Adders
  /\ \A t \in Adders : t \in Threads /\ t # Nobody /\ t \notin Workers
BY WhoIsWho, ThreadFunctionsAssumption DEF Workers, Threads

LEMMA StepsAre ==
  /\ {"lock", "test", "wait", "change", "signal", "unlock", "done"} \subseteq Steps
  /\ {"lock", "load", "add", "compare", "unlock", "return", "done"} \subseteq Steps
  /\ "done" \in Resting /\ "return" \in Resting
  /\ {"lock", "test", "wait", "change", "signal", "unlock"} \cap Resting = {}
BY DEF Steps, Resting

\* An adder's step, for the workers and for global_mutex.
LEMMA AdderHolds ==
  ASSUME pc \in [Threads -> Steps], loop \in [Threads -> 0 .. Total],
         NEW t \in Adders, Adder(t),
         global_mutex # Nobody => global_mutex \in Adders /\ pc[global_mutex] \in Exclusive
  PROVE  /\ \A u \in Workers : pc'[u] = pc[u] /\ loop'[u] = loop[u]
         /\ UNCHANGED <<main, buffering>>
         /\ global_mutex' # Nobody =>
              global_mutex' \in Adders /\ pc'[global_mutex'] \in Exclusive
<1>0. /\ t \in Threads /\ t # Nobody
      /\ \A u \in Workers : u \in Threads /\ u # t
      /\ \A u \in Adders : u \in Threads
  BY WorkersAre
<1>1. UNCHANGED <<main, buffering>>
  BY DEF Adder, AdderLocks, AdderLoads, AdderAdds, AdderCompares, AdderUnlocks,
         AdderReturns
<1>2. CASE AdderUnlocks(t)
  <2>1. NextRound(t, "return") /\ global_mutex' = Nobody
    BY <1>2 DEF AdderUnlocks
  <2>2. \A u \in Threads : u # t => pc'[u] = pc[u]
    BY <1>0, <2>1, NextRoundMoves, StepsAre
  <2>3. \A u \in Threads : u # t => loop'[u] = loop[u]
    BY <1>0, <2>1 DEF NextRound
  <2> QED
    BY <1>0, <1>1, <2>1, <2>2, <2>3
<1>3. CASE AdderLocks(t)
  <2>1. Goes(t, "lock", "load") /\ global_mutex' = t /\ loop' = loop
    BY <1>3 DEF AdderLocks
  <2>2. pc'[t] = "load" /\ \A u \in Threads : u # t => pc'[u] = pc[u]
    BY <1>0, <2>1, GoesMoves, StepsAre
  <2> QED
    BY <1>0, <1>1, <2>1, <2>2 DEF Exclusive
<1>4. CASE AdderReturns(t)
  <2>1. Goes(t, "return", "done") /\ global_mutex' = global_mutex /\ loop' = loop
    BY <1>4 DEF AdderReturns
  <2>2. pc[t] = "return" /\ \A u \in Threads : u # t => pc'[u] = pc[u]
    BY <1>0, <2>1, GoesMoves, StepsAre
  <2>3. global_mutex # t
    BY <1>0, <2>2 DEF Exclusive
  <2> QED
    BY <1>0, <1>1, <2>1, <2>2, <2>3
<1>5. CASE AdderLoads(t) \/ AdderAdds(t) \/ AdderCompares(t)
  <2>1. PICK a \in {"load", "add", "compare"}, b \in {"add", "compare", "unlock"} :
          Goes(t, a, b) /\ global_mutex' = global_mutex /\ loop' = loop
    BY <1>5 DEF AdderLoads, AdderAdds, AdderCompares
  <2>2. b \in Steps /\ b \in Exclusive
    BY StepsAre DEF Exclusive
  <2>3. pc'[t] = b /\ \A u \in Threads : u # t => pc'[u] = pc[u]
    BY <1>0, <2>1, <2>2, GoesMoves
  <2> QED
    BY <1>0, <1>1, <2>1, <2>2, <2>3
<1> QED
  BY <1>2, <1>3, <1>4, <1>5 DEF Adder

(***************************************************************************)
(* A worker's step: it holds the mutex or frees it, and has moved one item *)
(* more when it changes the buffer.  Nobody else is concerned, but for one *)
(* it may wake.                                                            *)
(***************************************************************************)
WorkerMoves(t) ==
  /\ main = "buffering" /\ UNCHANGED <<main, global_mutex>>
  /\ mutex' \in {t, Nobody} /\ (mutex' = t => pc'[t] \in Critical)
  /\ \A u \in Workers : pc'[u] \in WorkerSteps
  /\ \A u \in Adders : pc'[u] = pc[u]
  /\ \A u \in Workers : u # t => Moved(u)' = Moved(u)
  /\ Moved(t)' = IF pc[t] = "change" THEN Moved(t) + 1 ELSE Moved(t)
  /\ pc[t] # "change" => buffer' = buffer

\* A step from one place in the loop's body to the next.
LEMMA WorkerGoes ==
  ASSUME BufferInv, HolderInv, NEW t \in Workers,
         NEW a \in {"lock", "test", "change"},
         NEW b \in {"test", "wait", "change", "signal"},
         Goes(t, a, b), b = "signal" <=> a = "change", loop' = loop,
         main = "buffering", UNCHANGED <<main, global_mutex>>,
         mutex' \in {t, Nobody}, b = "wait" => mutex' = Nobody,
         a # "change" => buffer' = buffer
  PROVE  WorkerMoves(t)
<1>0. pc \in [Threads -> Steps] /\ b \in Steps /\ t \in Threads
  BY StepsAre, WorkersAre DEF BufferInv
<1>1. /\ pc[t] = a /\ pc'[t] = b
      /\ \A u \in Threads : u # t => pc'[u] = pc[u]
  BY <1>0, GoesMoves
<1>2. /\ \A u \in Workers : u \in Threads
      /\ \A u \in Adders : u \in Threads /\ u # t
  BY WorkersAre
<1>3. \A u \in Workers : pc'[u] \in WorkerSteps
  BY <1>1, <1>2 DEF HolderInv, WorkerSteps
<1>4. \A u \in Workers : u # t => Moved(u)' = Moved(u)
  BY <1>1, <1>2 DEF Moved, Rounds
<1>5. Moved(t) = loop[t] /\ Moved(t)' = IF a = "change" THEN loop[t] + 1 ELSE loop[t]
  BY <1>1, StepsAre DEF Moved
<1>6. mutex' = t => pc'[t] \in Critical
  BY <1>1, WorkersAre DEF Critical
<1> QED
  BY <1>1, <1>2, <1>3, <1>4, <1>5, <1>6 DEF WorkerMoves

LEMMA WorkerSignals ==
  ASSUME BufferInv, HolderInv, NEW t \in Workers, main = "buffering",
         NEW waiting \in SUBSET Workers, NEW rest, Signals(t, waiting, rest),
         \A w \in waiting : pc[w] = "wait"
  PROVE  WorkerMoves(t)
<1>0. /\ pc \in [Threads -> Steps] /\ t \in Threads /\ waiting \in SUBSET Threads
      /\ \A u \in Workers : u \in Threads
      /\ \A u \in Adders : u \in Threads /\ u # t /\ u \notin waiting
  BY WorkersAre DEF BufferInv
<1>1. UNCHANGED <<main, global_mutex, loop, mutex, buffer>>
  BY DEF Signals, adding
<1>2. /\ pc[t] = "signal" /\ pc'[t] = "unlock"
      /\ \A u \in Threads : u # t =>
           pc'[u] = pc[u] \/ (u \in waiting /\ pc[u] = "wait" /\ pc'[u] = "lock")
  <2>1. waiting \in SUBSET Threads /\ \A w \in waiting : pc[w] = "wait"
    BY <1>0
  <2>2. /\ pc[t] = "signal" /\ pc'[t] = "unlock"
        /\ pc' \in [Threads -> Steps]
        /\ \/ /\ waiting = {} /\ rest = {}
              /\ \A u \in Threads : u # t => pc'[u] = pc[u]
           \/ \E w \in waiting :
                /\ w # t /\ rest = waiting \ {w} /\ pc'[w] = "lock"
                /\ \A u \in Threads : u # t /\ u # w => pc'[u] = pc[u]
    BY <1>0, <2>1, SignalMoves
  <2> QED
    BY <2>1, <2>2
<1>3. mutex = t
  BY <1>2 DEF BufferInv, Critical
<1>4. \A u \in Workers : pc'[u] \in WorkerSteps
  BY <1>0, <1>2 DEF HolderInv, WorkerSteps
<1>5. \A u \in Adders : pc'[u] = pc[u]
  BY <1>0, <1>2
<1>6. ASSUME NEW u \in Workers
      PROVE  Moved(u)' = Moved(u)
  <2>1. CASE pc'[u] = pc[u]
    BY <1>1, <2>1 DEF Moved, Rounds
  <2>2. CASE pc[u] = "wait" /\ pc'[u] = "lock"
    BY <1>1, <2>2, StepsAre DEF Moved
  <2>3. CASE pc[u] = "signal" /\ pc'[u] = "unlock"
    BY <1>1, <2>3, StepsAre DEF Moved
  <2> QED
    BY <1>0, <1>2, <2>1, <2>2, <2>3
<1> QED
  BY <1>1, <1>2, <1>3, <1>4, <1>5, <1>6 DEF WorkerMoves, Critical

LEMMA WorkerUnlocks ==
  ASSUME BufferInv, LoopInv, HolderInv, NEW t \in Workers, main = "buffering",
         BufferUnlocks(t)
  PROVE  WorkerMoves(t)
<1>0. /\ pc \in [Threads -> Steps] /\ t \in Threads /\ "done" \in Resting
      /\ \A u \in Workers : u \in Threads
      /\ \A u \in Adders : u \in Threads /\ u # t
  BY WorkersAre, StepsAre DEF BufferInv
<1>1. NextRound(t, "done") /\ mutex' = Nobody /\ UNCHANGED <<main, global_mutex, buffer>>
  BY DEF BufferUnlocks, adding
<1>2. /\ pc[t] = "unlock" /\ pc'[t] \in {"lock", "done"}
      /\ \A u \in Threads : u # t => pc'[u] = pc[u]
  BY <1>0, <1>1, NextRoundMoves, StepsAre
<1>3. /\ loop[t] < Rounds(t) /\ loop'[t] = loop[t] + 1
      /\ pc'[t] = IF loop[t] + 1 < Rounds(t) THEN "lock" ELSE "done"
      /\ \A u \in Threads : u # t => loop'[u] = loop[u]
  BY <1>0, <1>1, RoundsAreCounted
<1>4. \A u \in Workers : u # t => Moved(u)' = Moved(u)
  BY <1>0, <1>2, <1>3 DEF Moved, Rounds
<1>5. Moved(t)' = Moved(t)
  <2>1. /\ loop[t] \in Nat /\ Rounds(t) \in Nat /\ Rounds(t)' = Rounds(t)
    BY <1>0, Totals DEF LoopInv, Rounds
  <2>2. Moved(t) = loop[t] + 1
    BY <1>2, StepsAre DEF Moved
  <2>3. Moved(t)' = IF loop[t] + 1 < Rounds(t) THEN loop[t] + 1 ELSE Rounds(t)
    BY <1>3, <2>1, StepsAre DEF Moved
  <2> QED
    BY <1>3, <2>1, <2>2, <2>3
<1>6. \A u \in Workers : pc'[u] \in WorkerSteps
  BY <1>0, <1>2 DEF HolderInv, WorkerSteps
<1> QED
  BY <1>0, <1>1, <1>2, <1>4, <1>5, <1>6, WorkersAre DEF WorkerMoves

LEMMA WorkersMove ==
  ASSUME BufferInv, LoopInv, CounterInv, HolderInv,
         Produce \/ \E t \in Consumers : Consume(t)
  PROVE  \E t \in Workers :
           /\ WorkerMoves(t)
           /\ pc[t] = "change" => IF t = Producer THEN ProducerPuts ELSE ConsumerTakes(t)
<1>0. /\ \A t \in Workers : pc[t] \in Critical => mutex = t
      /\ main \in {"idle", "adding", "buffering"}
  BY DEF BufferInv, CounterInv
<1>1. ASSUME NEW t \in Workers, pc[t] \notin {"lock", "done"}
      PROVE  main = "buffering"
  BY <1>0, <1>1 DEF HolderInv
<1>2. ASSUME NEW t \in Workers, BufferLocks(t)
      PROVE  WorkerMoves(t) /\ pc[t] # "change"
  <2>1. /\ Goes(t, "lock", "test") /\ loop' = loop /\ main = "buffering" /\ mutex' = t
        /\ UNCHANGED <<main, global_mutex, buffer>>
    BY <1>2 DEF BufferLocks, adding
  <2>2. WorkerMoves(t)
    BY <2>1, WorkerGoes
  <2> QED
    BY <2>1, <2>2 DEF Goes
<1>3. ASSUME NEW t \in Workers, (ProducerWaits /\ t = Producer) \/ ConsumerWaits(t)
      PROVE  WorkerMoves(t) /\ pc[t] # "change"
  <2>1. /\ Goes(t, "test", "wait") /\ loop' = loop /\ mutex' = Nobody
        /\ UNCHANGED <<main, global_mutex, buffer>>
    BY <1>3 DEF ProducerWaits, ConsumerWaits, adding
  <2>2. main = "buffering"
    BY <1>1, <2>1 DEF Goes
  <2>3. WorkerMoves(t)
    BY <2>1, <2>2, WorkerGoes
  <2> QED
    BY <2>1, <2>3 DEF Goes
<1>4. ASSUME NEW t \in Workers,
             (ProducerFindsRoom /\ t = Producer) \/ ConsumerFindsItem(t)
      PROVE  WorkerMoves(t) /\ pc[t] # "change"
  <2>1. /\ Goes(t, "test", "change") /\ loop' = loop /\ mutex' = mutex
        /\ UNCHANGED <<main, global_mutex, buffer>>
    BY <1>4 DEF ProducerFindsRoom, ConsumerFindsItem, adding, buffering
  <2>2. main = "buffering" /\ mutex = t
    BY <1>0, <1>1, <2>1 DEF Goes, Critical
  <2>3. WorkerMoves(t)
    BY <2>1, <2>2, WorkerGoes
  <2> QED
    BY <2>1, <2>3 DEF Goes
<1>5. ASSUME NEW t \in Workers, (ProducerPuts /\ t = Producer) \/ ConsumerTakes(t)
      PROVE  WorkerMoves(t)
  <2>1. /\ Goes(t, "change", "signal") /\ loop' = loop /\ mutex' = mutex
        /\ UNCHANGED <<main, global_mutex>>
    BY <1>5 DEF ProducerPuts, ConsumerTakes, adding
  <2>2. main = "buffering" /\ mutex = t
    BY <1>0, <1>1, <2>1 DEF Goes, Critical
  <2> QED
    BY <2>1, <2>2, WorkerGoes
<1>6. ASSUME NEW t \in Workers, (ProducerSignals /\ t = Producer) \/ ConsumerSignals(t)
      PROVE  WorkerMoves(t) /\ pc[t] # "change"
  <2>1. \/ Signals(t, more, more')
        \/ Signals(t, less, less')
    BY <1>6 DEF ProducerSignals, ConsumerSignals
  <2>2. pc[t] = "signal"
    BY <2>1 DEF Signals
  <2>3. main = "buffering"
    BY <1>1, <2>2
  <2>4. /\ more \in SUBSET Workers /\ \A w \in more : pc[w] = "wait"
        /\ less \in SUBSET Workers /\ \A w \in less : pc[w] = "wait"
    BY WorkersAre DEF BufferInv
  <2>5. WorkerMoves(t)
    BY <2>1, <2>3, <2>4, WorkerSignals
  <2> QED
    BY <2>2, <2>5
<1>7. ASSUME NEW t \in Workers, BufferUnlocks(t)
      PROVE  WorkerMoves(t) /\ pc[t] # "change"
  <2>1. pc[t] = "unlock"
    BY <1>7 DEF BufferUnlocks, NextRound, Goes
  <2>2. main = "buffering"
    BY <1>1, <2>1
  <2> QED
    BY <1>7, <2>1, <2>2, WorkerUnlocks
<1>8. CASE Produce
  <2>1. Producer \in Workers
    BY WorkersAre
  <2> QED
    BY <1>2, <1>3, <1>4, <1>5, <1>6, <1>7, <1>8, <2>1 DEF Produce
<1>9. ASSUME NEW t \in Consumers, Consume(t)
      PROVE  WorkerMoves(t) /\ (pc[t] = "change" => ConsumerTakes(t))
  <2>1. t \in Workers
    BY WorkersAre
  <2> QED
    BY <1>2, <1>3, <1>4, <1>5, <1>6, <1>7, <1>9, <2>1 DEF Consume
<1> QED
  BY <1>8, <1>9, WorkersAre

LEMMA StepHolderInv ==
  ASSUME BufferInv, LoopInv, CounterInv, HolderInv, [Next]_threadVars
  PROVE  HolderInv'
<1>0. pc \in [Threads -> Steps] /\ loop \in [Threads -> 0 .. Total]
  BY DEF BufferInv, LoopInv
<1>1. CASE Produce \/ \E t \in Consumers : Consume(t)
  <2>1. PICK t \in Workers : WorkerMoves(t)
    BY <1>1, WorkersMove
  <2> QED
    BY <2>1, WorkersAre DEF WorkerMoves, HolderInv
<1>2. ASSUME NEW t \in Adders, Adder(t)
      PROVE  HolderInv'
  <2>1. /\ \A u \in Workers : pc'[u] = pc[u] /\ loop'[u] = loop[u]
        /\ UNCHANGED <<main, mutex>>
        /\ global_mutex' # Nobody =>
             global_mutex' \in Adders /\ pc'[global_mutex'] \in Exclusive
    BY <1>0, <1>2, AdderHolds DEF HolderInv, buffering
  <2> QED
    BY <2>1 DEF HolderInv
<1>3. CASE ThreadsStart
  <2>1. /\ \A t \in Threads : pc[t] = "done" /\ pc'[t] = "lock" /\ loop'[t] = 0
        /\ main' = "adding" /\ UNCHANGED <<mutex, global_mutex>>
    BY <1>3 DEF ThreadsStart, adding, buffering
  <2>2. mutex = Nobody /\ global_mutex = Nobody
    BY <2>1, WorkersAre DEF HolderInv, Critical, Exclusive
  <2> QED
    BY <2>1, <2>2, WorkersAre DEF HolderInv, WorkerSteps
<1>4. CASE AddersJoined
  BY <1>4 DEF AddersJoined, adding, buffering, HolderInv
<1>5. CASE AllJoined
  <2>1. /\ \A t \in Threads : pc[t] = "done"
        /\ main' = "idle" /\ UNCHANGED <<pc, loop, mutex, global_mutex>>
    BY <1>5 DEF AllJoined, adding, buffering
  <2> QED
    BY <2>1, WorkersAre DEF HolderInv
<1>6. CASE UNCHANGED threadVars
  BY <1>6 DEF threadVars, adding, buffering, HolderInv
<1> QED
  BY <1>1, <1>2, <1>3, <1>4, <1>5, <1>6 DEF Next

-----------------------------------------------------------------------------
(* The items of a call *)

LEMMA AllItems ==
  /\ IsFiniteSet(Consumers \X (0 .. LOOPS_PER_THREAD - 1))
  /\ Cardinality(Consumers \X (0 .. LOOPS_PER_THREAD - 1)) = Total
<1> DEFINE rounds == 0 .. LOOPS_PER_THREAD - 1
<1>1. IsFiniteSet(rounds) /\ Cardinality(rounds) = LOOPS_PER_THREAD
  BY Totals, FS_Interval
<1> HIDE DEF rounds
<1>2. IsFiniteSet(Consumers) /\ Cardinality(Consumers) = Cardinality(Adders)
  BY ThreadFunctionsAssumption
<1>3. /\ IsFiniteSet(Consumers \X rounds)
      /\ Cardinality(Consumers \X rounds) = Cardinality(Consumers) * Cardinality(rounds)
  BY <1>1, <1>2, FS_Product
<1> QED
  BY <1>1, <1>2, <1>3 DEF Total, rounds

LEMMA ToTakeIsFinite ==
  /\ IsFiniteSet(ToTake) /\ Cardinality(ToTake) \in Nat
  /\ (\A t \in Consumers : Moved(t) = 0) => Cardinality(ToTake) = Total
  /\ (\A t \in Consumers : Moved(t) = LOOPS_PER_THREAD) => Cardinality(ToTake) = 0
<1> DEFINE all == Consumers \X (0 .. LOOPS_PER_THREAD - 1)
<1>1. LOOPS_PER_THREAD \in Nat
  BY Totals
<1>2. IsFiniteSet(all) /\ Cardinality(all) = Total
  BY AllItems
<1>3. ToTake \subseteq all
  BY DEF ToTake
<1>4. IsFiniteSet(ToTake) /\ Cardinality(ToTake) \in Nat
  BY <1>2, <1>3, FS_Subset, FS_CardinalityType
<1>5. ASSUME \A t \in Consumers : Moved(t) = 0
      PROVE  Cardinality(ToTake) = Total
  <2>1. ToTake = all
    BY <1>1, <1>5 DEF ToTake
  <2> QED
    BY <1>2, <2>1
<1>6. ASSUME \A t \in Consumers : Moved(t) = LOOPS_PER_THREAD
      PROVE  Cardinality(ToTake) = 0
  <2>1. ToTake = {}
    BY <1>1, <1>6 DEF ToTake
  <2> QED
    BY <2>1, FS_EmptySet
<1> QED
  BY <1>4, <1>5, <1>6

\* Nobody puts or takes.
LEMMA WorkKept ==
  ASSUME WorkInv, \A t \in Workers : Moved(t)' = Moved(t), buffer' = buffer
  PROVE  WorkInv'
<1>1. ToTake' = ToTake
  BY WorkersAre DEF ToTake
<1> QED
  BY <1>1, WorkersAre DEF WorkInv, Total

LEMMA WorkersAtRest ==
  ASSUME WorkInv, BufferInv, \A t \in Workers : pc[t] = "done"
  PROVE  buffer.occupied = 0
<1>1. \A t \in Workers : Moved(t) = Rounds(t)
  BY StepsAre DEF Moved
<1>2. Moved(Producer) = Total /\ Cardinality(ToTake) = 0
  BY <1>1, WorkersAre, ToTakeIsFinite DEF Rounds
<1> QED
  BY <1>2, Totals DEF WorkInv, BufferInv, Numbers

LEMMA WorkersAtStart ==
  ASSUME \A t \in Workers : pc[t] = "lock" /\ loop[t] = 0
  PROVE  Total - Moved(Producer) = Total /\ Cardinality(ToTake) = Total
<1>1. \A t \in Workers : Moved(t) = 0
  BY StepsAre DEF Moved
<1> QED
  BY <1>1, WorkersAre, ToTakeIsFinite, Totals

LEMMA StepWorkInv ==
  ASSUME BufferInv, LoopInv, CounterInv, HolderInv, WorkInv, [Next]_threadVars
  PROVE  WorkInv'
<1>0. /\ pc \in [Threads -> Steps] /\ loop \in [Threads -> 0 .. Total]
      /\ buffer.occupied \in Nat /\ Total \in Nat
  BY Totals DEF BufferInv, LoopInv, Numbers
<1>1. CASE Produce \/ \E t \in Consumers : Consume(t)
  <2>1. PICK t \in Workers :
          /\ WorkerMoves(t)
          /\ pc[t] = "change" => IF t = Producer THEN ProducerPuts ELSE ConsumerTakes(t)
    BY <1>1, WorkersMove
  <2>2. CASE pc[t] # "change"
    BY <2>1, <2>2, WorkKept DEF WorkerMoves
  <2>3. CASE pc[t] = "change" /\ t = Producer
    <3>1. buffer'.occupied = buffer.occupied + 1
      BY <2>1, <2>3 DEF ProducerPuts
    <3>2. /\ Moved(Producer)' = Moved(Producer) + 1
          /\ \A u \in Consumers : Moved(u)' = Moved(u)
      BY <2>1, <2>3, WorkersAre DEF WorkerMoves
    <3>3. Moved(Producer) \in Nat
      <4>1. Moved(Producer) = loop[Producer]
        BY <2>3, StepsAre DEF Moved
      <4> QED
        BY <1>0, <4>1, WorkersAre
    <3>4. ToTake' = ToTake /\ Total' = Total
      BY <3>2 DEF ToTake, Total
    <3> QED
      BY <1>0, <3>1, <3>2, <3>3, <3>4 DEF WorkInv
  <2>4. CASE pc[t] = "change" /\ t # Producer
    <3>1. /\ buffer'.occupied = buffer.occupied - 1
          /\ t \in Consumers /\ t \in Threads
      BY <2>1, <2>4, WorkersAre DEF ConsumerTakes
    <3>2. /\ Moved(Producer)' = Moved(Producer) /\ Moved(t)' = Moved(t) + 1
          /\ \A u \in Consumers : u # t => Moved(u)' = Moved(u)
      BY <2>1, <2>4, WorkersAre DEF WorkerMoves
    <3>3. Moved(t) = loop[t] /\ loop[t] \in 0 .. LOOPS_PER_THREAD - 1
      <4>1. Moved(t) = loop[t] /\ loop[t] < Rounds(t)
        BY <2>4, <3>1, StepsAre DEF Moved, LoopInv
      <4>2. Rounds(t) = LOOPS_PER_THREAD /\ LOOPS_PER_THREAD \in Nat
        BY <2>4, Totals DEF Rounds
      <4> QED
        BY <1>0, <3>1, <4>1, <4>2
    <3>4. ToTake' = ToTake \ {<<t, loop[t]>>} /\ <<t, loop[t]>> \in ToTake
      <4>1. <<t, loop[t]>> \in ToTake
        BY <3>1, <3>3 DEF ToTake
      <4>2. ASSUME NEW u \in Consumers, NEW i \in 0 .. LOOPS_PER_THREAD - 1
            PROVE  i >= Moved(u)' <=> i >= Moved(u) /\ <<u, i>> # <<t, loop[t]>>
        <5>1. CASE u = t
          BY <3>2, <3>3, <5>1, Totals
        <5>2. CASE u # t
          BY <3>2, <5>2
        <5> QED
          BY <5>1, <5>2
      <4>3. \A r \in Consumers \X (0 .. LOOPS_PER_THREAD - 1) :
              r \in ToTake' <=> r \in ToTake /\ r # <<t, loop[t]>>
        BY <4>2 DEF ToTake
      <4>4. /\ ToTake \subseteq Consumers \X (0 .. LOOPS_PER_THREAD - 1)
            /\ ToTake' \subseteq Consumers \X (0 .. LOOPS_PER_THREAD - 1)
        BY DEF ToTake
      <4> QED
        BY <4>1, <4>3, <4>4
    <3>5. Cardinality(ToTake') = Cardinality(ToTake) - 1
      BY <3>4, ToTakeIsFinite, FS_RemoveElement
    <3>6. Moved(Producer) \in Int
      <4>1. Rounds(Producer) = Total /\ loop[Producer] \in Nat
        BY <1>0, WorkersAre DEF Rounds
      <4> QED
        BY <1>0, <4>1 DEF Moved
    <3> QED
      BY <1>0, <3>1, <3>2, <3>5, <3>6, ToTakeIsFinite DEF WorkInv, Total
  <2> QED
    BY <2>2, <2>3, <2>4
<1>2. ASSUME NEW t \in Adders, Adder(t)
      PROVE  WorkInv'
  <2>1. /\ \A u \in Workers : pc'[u] = pc[u] /\ loop'[u] = loop[u]
        /\ buffer' = buffer
    BY <1>0, <1>2, AdderHolds DEF HolderInv, buffering
  <2>2. \A u \in Workers : Moved(u)' = Moved(u)
    BY <2>1 DEF Moved, Rounds
  <2> QED
    BY <2>1, <2>2, WorkKept
<1>3. CASE ThreadsStart
  <2>1. /\ \A t \in Threads : pc[t] = "done" /\ pc'[t] = "lock" /\ loop'[t] = 0
        /\ buffer' = buffer
    BY <1>3 DEF ThreadsStart, buffering
  <2>2. buffer'.occupied = 0
    BY <2>1, WorkersAre, WorkersAtRest
  <2>3. \A t \in Workers : Moved(t)' = 0
    BY <2>1, WorkersAre, StepsAre DEF Moved
  <2>4. ToTake' = Consumers \X (0 .. LOOPS_PER_THREAD - 1)
    BY <2>3, WorkersAre, Totals DEF ToTake
  <2>5. Cardinality(ToTake') = Total /\ Moved(Producer)' = 0
    BY <2>3, <2>4, WorkersAre, AllItems
  <2> QED
    BY <1>0, <2>2, <2>5 DEF WorkInv, Total
<1>4. CASE AddersJoined \/ AllJoined \/ UNCHANGED threadVars
  <2>1. UNCHANGED <<pc, loop, buffer>>
    BY <1>4 DEF AddersJoined, AllJoined, threadVars, buffering
  <2>2. \A u \in Workers : Moved(u)' = Moved(u)
    BY <2>1 DEF Moved, Rounds
  <2> QED
    BY <2>1, <2>2, WorkKept
<1> QED
  BY <1>1, <1>2, <1>3, <1>4 DEF Next

LEMMA InitWork == Init => HolderInv /\ WorkInv
<1> SUFFICES ASSUME Init PROVE HolderInv /\ WorkInv
  OBVIOUS
<1>1. /\ \A t \in Workers : pc[t] = "done"
      /\ mutex = Nobody /\ global_mutex = Nobody /\ main = "idle"
      /\ buffer.occupied = 0
  BY WorkersAre DEF Init
<1>2. \A t \in Workers : Moved(t) = Rounds(t)
  BY <1>1, StepsAre DEF Moved
<1>3. Moved(Producer) = Total /\ Cardinality(ToTake) = 0
  BY <1>2, WorkersAre, ToTakeIsFinite DEF Rounds
<1> QED
  BY <1>1, <1>3, Totals DEF HolderInv, WorkInv, WorkerSteps

-----------------------------------------------------------------------------
(* What follows *)

CallsInv == BufferInv /\ LoopInv /\ CounterInv /\ HolderInv /\ WorkInv

LEMMA CallsInvAlways == Spec => []CallsInv
<1>1. Init => CallsInv
  BY InitBufferInv, InitCounterInv, InitWork DEF CallsInv
<1>2. CallsInv /\ [Next]_threadVars => CallsInv'
  BY StepBufferInv, StepCounterInv, StepHolderInv, StepWorkInv DEF CallsInv
<1> QED
  BY <1>1, <1>2, PTL DEF Spec

(***************************************************************************)
(* For any number of threads and rounds and any size, the buffer, which    *)
(* outlives a call of ecall_thread_functions, is empty outside the code    *)
(* that uses it (Enclave/TrustedLibrary/Thread.cpp:79, 94).                *)
(***************************************************************************)
THEOREM CallsLeaveNothing == Spec => []BufferDrains
<1>1. CallsInv => BufferDrains
  <2> SUFFICES ASSUME CallsInv, main # "buffering" PROVE buffer.occupied = 0
    BY DEF BufferDrains
  <2>1. CASE main = "adding"
    <3>1. Total - Moved(Producer) = Total /\ Cardinality(ToTake) = Total
      BY <2>1, WorkersAtStart DEF CallsInv, HolderInv
    <3> QED
      BY <3>1, Totals DEF CallsInv, WorkInv, BufferInv, Numbers
  <2>2. CASE main = "idle"
    BY <2>2, WorkersAtRest DEF CallsInv, HolderInv
  <2> QED
    BY <2>1, <2>2 DEF CallsInv, CounterInv
<1> QED
  BY <1>1, CallsInvAlways, PTL

\* While adders are under way, one of them can run.
LEMMA AddersRun ==
  ASSUME CounterInv, HolderInv, NEW t \in Adders, pc[t] # "done"
  PROVE  \E u \in Adders : CanRun(u)
<1>1. CASE global_mutex # Nobody
  <2>1. global_mutex \in Adders /\ pc[global_mutex] \in Exclusive
    BY <1>1 DEF HolderInv
  <2> QED
    BY <2>1 DEF CanRun, Exclusive
<1>2. CASE global_mutex = Nobody
  <2>1. pc[t] \in AdderSteps
    BY DEF CounterInv, AdderInv
  <2> QED
    BY <1>2, <2>1 DEF CanRun, AdderSteps
<1> QED
  BY <1>1, <1>2

(***************************************************************************)
(* While workers are under way, one of them can run: if all who are left   *)
(* waited, a consumer's missing item would still have to be put, and the   *)
(* producer's missing room be that of a full buffer.                       *)
(***************************************************************************)
LEMMA WorkersRun ==
  ASSUME CallsInv, NoLostWakeup, NEW t \in Workers, pc[t] # "done"
  PROVE  \E u \in Workers : CanRun(u)
<1> SUFFICES ASSUME \A u \in Workers : ~CanRun(u) PROVE FALSE
  OBVIOUS
<1>0. /\ buffer.occupied \in Nat /\ BUFFER_SIZE \in Nat /\ BUFFER_SIZE > 0
      /\ Total \in Nat /\ Total > 0 /\ LOOPS_PER_THREAD \in Nat /\ LOOPS_PER_THREAD > 0
      /\ buffer.occupied + (Total - Moved(Producer)) = Cardinality(ToTake)
      /\ more = {u \in Consumers : pc[u] = "wait"}
      /\ less = {u \in {Producer} : pc[u] = "wait"}
  BY WhoIsWho, Totals DEF CallsInv, BufferInv, WorkInv, Numbers
<1>1. mutex = Nobody
  <2>1. ASSUME mutex # Nobody
        PROVE  mutex \in Workers /\ pc[mutex] \in Critical
    BY <2>1 DEF CallsInv, HolderInv
  <2> QED
    BY <2>1 DEF CanRun, Critical
<1>2. ASSUME NEW u \in Workers
      PROVE  pc[u] \in {"wait", "done"}
  <2>1. pc[u] \in WorkerSteps /\ u \notin Adders
    BY WorkersAre DEF CallsInv, HolderInv
  <2> QED
    BY <1>1, <2>1 DEF CanRun, WorkerSteps
<1>3. Moved(Producer) = IF pc[Producer] = "done" THEN Total ELSE loop[Producer]
  BY <1>2, WorkersAre, StepsAre DEF Moved, Rounds
<1>4. pc[Producer] # "done" => loop[Producer] \in Nat /\ loop[Producer] < Total
  BY <1>2, WorkersAre, StepsAre DEF CallsInv, LoopInv, Rounds
<1>5. CASE more = {}
  <2>1. \A u \in Consumers : pc[u] = "done"
    BY <1>0, <1>2, <1>5, WorkersAre
  <2>2. \A u \in Consumers : Moved(u) = LOOPS_PER_THREAD
    BY <2>1, WorkersAre, StepsAre DEF Moved, Rounds
  <2>3. Cardinality(ToTake) = 0
    BY <2>2, ToTakeIsFinite
  <2>4. pc[Producer] # "done"
    BY <2>1, WorkersAre
  <2> QED
    BY <1>0, <1>3, <1>4, <2>3, <2>4
<1>6. CASE more # {}
  <2>1. Awake = {} /\ Telling = 0
    <3>1. Awake = {}
      BY <1>2, WorkersAre DEF Awake
    <3>2. Telling = 0
      BY <1>2, WorkersAre DEF Telling
    <3> QED
      BY <3>1, <3>2
  <2>2. buffer.occupied = 0
    <3>1. buffer.occupied <= Cardinality(Awake) + Telling
      BY <1>6 DEF NoLostWakeup
    <3> QED
      BY <1>0, <2>1, <3>1, FS_EmptySet
  <2>3. PICK c \in Consumers : pc[c] = "wait"
    BY <1>0, <1>6
  <2>4. Cardinality(ToTake) > 0
    <3>1. Moved(c) = loop[c] /\ loop[c] \in Nat /\ loop[c] < LOOPS_PER_THREAD
      BY <2>3, WorkersAre, StepsAre DEF Moved, CallsInv, LoopInv, Rounds
    <3>2. <<c, loop[c]>> \in ToTake
      BY <1>0, <3>1 DEF ToTake
    <3> QED
      BY <3>2, ToTakeIsFinite, FS_EmptySet
  <2>5. pc[Producer] # "done"
    BY <1>0, <1>3, <2>2, <2>4
  <2>6. Producer \in less
    BY <1>0, <1>2, <2>5, WorkersAre
  <2>7. buffer.occupied = BUFFER_SIZE
    BY <1>2, <2>6, WorkersAre DEF NoLostWakeup
  <2> QED
    BY <1>0, <2>2, <2>7
<1> QED
  BY <1>5, <1>6

(***************************************************************************)
(* ecall_thread_functions has no deadlock, for any number of threads and   *)
(* rounds and any size of the buffer: while main waits for threads to end, *)
(* one of them can run (both Thread.cpp).                                  *)
(***************************************************************************)
THEOREM ThreadsNeverStick == Spec => []NobodyIsStuck
<1>1. CallsInv /\ NoLostWakeup => NobodyIsStuck
  <2> SUFFICES ASSUME CallsInv, NoLostWakeup, NEW t \in Joined, pc[t] # "done"
               PROVE  \E u \in Joined : CanRun(u)
    BY DEF NobodyIsStuck
  <2>1. CASE main = "adding"
    <3>1. Joined = Adders
      BY <2>1 DEF Joined
    <3> QED
      BY <3>1, AddersRun DEF CallsInv
  <2>2. CASE main = "buffering"
    <3>1. Joined = Workers
      BY <2>2 DEF Joined, Workers
    <3> QED
      BY <3>1, WorkersRun
  <2>3. CASE main = "idle"
    BY <2>3 DEF Joined
  <2> QED
    BY <2>1, <2>2, <2>3 DEF CallsInv, CounterInv
<1> QED
  BY <1>1, CallsInvAlways, NoWakeupIsLost, PTL

(***************************************************************************)
(* All three, where it is the one of the sample functions that is called.  *)
(***************************************************************************)
THEOREM SampleNeverSticks ==
  SampleSpec => [](NobodyIsStuck /\ BufferDrains /\ RingHolds)
BY ThreadsNeverStick, CallsLeaveNothing, BufferIsARing, SampleImplementsThreads, PTL

=============================================================================
