----------------------- MODULE ThreadFunctionsProofs -----------------------
(***************************************************************************)
(* The counter is exact and no wake-up is lost, for any number of adders   *)
(* and consumers, any number of rounds and any size of the buffer.         *)
(***************************************************************************)
EXTENDS SampleProperties, FiniteSetTheorems, TLAPS

Workers == Consumers \cup {Producer}

\* Between the lock and the unlock of the buffer's mutex.
Critical == {"test", "change", "signal", "unlock"}

(***************************************************************************)
(* Who is between lock and unlock holds the mutex, so what the loop around *)
(* the wait has found of the buffer is still so when it is changed; and    *)
(* the condition variables queue those who wait.                           *)
(***************************************************************************)
BufferInv ==
  /\ pc \in [Threads -> Steps]
  /\ buffer \in Numbers
  /\ \A t \in Workers : pc[t] \in Critical => mutex = t
  /\ pc[Producer] = "change" => buffer.occupied < BUFFER_SIZE
  /\ \A t \in Consumers : pc[t] = "change" => buffer.occupied > 0
  /\ more = {t \in Consumers : pc[t] = "wait"}
  /\ less = {t \in {Producer} : pc[t] = "wait"}

-----------------------------------------------------------------------------
(* Helpers *)

LEMMA WhoIsWho ==
  /\ Producer \in Threads /\ Producer \notin Consumers /\ Producer \notin Adders
  /\ \A t \in Adders : t \in Threads /\ t \notin Workers
  /\ \A t \in Workers : t \in Threads /\ t # Nobody
  /\ BUFFER_SIZE \in Nat /\ BUFFER_SIZE > 0
BY ThreadFunctionsAssumption DEF Threads, Workers

\* One thread moves.
LEMMA GoesMoves ==
  ASSUME NEW t \in Threads, NEW a, NEW b \in Steps,
         pc \in [Threads -> Steps], Goes(t, a, b)
  PROVE  /\ pc[t] = a /\ pc'[t] = b
         /\ \A u \in Threads : u # t => pc'[u] = pc[u]
         /\ pc' \in [Threads -> Steps]
BY DEF Goes

LEMMA NextRoundMoves ==
  ASSUME NEW t \in Threads, NEW after \in Steps,
         pc \in [Threads -> Steps], NextRound(t, after)
  PROVE  /\ pc[t] = "unlock" /\ pc'[t] \in {"lock", after}
         /\ \A u \in Threads : u # t => pc'[u] = pc[u]
         /\ pc' \in [Threads -> Steps]
<1>1. "lock" \in Steps
  BY DEF Steps
<1>2. Goes(t, "unlock", IF loop[t] + 1 < Rounds(t) THEN "lock" ELSE after)
  BY DEF NextRound
<1>3. CASE loop[t] + 1 < Rounds(t)
  <2>1. Goes(t, "unlock", "lock")
    BY <1>2, <1>3
  <2> QED
    BY <1>1, <2>1, GoesMoves
<1>4. CASE ~(loop[t] + 1 < Rounds(t))
  <2>1. Goes(t, "unlock", after)
    BY <1>2, <1>4
  <2> QED
    BY <2>1, GoesMoves
<1> QED
  BY <1>3, <1>4

\* A signal moves the thread that sends it, and one that waits if there is one.
LEMMA SignalMoves ==
  ASSUME NEW t \in Threads, NEW waiting \in SUBSET Threads, NEW rest,
         pc \in [Threads -> Steps], Signals(t, waiting, rest),
         \A w \in waiting : pc[w] = "wait"
  PROVE  /\ pc[t] = "signal" /\ pc'[t] = "unlock"
         /\ pc' \in [Threads -> Steps]
         /\ \/ /\ waiting = {} /\ rest = {}
               /\ \A u \in Threads : u # t => pc'[u] = pc[u]
            \/ \E w \in waiting :
                 /\ w # t /\ rest = waiting \ {w} /\ pc'[w] = "lock"
                 /\ \A u \in Threads : u # t /\ u # w => pc'[u] = pc[u]
<1>1. "unlock" \in Steps /\ "lock" \in Steps
  BY DEF Steps
<1>2. pc[t] = "signal"
  BY DEF Signals
<1>3. CASE waiting = {} /\ rest = {} /\ pc' = [pc EXCEPT ![t] = "unlock"]
  BY <1>1, <1>2, <1>3
<1>4. CASE \E w \in waiting :
             /\ rest = waiting \ {w}
             /\ pc' = [pc EXCEPT ![t] = "unlock", ![w] = "lock"]
  <2>1. PICK w \in waiting :
          /\ rest = waiting \ {w}
          /\ pc' = [pc EXCEPT ![t] = "unlock", ![w] = "lock"]
    BY <1>4
  <2>2. w # t /\ w \in Threads
    BY <1>2
  <2>3. /\ pc'[t] = "unlock" /\ pc'[w] = "lock"
        /\ pc' \in [Threads -> Steps]
        /\ \A u \in Threads : u # t /\ u # w => pc'[u] = pc[u]
    BY <1>1, <2>1, <2>2
  <2> QED
    BY <1>2, <2>1, <2>2, <2>3
<1> QED
  BY <1>3, <1>4 DEF Signals

\* The steps outside the buffer's code.
Aside ==
  \/ \E t \in Adders : Adder(t)
  \/ AddersJoined \/ AllJoined

LEMMA AsideLeavesBuffer ==
  ASSUME pc \in [Threads -> Steps], Aside
  PROVE  /\ UNCHANGED buffering
         /\ pc' \in [Threads -> Steps]
         /\ \A u \in Workers : pc'[u] = pc[u]
<1>1. CASE \E t \in Adders : Adder(t)
  <2>1. PICK t \in Adders : Adder(t)
    BY <1>1
  <2>2. /\ t \in Threads
        /\ \A u \in Workers : u \in Threads /\ u # t
    BY WhoIsWho
  <2>3. \A b \in {"load", "add", "compare", "unlock", "return", "done"} : b \in Steps
    BY DEF Steps
  <2>4. UNCHANGED buffering
    BY <2>1 DEF Adder, AdderLocks, AdderLoads, AdderAdds, AdderCompares,
                AdderUnlocks, AdderReturns
  <2>5. \/ \E a, b \in {"lock", "load", "add", "compare", "unlock", "return", "done"} : Goes(t, a, b)
        \/ NextRound(t, "return")
    BY <2>1 DEF Adder, AdderLocks, AdderLoads, AdderAdds, AdderCompares,
                AdderUnlocks, AdderReturns
  <2>6. CASE NextRound(t, "return")
    BY <2>2, <2>3, <2>4, <2>6, NextRoundMoves
  <2>7. CASE \E a, b \in {"lock", "load", "add", "compare", "unlock", "return", "done"} : Goes(t, a, b)
    <3>1. PICK a, b \in {"lock", "load", "add", "compare", "unlock", "return", "done"} : Goes(t, a, b)
      BY <2>7
    <3>2. b \in Steps
      BY DEF Steps
    <3> QED
      BY <2>2, <2>4, <3>1, <3>2, GoesMoves
  <2> QED
    BY <2>5, <2>6, <2>7
<1>2. CASE AddersJoined \/ AllJoined
  BY <1>2 DEF AddersJoined, AllJoined, Workers, Threads
<1> QED
  BY <1>1, <1>2 DEF Aside

-----------------------------------------------------------------------------
(* BufferInv is inductive *)

LEMMA InitBufferInv == Init => BufferInv
<1> SUFFICES ASSUME Init PROVE BufferInv
  OBVIOUS
<1>1. /\ \A t \in Threads : pc[t] = "done"
      /\ pc \in [Threads -> Steps]
  BY DEF Init, Steps
<1>2. 0 \in Slots /\ 0 \in 0 .. BUFFER_SIZE
  BY WhoIsWho DEF Slots
<1>3. buffer \in Numbers
  BY <1>2 DEF Init, Numbers
<1>4. more = {} /\ less = {}
  BY DEF Init
<1>5. \A t \in Workers : pc[t] = "done"
  BY <1>1, WhoIsWho
<1>6. Producer \in Workers /\ Consumers \subseteq Workers
  BY DEF Workers
<1> QED
  BY <1>1, <1>3, <1>4, <1>5, <1>6 DEF BufferInv, Critical

LEMMA NextSlot ==
  \A k \in Slots : (k + 1) % BUFFER_SIZE \in Slots
BY WhoIsWho DEF Slots

LEMMA StepBufferInv == BufferInv /\ [Next]_threadVars => BufferInv'
<1> SUFFICES ASSUME BufferInv, [Next]_threadVars PROVE BufferInv'
  OBVIOUS
<1> USE DEF BufferInv
<1>0. /\ Producer \in Workers /\ Producer \in Threads
      /\ \A t \in Consumers : t \in Workers /\ t \in Threads /\ t # Producer
      /\ \A t \in Workers : t = Producer \/ t \in Consumers
      /\ \A t \in Workers : t \in Threads /\ t # Nobody
  BY WhoIsWho DEF Workers
<1>s. {"lock", "test", "wait", "change", "signal", "unlock", "done"} \subseteq Steps
  BY DEF Steps
<1>n. buffer.occupied \in 0 .. BUFFER_SIZE /\ BUFFER_SIZE \in Nat
  BY WhoIsWho DEF Numbers
<1>1. CASE Aside
  <2>1. /\ pc' \in [Threads -> Steps]
        /\ \A u \in Workers : pc'[u] = pc[u]
        /\ buffer' = buffer /\ mutex' = mutex /\ more' = more /\ less' = less
    BY <1>1, AsideLeavesBuffer DEF buffering
  <2> QED
    BY <1>0, <2>1
<1>2. ASSUME NEW t \in Workers, BufferLocks(t)
      PROVE  BufferInv'
  <2>1. /\ pc'[t] = "test" /\ pc[t] = "lock"
        /\ \A u \in Threads : u # t => pc'[u] = pc[u]
        /\ pc' \in [Threads -> Steps]
    <3>1. Goes(t, "lock", "test")
      BY <1>2 DEF BufferLocks
    <3> QED
      BY <1>0, <1>s, <3>1, GoesMoves
  <2>2. /\ mutex = Nobody /\ mutex' = t
        /\ buffer' = buffer /\ more' = more /\ less' = less
    BY <1>2 DEF BufferLocks
  <2>3. \A u \in Workers : pc[u] \notin Critical
    BY <1>0, <2>2
  <2> QED
    BY <1>0, <2>1, <2>2, <2>3 DEF Critical
<1>3. ASSUME NEW t \in Workers, BufferUnlocks(t)
      PROVE  BufferInv'
  <2>1. /\ pc'[t] \in {"lock", "done"} /\ pc[t] = "unlock"
        /\ \A u \in Threads : u # t => pc'[u] = pc[u]
        /\ pc' \in [Threads -> Steps]
    <3>1. NextRound(t, "done")
      BY <1>3 DEF BufferUnlocks
    <3> QED
      BY <1>0, <1>s, <3>1, NextRoundMoves
  <2>2. buffer' = buffer /\ more' = more /\ less' = less
    BY <1>3 DEF BufferUnlocks
  <2>3. mutex = t
    BY <2>1 DEF Critical
  <2>4. \A u \in Workers : pc'[u] \notin Critical
    BY <1>0, <2>1, <2>3 DEF Critical
  <2> QED
    BY <1>0, <2>1, <2>2, <2>4 DEF Critical
<1>4. CASE ProducerWaits
  <2>1. /\ pc'[Producer] = "wait" /\ pc[Producer] = "test"
        /\ \A u \in Threads : u # Producer => pc'[u] = pc[u]
        /\ pc' \in [Threads -> Steps]
    BY <1>0, <1>s, <1>4, GoesMoves DEF ProducerWaits
  <2>2. /\ buffer' = buffer /\ more' = more /\ less' = less \cup {Producer}
    BY <1>4 DEF ProducerWaits
  <2>3. mutex = Producer
    BY <1>0, <2>1 DEF Critical
  <2>4. \A u \in Workers : pc'[u] \notin Critical
    BY <1>0, <2>1, <2>3 DEF Critical
  <2> QED
    BY <1>0, <2>1, <2>2, <2>4 DEF Critical
<1>5. ASSUME NEW t \in Consumers, ConsumerWaits(t)
      PROVE  BufferInv'
  <2>1. /\ pc'[t] = "wait" /\ pc[t] = "test"
        /\ \A u \in Threads : u # t => pc'[u] = pc[u]
        /\ pc' \in [Threads -> Steps]
    BY <1>0, <1>s, <1>5, GoesMoves DEF ConsumerWaits
  <2>2. /\ buffer' = buffer /\ more' = more \cup {t} /\ less' = less
    BY <1>5 DEF ConsumerWaits
  <2>3. mutex = t
    BY <1>0, <2>1 DEF Critical
  <2>4. \A u \in Workers : pc'[u] \notin Critical
    BY <1>0, <2>1, <2>3 DEF Critical
  <2> QED
    BY <1>0, <2>1, <2>2, <2>4 DEF Critical
<1>6. CASE ProducerFindsRoom
  <2>1. /\ pc'[Producer] = "change" /\ pc[Producer] = "test"
        /\ \A u \in Threads : u # Producer => pc'[u] = pc[u]
        /\ pc' \in [Threads -> Steps]
    BY <1>0, <1>s, <1>6, GoesMoves DEF ProducerFindsRoom
  <2>2. /\ buffer' = buffer /\ more' = more /\ less' = less /\ mutex' = mutex
        /\ buffer.occupied < BUFFER_SIZE
    BY <1>6 DEF ProducerFindsRoom, buffering
  <2> QED
    BY <1>0, <2>1, <2>2 DEF Critical
<1>7. ASSUME NEW t \in Consumers, ConsumerFindsItem(t)
      PROVE  BufferInv'
  <2>1. /\ pc'[t] = "change" /\ pc[t] = "test"
        /\ \A u \in Threads : u # t => pc'[u] = pc[u]
        /\ pc' \in [Threads -> Steps]
    BY <1>0, <1>s, <1>7, GoesMoves DEF ConsumerFindsItem
  <2>2. /\ buffer' = buffer /\ more' = more /\ less' = less /\ mutex' = mutex
        /\ buffer.occupied > 0
    BY <1>7 DEF ConsumerFindsItem, buffering
  <2> QED
    BY <1>0, <2>1, <2>2 DEF Critical
<1>8. CASE ProducerPuts
  <2>1. /\ pc'[Producer] = "signal" /\ pc[Producer] = "change"
        /\ \A u \in Threads : u # Producer => pc'[u] = pc[u]
        /\ pc' \in [Threads -> Steps]
    BY <1>0, <1>s, <1>8, GoesMoves DEF ProducerPuts
  <2>2. /\ more' = more /\ less' = less /\ mutex' = mutex
    BY <1>8 DEF ProducerPuts
  <2>3. mutex = Producer
    BY <1>0, <2>1 DEF Critical
  <2>4. buffer' \in Numbers
    <3>1. buffer.occupied + 1 \in 0 .. BUFFER_SIZE
      BY <1>n, <2>1
    <3>2. /\ buffer.nextin \in Slots /\ buffer.nextout \in Slots
          /\ buffer.buf \in [Slots -> Slots]
      BY DEF Numbers
    <3>3. (buffer.nextin + 1) % BUFFER_SIZE \in Slots
      BY <3>2, NextSlot
    <3>4. [buffer.buf EXCEPT ![buffer.nextin] = buffer.nextin] \in [Slots -> Slots]
      BY <3>2
    <3> QED
      BY <1>8, <3>1, <3>2, <3>3, <3>4 DEF ProducerPuts, Numbers
  <2>5. \A t \in Consumers : pc[t] \notin Critical
    BY <1>0, <2>3
  <2> QED
    BY <1>0, <2>1, <2>2, <2>3, <2>4, <2>5 DEF Critical
<1>9. ASSUME NEW t \in Consumers, ConsumerTakes(t)
      PROVE  BufferInv'
  <2>1. /\ pc'[t] = "signal" /\ pc[t] = "change"
        /\ \A u \in Threads : u # t => pc'[u] = pc[u]
        /\ pc' \in [Threads -> Steps]
    BY <1>0, <1>s, <1>9, GoesMoves DEF ConsumerTakes
  <2>2. /\ more' = more /\ less' = less /\ mutex' = mutex
    BY <1>9 DEF ConsumerTakes
  <2>3. mutex = t
    BY <1>0, <2>1 DEF Critical
  <2>4. buffer' \in Numbers
    <3>1. buffer.occupied - 1 \in 0 .. BUFFER_SIZE
      BY <1>n, <2>1
    <3>2. /\ buffer.nextin \in Slots /\ buffer.nextout \in Slots
          /\ buffer.buf \in [Slots -> Slots]
      BY DEF Numbers
    <3>3. (buffer.nextout + 1) % BUFFER_SIZE \in Slots
      BY <3>2, NextSlot
    <3>4. [buffer.buf EXCEPT ![buffer.nextout] = 0] \in [Slots -> Slots]
      <4>1. 0 \in Slots
        BY WhoIsWho DEF Slots
      <4> QED
        BY <3>2, <4>1
    <3> QED
      BY <1>9, <3>1, <3>2, <3>3, <3>4 DEF ConsumerTakes, Numbers
  <2>5. \A u \in Workers : u # t => pc[u] \notin Critical
    BY <1>0, <2>3
  <2> QED
    BY <1>0, <2>1, <2>2, <2>3, <2>4, <2>5 DEF Critical
<1>10. CASE ProducerSignals
  <2>p. pc \in [Threads -> Steps]
    OBVIOUS
  <2>1. /\ Signals(Producer, more, more') /\ less' = less
        /\ mutex' = mutex /\ buffer' = buffer
    BY <1>10 DEF ProducerSignals, Signals
  <2>2. more \in SUBSET Threads /\ \A w \in more : pc[w] = "wait" /\ w \in Consumers
    BY <1>0
  <2> HIDE DEF BufferInv
  <2>3. /\ pc[Producer] = "signal" /\ pc'[Producer] = "unlock"
        /\ pc' \in [Threads -> Steps]
        /\ \/ /\ more = {} /\ more' = {}
              /\ \A u \in Threads : u # Producer => pc'[u] = pc[u]
           \/ \E w \in more :
                /\ w # Producer /\ more' = more \ {w} /\ pc'[w] = "lock"
                /\ \A u \in Threads : u # Producer /\ u # w => pc'[u] = pc[u]
    BY <1>0, <2>p, <2>1, <2>2, SignalMoves
  <2>4. CASE more = {} /\ more' = {} /\ \A u \in Threads : u # Producer => pc'[u] = pc[u]
    BY <1>0, <2>1, <2>3, <2>4 DEF BufferInv, Critical
  <2>5. ASSUME NEW w \in more, w # Producer, more' = more \ {w}, pc'[w] = "lock",
               \A u \in Threads : u # Producer /\ u # w => pc'[u] = pc[u]
        PROVE  BufferInv'
    BY <1>0, <2>1, <2>2, <2>3, <2>5 DEF BufferInv, Critical
  <2> QED
    BY <2>3, <2>4, <2>5
<1>11. ASSUME NEW t \in Consumers, ConsumerSignals(t)
       PROVE  BufferInv'
  <2>p. pc \in [Threads -> Steps]
    OBVIOUS
  <2>1. /\ Signals(t, less, less') /\ more' = more
        /\ mutex' = mutex /\ buffer' = buffer
    BY <1>11 DEF ConsumerSignals, Signals
  <2>2. less \in SUBSET Threads /\ \A w \in less : pc[w] = "wait" /\ w = Producer
    BY <1>0
  <2> HIDE DEF BufferInv
  <2>3. /\ pc[t] = "signal" /\ pc'[t] = "unlock"
        /\ pc' \in [Threads -> Steps]
        /\ \/ /\ less = {} /\ less' = {}
              /\ \A u \in Threads : u # t => pc'[u] = pc[u]
           \/ \E w \in less :
                /\ w # t /\ less' = less \ {w} /\ pc'[w] = "lock"
                /\ \A u \in Threads : u # t /\ u # w => pc'[u] = pc[u]
    BY <1>0, <2>p, <2>1, <2>2, SignalMoves
  <2>4. CASE less = {} /\ less' = {} /\ \A u \in Threads : u # t => pc'[u] = pc[u]
    BY <1>0, <2>1, <2>3, <2>4 DEF BufferInv, Critical
  <2>5. ASSUME NEW w \in less, w # t, less' = less \ {w}, pc'[w] = "lock",
               \A u \in Threads : u # t /\ u # w => pc'[u] = pc[u]
        PROVE  BufferInv'
    BY <1>0, <2>1, <2>2, <2>3, <2>5 DEF BufferInv, Critical
  <2> QED
    BY <2>3, <2>4, <2>5
<1>12. CASE UNCHANGED threadVars
  BY <1>12 DEF threadVars, buffering
<1>13. CASE ThreadsStart
  <2>1. /\ \A u \in Threads : pc[u] = "done" /\ pc'[u] = "lock"
        /\ pc' \in [Threads -> Steps]
    BY <1>s, <1>13 DEF ThreadsStart
  <2>2. /\ buffer' = buffer /\ more' = more /\ less' = less
    BY <1>13 DEF ThreadsStart, buffering
  <2> QED
    BY <1>0, <2>1, <2>2 DEF Critical
<1> QED
  BY <1>0, <1>1, <1>2, <1>3, <1>4, <1>5, <1>6, <1>7, <1>8, <1>9, <1>10, <1>11, <1>12, <1>13
     DEF Next, Aside, Produce, Consume

-----------------------------------------------------------------------------
(* Wake-ups *)

LEMMA AwakeIsFinite ==
  IsFiniteSet(Awake) /\ Cardinality(Awake) \in Nat
BY ThreadFunctionsAssumption, FS_Subset, FS_CardinalityType DEF Awake

LEMMA StepNoLostWakeup ==
  ASSUME BufferInv, BufferInv', NoLostWakeup, [Next]_threadVars
  PROVE  NoLostWakeup'
<1>0. /\ Producer \in Workers /\ Producer \in Threads
      /\ \A t \in Consumers : t \in Workers /\ t \in Threads /\ t # Producer
      /\ \A t \in Workers : t = Producer \/ t \in Consumers
  BY WhoIsWho DEF Workers
<1>p. /\ pc \in [Threads -> Steps]
      /\ more = {t \in Consumers : pc[t] = "wait"}
      /\ less = {t \in {Producer} : pc[t] = "wait"}
  BY DEF BufferInv
<1>n. /\ buffer.occupied \in 0 .. BUFFER_SIZE /\ BUFFER_SIZE \in Nat
      /\ buffer'.occupied \in 0 .. BUFFER_SIZE
  BY WhoIsWho DEF Numbers, BufferInv
<1>a. /\ IsFiniteSet(Awake) /\ Cardinality(Awake) \in Nat
      /\ IsFiniteSet(Awake') /\ Cardinality(Awake') \in Nat
  <2>1. IsFiniteSet(Consumers) /\ Awake' \subseteq Consumers
    BY ThreadFunctionsAssumption DEF Awake
  <2> QED
    BY <2>1, AwakeIsFinite, FS_Subset, FS_CardinalityType
<1>s. {"lock", "test", "wait", "change", "signal", "unlock", "done"} \subseteq Steps
  BY DEF Steps
<1>g. \* Awake grows, and nobody else is concerned.
      ASSUME Awake \subseteq Awake', more' = more, less' = less, buffer' = buffer,
             pc'[Producer] = "signal" <=> pc[Producer] = "signal",
             \A t \in Consumers : pc[t] = "signal" => pc'[t] = "signal"
      PROVE  NoLostWakeup'
  <2>1. Cardinality(Awake) <= Cardinality(Awake')
    BY <1>a, <1>g, FS_Subset
  <2>2. Telling' = Telling /\ Telling \in 0 .. 1
    BY <1>g DEF Telling
  <2>3. more' # {} => buffer'.occupied <= Cardinality(Awake') + Telling'
    BY <1>a, <1>g, <1>n, <2>1, <2>2 DEF NoLostWakeup
  <2>4. less' # {} => \/ buffer'.occupied = BUFFER_SIZE
                      \/ \E t \in Consumers : pc'[t] = "signal"
    BY <1>g DEF NoLostWakeup
  <2> QED
    BY <2>3, <2>4 DEF NoLostWakeup
<1>1. CASE Aside
  <2>1. /\ \A u \in Workers : pc'[u] = pc[u]
        /\ buffer' = buffer /\ more' = more /\ less' = less
    BY <1>p, <1>1, AsideLeavesBuffer DEF buffering
  <2> QED
    BY <1>0, <1>g, <2>1 DEF Awake
<1>2. ASSUME NEW t \in Workers, BufferLocks(t)
      PROVE  NoLostWakeup'
  <2>1. Goes(t, "lock", "test")
    BY <1>2 DEF BufferLocks
  <2>2. /\ pc'[t] = "test" /\ pc[t] = "lock"
        /\ \A u \in Threads : u # t => pc'[u] = pc[u]
    BY <1>0, <1>p, <1>s, <2>1, GoesMoves
  <2>3. buffer' = buffer /\ more' = more /\ less' = less
    BY <1>2 DEF BufferLocks
  <2>4. Awake \subseteq Awake'
    BY <1>0, <2>2 DEF Awake
  <2> QED
    BY <1>0, <1>g, <2>2, <2>3, <2>4
<1>3. ASSUME NEW t \in Workers, BufferUnlocks(t)
      PROVE  NoLostWakeup'
  <2>1. NextRound(t, "done")
    BY <1>3 DEF BufferUnlocks
  <2>2. /\ pc'[t] \in {"lock", "done"} /\ pc[t] = "unlock"
        /\ \A u \in Threads : u # t => pc'[u] = pc[u]
    BY <1>0, <1>p, <1>s, <2>1, NextRoundMoves
  <2>3. buffer' = buffer /\ more' = more /\ less' = less
    BY <1>3 DEF BufferUnlocks
  <2>4. Awake \subseteq Awake'
    BY <1>0, <2>2 DEF Awake
  <2> QED
    BY <1>0, <1>g, <2>2, <2>3, <2>4
<1>4. CASE ProducerWaits
  <2>1. /\ pc'[Producer] = "wait" /\ pc[Producer] = "test"
        /\ \A u \in Threads : u # Producer => pc'[u] = pc[u]
    BY <1>0, <1>p, <1>s, <1>4, GoesMoves DEF ProducerWaits
  <2>2. buffer' = buffer /\ more' = more /\ buffer.occupied >= BUFFER_SIZE
    BY <1>4 DEF ProducerWaits
  <2>3. buffer'.occupied = BUFFER_SIZE
    BY <1>n, <2>2
  <2>4. Awake' = Awake /\ Telling' = Telling
    BY <1>0, <2>1 DEF Awake, Telling
  <2> QED
    BY <2>2, <2>3, <2>4 DEF NoLostWakeup
<1>5. ASSUME NEW t \in Consumers, ConsumerWaits(t)
      PROVE  NoLostWakeup'
  <2>1. /\ pc'[t] = "wait" /\ pc[t] = "test"
        /\ \A u \in Threads : u # t => pc'[u] = pc[u]
    BY <1>0, <1>p, <1>s, <1>5, GoesMoves DEF ConsumerWaits
  <2>2. buffer' = buffer /\ less' = less /\ buffer.occupied = 0
    BY <1>5, <1>n DEF ConsumerWaits
  <2>3. Telling' \in 0 .. 1
    BY DEF Telling
  <2>4. buffer'.occupied <= Cardinality(Awake') + Telling'
    BY <1>a, <2>2, <2>3
  <2>5. less' # {} => \/ buffer'.occupied = BUFFER_SIZE
                      \/ \E u \in Consumers : pc'[u] = "signal"
    BY <1>0, <2>1, <2>2 DEF NoLostWakeup
  <2> QED
    BY <2>4, <2>5 DEF NoLostWakeup
<1>6. CASE ProducerFindsRoom
  <2>1. /\ pc'[Producer] = "change" /\ pc[Producer] = "test"
        /\ \A u \in Threads : u # Producer => pc'[u] = pc[u]
    BY <1>0, <1>p, <1>s, <1>6, GoesMoves DEF ProducerFindsRoom
  <2>2. buffer' = buffer /\ more' = more /\ less' = less
    BY <1>6 DEF ProducerFindsRoom, buffering
  <2> QED
    BY <1>0, <1>g, <2>1, <2>2 DEF Awake
<1>7. ASSUME NEW t \in Consumers, ConsumerFindsItem(t)
      PROVE  NoLostWakeup'
  <2>1. /\ pc'[t] = "change" /\ pc[t] = "test"
        /\ \A u \in Threads : u # t => pc'[u] = pc[u]
    BY <1>0, <1>p, <1>s, <1>7, GoesMoves DEF ConsumerFindsItem
  <2>2. buffer' = buffer /\ more' = more /\ less' = less
    BY <1>7 DEF ConsumerFindsItem, buffering
  <2>3. Awake \subseteq Awake'
    BY <1>0, <2>1 DEF Awake
  <2> QED
    BY <1>0, <1>g, <2>1, <2>2, <2>3
<1>8. CASE ProducerPuts
  <2>1. /\ pc'[Producer] = "signal" /\ pc[Producer] = "change"
        /\ \A u \in Threads : u # Producer => pc'[u] = pc[u]
    BY <1>0, <1>p, <1>s, <1>8, GoesMoves DEF ProducerPuts
  <2>2. buffer'.occupied = buffer.occupied + 1 /\ more' = more /\ less' = less
    BY <1>8 DEF ProducerPuts
  <2>3. Awake' = Awake /\ Telling = 0 /\ Telling' = 1
    BY <1>0, <2>1 DEF Awake, Telling
  <2>4. less' = {}
    BY <1>p, <2>1, <2>2
  <2>5. more' # {} => buffer'.occupied <= Cardinality(Awake') + Telling'
    BY <1>a, <1>n, <2>2, <2>3 DEF NoLostWakeup
  <2> QED
    BY <2>4, <2>5 DEF NoLostWakeup
<1>9. ASSUME NEW t \in Consumers, ConsumerTakes(t)
      PROVE  NoLostWakeup'
  <2>1. /\ pc'[t] = "signal" /\ pc[t] = "change"
        /\ \A u \in Threads : u # t => pc'[u] = pc[u]
    BY <1>0, <1>p, <1>s, <1>9, GoesMoves DEF ConsumerTakes
  <2>2. buffer'.occupied = buffer.occupied - 1 /\ more' = more /\ less' = less
    BY <1>9 DEF ConsumerTakes
  <2>3. Awake' = Awake \ {t} /\ t \in Awake /\ Telling' = Telling /\ Telling \in 0 .. 1
    BY <1>0, <2>1 DEF Awake, Telling
  <2>4. Cardinality(Awake') = Cardinality(Awake) - 1
    BY <1>a, <2>3, FS_RemoveElement
  <2>5. more' # {} => buffer'.occupied <= Cardinality(Awake') + Telling'
    BY <1>a, <1>n, <2>2, <2>3, <2>4 DEF NoLostWakeup
  <2>6. \E u \in Consumers : pc'[u] = "signal"
    BY <2>1
  <2> QED
    BY <2>5, <2>6 DEF NoLostWakeup
<1>10. CASE ProducerSignals
  <2>1. Signals(Producer, more, more') /\ less' = less /\ buffer' = buffer
    BY <1>10 DEF ProducerSignals, Signals
  <2>2. more \in SUBSET Threads /\ \A w \in more : pc[w] = "wait" /\ w \in Consumers
    BY <1>0, <1>p
  <2>q. pc \in [Threads -> Steps]
    BY <1>p
  <2>3. /\ pc[Producer] = "signal" /\ pc'[Producer] = "unlock"
        /\ pc' \in [Threads -> Steps]
        /\ \/ /\ more = {} /\ more' = {}
              /\ \A u \in Threads : u # Producer => pc'[u] = pc[u]
           \/ \E w \in more :
                /\ w # Producer /\ more' = more \ {w} /\ pc'[w] = "lock"
                /\ \A u \in Threads : u # Producer /\ u # w => pc'[u] = pc[u]
    BY <1>0, <2>q, <2>1, <2>2, SignalMoves
  <2>4. less' = {} /\ Telling = 1 /\ Telling' = 0
    BY <1>p, <2>1, <2>3 DEF Telling
  <2>5. CASE more' = {}
    BY <2>4, <2>5 DEF NoLostWakeup
  <2>6. ASSUME NEW w \in more, w # Producer, more' = more \ {w}, pc'[w] = "lock",
               \A u \in Threads : u # Producer /\ u # w => pc'[u] = pc[u]
        PROVE  NoLostWakeup'
    <3>1. Awake' = Awake \cup {w} /\ w \notin Awake
      BY <1>0, <2>2, <2>6 DEF Awake
    <3>2. Cardinality(Awake') = Cardinality(Awake) + 1
      BY <1>a, <3>1, FS_AddElement
    <3>3. buffer.occupied <= Cardinality(Awake) + 1
      BY <2>4, <2>6 DEF NoLostWakeup
    <3>4. buffer'.occupied <= Cardinality(Awake') + Telling'
      BY <1>a, <1>n, <2>1, <2>4, <3>2, <3>3
    <3> QED
      BY <2>4, <3>4 DEF NoLostWakeup
  <2> QED
    BY <2>3, <2>5, <2>6
<1>11. ASSUME NEW t \in Consumers, ConsumerSignals(t)
       PROVE  NoLostWakeup'
  <2>1. Signals(t, less, less') /\ more' = more /\ buffer' = buffer
    BY <1>11 DEF ConsumerSignals, Signals
  <2>2. less \in SUBSET Threads /\ \A w \in less : pc[w] = "wait" /\ w = Producer
    BY <1>0, <1>p
  <2>q. pc \in [Threads -> Steps]
    BY <1>p
  <2>3. /\ pc[t] = "signal" /\ pc'[t] = "unlock"
        /\ pc' \in [Threads -> Steps]
        /\ \/ /\ less = {} /\ less' = {}
              /\ \A u \in Threads : u # t => pc'[u] = pc[u]
           \/ \E w \in less :
                /\ w # t /\ less' = less \ {w} /\ pc'[w] = "lock"
                /\ \A u \in Threads : u # t /\ u # w => pc'[u] = pc[u]
    BY <1>0, <2>q, <2>1, <2>2, SignalMoves
  <2>4. less' = {}
    BY <2>2, <2>3
  <2>5. Awake' = Awake
    BY <1>0, <2>2, <2>3 DEF Awake
  <2>6. Telling' = Telling
    BY <1>0, <2>2, <2>3 DEF Telling
  <2> QED
    BY <2>1, <2>4, <2>5, <2>6 DEF NoLostWakeup
<1>12. CASE UNCHANGED threadVars
  BY <1>12, <1>g DEF threadVars, buffering, Awake
<1>13. CASE ThreadsStart
  <2>1. \A u \in Threads : pc[u] = "done"
    BY <1>13 DEF ThreadsStart
  <2>2. more = {} /\ less = {} /\ more' = more /\ less' = less
    BY <1>0, <1>p, <1>13, <2>1 DEF ThreadsStart, buffering
  <2> QED
    BY <2>2 DEF NoLostWakeup
<1> QED
  BY <1>0, <1>1, <1>2, <1>3, <1>4, <1>5, <1>6, <1>7, <1>8, <1>9, <1>10, <1>11, <1>12, <1>13
     DEF Next, Aside, Produce, Consume

(***************************************************************************)
(* For any number of consumers and rounds and any size of the buffer, no   *)
(* consumer sleeps beside an item nobody is going to take, and the         *)
(* producer never sleeps beside room: Enclave/TrustedLibrary/Thread.cpp,   *)
(* ecall_producer and ecall_consumer.                                      *)
(***************************************************************************)
THEOREM NoWakeupIsLost == Spec => []NoLostWakeup
<1>1. Init => NoLostWakeup
  BY DEF Init, NoLostWakeup
<1>2. BufferInv /\ NoLostWakeup /\ [Next]_threadVars
        => BufferInv' /\ NoLostWakeup'
  BY StepBufferInv, StepNoLostWakeup
<1> QED
  BY <1>1, <1>2, InitBufferInv, PTL DEF Spec

\* The other sample functions of the App do not touch the threads' state.
LEMMA SampleImplementsThreads == SampleSpec => Spec
<1>1. SampleInit => Init
  BY DEF SampleInit
<1>2. [SampleNext]_<<threadVars, edgeVars>> => [Next]_threadVars
  BY DEF SampleNext
<1> QED
  BY <1>1, <1>2, PTL DEF SampleSpec, Spec

(***************************************************************************)
(* The same where ecall_thread_functions is the one of the App's sample    *)
(* functions that is called.                                               *)
(***************************************************************************)
THEOREM SampleLosesNoWakeup == SampleSpec => []NoLostWakeup
  BY NoWakeupIsLost, SampleImplementsThreads, PTL

-----------------------------------------------------------------------------
(***************************************************************************)
(* The counter.  Who is between lock and unlock of global_mutex is alone   *)
(* there, so what it has loaded is still the counter; what the counter     *)
(* lacks is one for each increment the adders have still to make; and when *)
(* it has reached the total, the App knows, or an adder is on its way to   *)
(* tell it.                                                                *)
(***************************************************************************)

AdderSteps == {"lock", "load", "add", "compare", "unlock", "return", "done"}

\* Between the lock and the unlock of global_mutex.
Exclusive == {"load", "add", "compare", "unlock"}

Resting == {"return", "done"}

\* The rounds that adder t has not counted yet in this call.
FirstAhead(t) == IF pc[t] \in {"compare", "unlock"} THEN loop[t] + 1 ELSE loop[t]

Ahead ==
  {r \in Adders \X (0 .. LOOPS_PER_THREAD - 1) :
     pc[r[1]] \notin Resting /\ r[2] >= FirstAhead(r[1])}

\* The App has been told that the total was reached, or will be.
Told ==
  \/ counter = Total
  \/ \E t \in Adders : ret[t] = Total \/ (pc[t] = "compare" /\ global_counter = Total)

LoopInv ==
  /\ loop \in [Threads -> 0 .. Total]
  /\ \A t \in Threads : pc[t] \notin Resting => loop[t] < Rounds(t)

AdderInv(t) ==
  /\ pc[t] \in AdderSteps
  /\ pc[t] \in Exclusive => global_mutex = t
  /\ pc[t] = "add" => tmp[t] = global_counter
  /\ pc[t] = "done" => ret[t] = 0

CounterInv ==
  /\ main \in {"idle", "adding", "buffering"} /\ calls \in 0 .. MaxCalls
  /\ tmp \in [Adders -> 0 .. MaxCalls * Total] /\ ret \in [Adders -> {0, Total}]
  /\ global_counter \in Nat /\ counter \in {0, Total}
  /\ global_mutex \in Adders \cup {Nobody} /\ mutex \in Threads \cup {Nobody}
  /\ \A t \in Adders : AdderInv(t)
  /\ global_counter + Cardinality(Ahead) = calls * Total
  /\ global_counter >= Total => Told
  /\ main = "adding" => calls > 0
  /\ main # "adding" => \A t \in Adders : pc[t] = "done"
-----------------------------------------------------------------------------
(* Arithmetic of the rounds *)

\* A product, by the sum it is.
LEMMA Products ==
  ASSUME NEW a \in Nat, NEW b \in Nat, NEW c \in Nat, a <= b
  PROVE  /\ a * c \in Nat /\ b * c \in Nat /\ a * c <= b * c
         /\ 0 * c = 0
         /\ (a + 1) * c = a * c + c
         /\ a > 0 => a * c >= c
OBVIOUS

LEMMA Totals ==
  /\ LOOPS_PER_THREAD \in Nat /\ LOOPS_PER_THREAD > 0
  /\ Total \in Nat /\ Total > 0 /\ LOOPS_PER_THREAD <= Total
  /\ \A t \in Threads : Rounds(t) \in Nat /\ Rounds(t) > 0 /\ Rounds(t) <= Total
  /\ \A t \in Adders : Rounds(t) = LOOPS_PER_THREAD
<1>1. LOOPS_PER_THREAD \in Nat /\ LOOPS_PER_THREAD > 0
  BY ThreadFunctionsAssumption
<1>2. Cardinality(Adders) \in Nat /\ Cardinality(Adders) > 0
  BY ThreadFunctionsAssumption, FS_EmptySet, FS_CardinalityType
<1>3. Total \in Nat /\ LOOPS_PER_THREAD <= Total
  BY <1>1, <1>2, Products DEF Total
<1> QED
  BY <1>1, <1>3, WhoIsWho DEF Rounds

\* All the rounds of a call.
LEMMA AllRounds ==
  /\ IsFiniteSet(Adders \X (0 .. LOOPS_PER_THREAD - 1))
  /\ Cardinality(Adders \X (0 .. LOOPS_PER_THREAD - 1)) = Total
<1>1. LOOPS_PER_THREAD \in Nat /\ LOOPS_PER_THREAD > 0
  BY Totals
<1>2. /\ IsFiniteSet(0 .. LOOPS_PER_THREAD - 1)
      /\ Cardinality(0 .. LOOPS_PER_THREAD - 1) = LOOPS_PER_THREAD
  BY <1>1, FS_Interval
<1>3. IsFiniteSet(Adders)
  BY ThreadFunctionsAssumption
<1> DEFINE rounds == 0 .. LOOPS_PER_THREAD - 1
<1> HIDE DEF rounds
<1>4. IsFiniteSet(rounds) /\ Cardinality(rounds) = LOOPS_PER_THREAD
  BY <1>2 DEF rounds
<1>5. /\ IsFiniteSet(Adders \X rounds)
      /\ Cardinality(Adders \X rounds) = Cardinality(Adders) * Cardinality(rounds)
  BY <1>3, <1>4, FS_Product
<1> QED
  BY <1>4, <1>5 DEF Total, rounds

LEMMA AheadIsFinite == IsFiniteSet(Ahead) /\ Cardinality(Ahead) \in Nat
BY AllRounds, FS_Subset, FS_CardinalityType DEF Ahead

-----------------------------------------------------------------------------
(* LoopInv and CounterInv are inductive *)

LEMMA InitCounterInv == Init => LoopInv /\ CounterInv
<1> SUFFICES ASSUME Init PROVE LoopInv /\ CounterInv
  OBVIOUS
<1>1. /\ \A t \in Threads : pc[t] = "done" /\ loop[t] = 0
      /\ \A t \in Adders : pc[t] = "done" /\ ret[t] = 0
  BY WhoIsWho DEF Init
<1>2. 0 \in 0 .. Total
  BY Totals
<1>3. LoopInv
  BY <1>1, <1>2 DEF Init, LoopInv, Resting
<1>4. Ahead = {}
  BY <1>1 DEF Ahead, Resting
<1>5. calls * Total = 0 /\ Cardinality(Ahead) = 0 /\ global_counter = 0
  BY <1>4, Totals, FS_EmptySet DEF Init
<1>6. MaxCalls * Total \in Nat
  BY Totals, Products, ThreadFunctionsAssumption
<1>7. \A t \in Adders : AdderInv(t)
  BY <1>1 DEF AdderInv, AdderSteps, Exclusive
<1>8. ~(global_counter >= Total)
  BY <1>5, Totals
<1>9. /\ calls \in 0 .. MaxCalls
      /\ tmp \in [Adders -> 0 .. MaxCalls * Total] /\ ret \in [Adders -> {0, Total}]
  BY <1>6, ThreadFunctionsAssumption DEF Init
<1> QED
  BY <1>1, <1>3, <1>5, <1>7, <1>8, <1>9 DEF Init, CounterInv

\* A step of a thread within its loop's body.
LEMMA LoopStays ==
  ASSUME LoopInv, loop' = loop,
         \A t \in Threads : pc'[t] \notin Resting => pc[t] \notin Resting
  PROVE  LoopInv'
<1>1. \A t \in Threads : Rounds(t)' = Rounds(t)
  BY DEF Rounds
<1> QED
  BY <1>1 DEF LoopInv

\* A thread that moves within its loop's body stays in it.
LEMMA GoesWithin ==
  ASSUME NEW t \in Threads, NEW a, NEW b \in Steps,
         pc \in [Threads -> Steps], Goes(t, a, b),
         a \notin Resting \/ b \in Resting
  PROVE  \A u \in Threads : pc'[u] \notin Resting => pc[u] \notin Resting
BY GoesMoves

\* A thread at the end of its loop's body goes on as long as it has rounds.
LEMMA RoundsAreCounted ==
  ASSUME NEW t \in Threads, NEW after \in Resting,
         pc \in [Threads -> Steps], LoopInv, NextRound(t, after)
  PROVE  /\ LoopInv'
         /\ loop[t] < Rounds(t) /\ loop'[t] = loop[t] + 1
         /\ pc'[t] = IF loop[t] + 1 < Rounds(t) THEN "lock" ELSE after
         /\ \A u \in Threads : u # t => loop'[u] = loop[u]
<1>1. after \in Steps /\ "lock" \notin Resting /\ "unlock" \notin Resting
  BY DEF Steps, Resting
<1>2. /\ pc[t] = "unlock" 
      /\ \A u \in Threads : u # t => pc'[u] = pc[u]
  BY <1>1, NextRoundMoves
<1>3. pc'[t] = IF loop[t] + 1 < Rounds(t) THEN "lock" ELSE after
  BY DEF NextRound, Goes
<1>4. /\ loop \in [Threads -> 0 .. Total] /\ Total \in Nat
      /\ loop[t] < Rounds(t) /\ Rounds(t) \in Nat /\ Rounds(t) <= Total
  BY <1>1, <1>2, Totals DEF LoopInv
<1>5. loop' = [loop EXCEPT ![t] = @ + 1]
  BY DEF NextRound
<1>6. loop[t] + 1 \in 0 .. Total
  BY <1>4
<1>7. /\ loop' \in [Threads -> 0 .. Total] /\ loop'[t] = loop[t] + 1
      /\ \A u \in Threads : u # t => loop'[u] = loop[u]
  BY <1>4, <1>5, <1>6
<1>8. \A u \in Threads : Rounds(u)' = Rounds(u)
  BY DEF Rounds
<1>9. \A u \in Threads : pc'[u] \notin Resting => loop'[u] < Rounds(u)'
  BY <1>1, <1>2, <1>3, <1>4, <1>7, <1>8 DEF LoopInv
<1> QED
  BY <1>3, <1>4, <1>7, <1>9 DEF LoopInv

\* The workers do not touch what the adders use.
LEMMA WorkersLeaveAdders ==
  ASSUME BufferInv, LoopInv, mutex \in Threads \cup {Nobody},
         Produce \/ \E t \in Consumers : Consume(t)
  PROVE  /\ main' = main /\ calls' = calls /\ adding' = adding
         /\ LoopInv' /\ mutex' \in Threads \cup {Nobody}
         /\ \A t \in Adders : pc'[t] = pc[t] /\ loop'[t] = loop[t]
<1>1. /\ Producer \in Workers /\ Producer \in Threads
      /\ \A t \in Consumers : t \in Workers
      /\ \A t \in Workers : t \in Threads /\ t \notin Adders
      /\ \A t \in Adders : t \in Threads
      /\ \A t \in Workers : t = Producer \/ t \in Consumers
  BY WhoIsWho DEF Workers
<1>2. /\ pc \in [Threads -> Steps]
      /\ more \in SUBSET Workers /\ \A w \in more : pc[w] = "wait"
      /\ less \in SUBSET Workers /\ \A w \in less : pc[w] = "wait"
  BY <1>1 DEF BufferInv
<1>3. /\ {"lock", "test", "wait", "change", "signal", "unlock", "done"} \subseteq Steps
      /\ {"lock", "test", "wait", "change", "signal", "unlock"} \cap Resting = {}
      /\ "done" \in Resting
  BY DEF Steps, Resting
<1>4. ASSUME NEW t \in Workers,
             NEW a \in {"lock", "test", "change"}, NEW b \in {"test", "wait", "change", "signal"},
             Goes(t, a, b), loop' = loop
      PROVE  LoopInv' /\ \A u \in Adders : pc'[u] = pc[u] /\ loop'[u] = loop[u]
  <2>1. a \notin Resting /\ b \in Steps /\ t \in Threads
    BY <1>1, <1>3
  <2>2. /\ \A u \in Threads : pc'[u] \notin Resting => pc[u] \notin Resting
        /\ \A u \in Threads : u # t => pc'[u] = pc[u]
    BY <1>2, <1>4, <2>1, GoesMoves, GoesWithin
  <2> QED
    BY <1>1, <1>4, <2>2, LoopStays
<1>5. ASSUME NEW t \in Workers, NEW waiting \in SUBSET Workers, NEW rest,
             \A w \in waiting : pc[w] = "wait", Signals(t, waiting, rest)
      PROVE  LoopInv' /\ \A u \in Adders : pc'[u] = pc[u] /\ loop'[u] = loop[u]
  <2>1. loop' = loop
    BY <1>5 DEF Signals
  <2>2. t \in Threads /\ waiting \in SUBSET Threads /\ pc \in [Threads -> Steps]
    BY <1>1, <1>2
  <2>s. waiting \in SUBSET Threads /\ \A w \in waiting : pc[w] = "wait"
    BY <1>5, <2>2
  <2>3. /\ pc[t] = "signal" /\ pc'[t] = "unlock"
        /\ pc' \in [Threads -> Steps]
        /\ \/ /\ waiting = {} /\ rest = {}
              /\ \A u \in Threads : u # t => pc'[u] = pc[u]
           \/ \E w \in waiting :
                /\ w # t /\ rest = waiting \ {w} /\ pc'[w] = "lock"
                /\ \A u \in Threads : u # t /\ u # w => pc'[u] = pc[u]
    BY <1>5, <2>2, <2>s, SignalMoves
  <2>4. \A u \in Threads : pc'[u] \notin Resting => pc[u] \notin Resting
    BY <1>3, <1>5, <2>3
  <2>5. \A u \in Adders : pc'[u] = pc[u]
    BY <1>1, <2>3
  <2> QED
    BY <2>1, <2>4, <2>5, LoopStays
<1>6. ASSUME NEW t \in Workers, BufferLocks(t)
      PROVE  /\ main' = main /\ calls' = calls /\ adding' = adding
             /\ LoopInv' /\ mutex' \in Threads \cup {Nobody}
             /\ \A u \in Adders : pc'[u] = pc[u] /\ loop'[u] = loop[u]
  BY <1>1, <1>4, <1>6 DEF BufferLocks
<1>7. ASSUME NEW t \in Workers, BufferUnlocks(t)
      PROVE  /\ main' = main /\ calls' = calls /\ adding' = adding
             /\ LoopInv' /\ mutex' \in Threads \cup {Nobody}
             /\ \A u \in Adders : pc'[u] = pc[u] /\ loop'[u] = loop[u]
  <2>1. /\ NextRound(t, "done") /\ mutex' = Nobody
        /\ main' = main /\ calls' = calls /\ adding' = adding
    BY <1>7 DEF BufferUnlocks
  <2>2. t \in Threads /\ "done" \in Steps
    BY <1>1, <1>3
  <2>3. LoopInv' /\ \A u \in Threads : u # t => pc'[u] = pc[u] /\ loop'[u] = loop[u]
    BY <1>2, <1>3, <2>1, <2>2, NextRoundMoves, RoundsAreCounted
  <2> QED
    BY <1>1, <2>1, <2>3
<1>8. CASE ProducerWaits
  BY <1>1, <1>4, <1>8 DEF ProducerWaits
<1>9. CASE ProducerFindsRoom
  BY <1>1, <1>4, <1>9 DEF ProducerFindsRoom, buffering
<1>10. CASE ProducerPuts
  BY <1>1, <1>4, <1>10 DEF ProducerPuts
<1>11. CASE ProducerSignals
  <2>1. /\ Signals(Producer, more, more') /\ mutex' = mutex
        /\ main' = main /\ calls' = calls /\ adding' = adding
    BY <1>11 DEF ProducerSignals, Signals
  <2> QED
    BY <1>1, <1>2, <1>5, <2>1
<1>12. ASSUME NEW t \in Consumers, ConsumerWaits(t)
       PROVE  /\ main' = main /\ calls' = calls /\ adding' = adding
              /\ LoopInv' /\ mutex' \in Threads \cup {Nobody}
              /\ \A u \in Adders : pc'[u] = pc[u] /\ loop'[u] = loop[u]
  BY <1>1, <1>4, <1>12 DEF ConsumerWaits
<1>13. ASSUME NEW t \in Consumers, ConsumerFindsItem(t)
       PROVE  /\ main' = main /\ calls' = calls /\ adding' = adding
              /\ LoopInv' /\ mutex' \in Threads \cup {Nobody}
              /\ \A u \in Adders : pc'[u] = pc[u] /\ loop'[u] = loop[u]
  BY <1>1, <1>4, <1>13 DEF ConsumerFindsItem, buffering
<1>14. ASSUME NEW t \in Consumers, ConsumerTakes(t)
       PROVE  /\ main' = main /\ calls' = calls /\ adding' = adding
              /\ LoopInv' /\ mutex' \in Threads \cup {Nobody}
              /\ \A u \in Adders : pc'[u] = pc[u] /\ loop'[u] = loop[u]
  BY <1>1, <1>4, <1>14 DEF ConsumerTakes
<1>15. ASSUME NEW t \in Consumers, ConsumerSignals(t)
       PROVE  /\ main' = main /\ calls' = calls /\ adding' = adding
              /\ LoopInv' /\ mutex' \in Threads \cup {Nobody}
              /\ \A u \in Adders : pc'[u] = pc[u] /\ loop'[u] = loop[u]
  <2>1. /\ Signals(t, less, less') /\ mutex' = mutex
        /\ main' = main /\ calls' = calls /\ adding' = adding
    BY <1>15 DEF ConsumerSignals, Signals
  <2> QED
    BY <1>1, <1>2, <1>5, <2>1
<1> QED
  BY <1>1, <1>6, <1>7, <1>8, <1>9, <1>10, <1>11, <1>12, <1>13, <1>14, <1>15 DEF Produce, Consume

LEMMA StepCounterInv ==
  ASSUME BufferInv, LoopInv, CounterInv, [Next]_threadVars
  PROVE  LoopInv' /\ CounterInv'
<1>0. /\ \A t \in Adders : t \in Threads /\ t # Nobody
      /\ pc \in [Threads -> Steps]
  BY ThreadFunctionsAssumption, WhoIsWho DEF BufferInv, Threads
<1>c. /\ main \in {"idle", "adding", "buffering"} /\ calls \in 0 .. MaxCalls
      /\ tmp \in [Adders -> 0 .. MaxCalls * Total] /\ ret \in [Adders -> {0, Total}]
      /\ global_counter \in Nat /\ counter \in {0, Total}
      /\ global_mutex \in Adders \cup {Nobody} /\ mutex \in Threads \cup {Nobody}
      /\ \A t \in Adders : AdderInv(t)
      /\ global_counter + Cardinality(Ahead) = calls * Total
      /\ global_counter >= Total => Told
      /\ main = "adding" => calls > 0
      /\ main # "adding" => \A t \in Adders : pc[t] = "done"
  BY DEF CounterInv
<1>s. /\ {"lock", "load", "add", "compare", "unlock", "return", "done"} \subseteq Steps
      /\ {"lock", "load", "add", "compare", "unlock"} \cap Resting = {}
      /\ {"return", "done"} \subseteq Resting
      /\ AdderSteps = {"lock", "load", "add", "compare", "unlock", "return", "done"}
      /\ Exclusive = {"load", "add", "compare", "unlock"}
  BY DEF Steps, Resting, AdderSteps, Exclusive
<1>t. Total \in Nat /\ Total > 0 /\ MaxCalls \in Nat
  BY Totals, ThreadFunctionsAssumption
<1>a. \* Mutual exclusion.
      \A t, u \in Adders : pc[t] \in Exclusive /\ pc[u] \in Exclusive => u = t
  BY <1>c DEF AdderInv
<1>1. CASE Produce \/ \E t \in Consumers : Consume(t)
  <2>1. /\ main' = main /\ calls' = calls /\ adding' = adding
        /\ LoopInv' /\ mutex' \in Threads \cup {Nobody}
        /\ \A t \in Adders : pc'[t] = pc[t] /\ loop'[t] = loop[t]
    BY <1>1, <1>c, WorkersLeaveAdders
  <2>2. /\ tmp' = tmp /\ ret' = ret /\ global_counter' = global_counter
        /\ counter' = counter /\ global_mutex' = global_mutex
    BY <2>1 DEF adding
  <2>3. Ahead' = Ahead
    BY <2>1 DEF Ahead, FirstAhead
  <2>4. \A t \in Adders : AdderInv(t)'
    BY <1>c, <2>1, <2>2 DEF AdderInv
  <2>5. Told => Told'
    BY <2>1, <2>2 DEF Told
  <2> QED
    BY <1>c, <2>1, <2>2, <2>3, <2>4, <2>5 DEF CounterInv
<1>2. CASE UNCHANGED threadVars
  <2>1. /\ main' = main /\ calls' = calls /\ pc' = pc /\ loop' = loop /\ tmp' = tmp
        /\ ret' = ret /\ global_counter' = global_counter /\ counter' = counter
        /\ global_mutex' = global_mutex /\ mutex' = mutex
    BY <1>2 DEF threadVars, adding, buffering
  <2>2. LoopInv'
    BY <2>1, LoopStays
  <2>3. Ahead' = Ahead
    BY <2>1 DEF Ahead, FirstAhead
  <2>4. \A t \in Adders : AdderInv(t)'
    BY <1>c, <2>1 DEF AdderInv
  <2>5. Told => Told'
    BY <2>1 DEF Told
  <2> QED
    BY <1>c, <2>1, <2>2, <2>3, <2>4, <2>5 DEF CounterInv
<1>3. CASE ThreadsStart
  <2>1. /\ main = "idle" /\ calls < MaxCalls /\ main' = "adding" /\ calls' = calls + 1
        /\ pc' = [t \in Threads |-> "lock"] /\ loop' = [t \in Threads |-> 0]
        /\ \A t \in Threads : pc[t] = "done"
        /\ adding' = adding /\ buffering' = buffering
    BY <1>3 DEF ThreadsStart
  <2>2. /\ tmp' = tmp /\ ret' = ret /\ global_counter' = global_counter
        /\ counter' = counter /\ global_mutex' = global_mutex /\ mutex' = mutex
    BY <2>1 DEF adding, buffering
  <2>3. LoopInv'
    <3>1. \A t \in Threads : Rounds(t)' = Rounds(t) /\ Rounds(t) > 0
      BY Totals DEF Rounds
    <3>2. 0 \in 0 .. Total
      BY <1>t
    <3> QED
      BY <2>1, <3>1, <3>2 DEF LoopInv
  <2>4. Ahead = {}
    BY <1>0, <1>s, <2>1 DEF Ahead
  <2>5. Ahead' = Adders \X (0 .. LOOPS_PER_THREAD - 1)
    <3>1. \A t \in Adders : pc'[t] = "lock" /\ FirstAhead(t)' = 0
      BY <1>0, <2>1 DEF FirstAhead
    <3> QED
      BY <1>s, <3>1, Totals DEF Ahead
  <2>6. global_counter' + Cardinality(Ahead') = calls' * Total
    <3>1. Cardinality(Ahead) = 0 /\ Cardinality(Ahead') = Total
      BY <2>4, <2>5, AllRounds, FS_EmptySet
    <3>2. calls \in Nat /\ (calls + 1) * Total = calls * Total + Total /\ calls * Total \in Nat
      BY <1>c, <1>t, Products
    <3> QED
      BY <1>c, <1>t, <2>1, <2>2, <3>1, <3>2
  <2>7. \A t \in Adders : AdderInv(t)'
    <3>1. \A t \in Adders : pc'[t] = "lock"
      BY <1>0, <2>1
    <3> QED
      BY <1>s, <3>1 DEF AdderInv
  <2>8. Told => Told'
    <3>1. \A t \in Adders : pc[t] # "compare"
      BY <1>0, <2>1
    <3> QED
      BY <2>2, <3>1 DEF Told
  <2>9. calls' \in 0 .. MaxCalls /\ calls' > 0
    BY <1>c, <1>t, <2>1
  <2> QED
    BY <1>c, <2>1, <2>2, <2>3, <2>6, <2>7, <2>8, <2>9 DEF CounterInv
<1>4. CASE AddersJoined
  <2>1. /\ main = "adding" /\ \A t \in Adders : pc[t] = "done"
        /\ main' = IF counter = Total THEN "buffering" ELSE "aborted"
        /\ calls' = calls /\ pc' = pc /\ loop' = loop /\ tmp' = tmp
        /\ ret' = ret /\ global_counter' = global_counter /\ counter' = counter
        /\ global_mutex' = global_mutex /\ mutex' = mutex
    BY <1>4 DEF AddersJoined, adding, buffering
  <2>2. LoopInv'
    BY <2>1, LoopStays
  <2>3. Ahead' = Ahead /\ Ahead = {}
    BY <1>s, <2>1 DEF Ahead, FirstAhead
  <2>4. \A t \in Adders : AdderInv(t)'
    BY <1>c, <2>1 DEF AdderInv
  <2>5. Told => Told'
    BY <2>1 DEF Told
  <2>6. counter = Total
    <3>1. Cardinality(Ahead) = 0
      BY <2>3, FS_EmptySet
    <3>2. calls * Total >= Total /\ calls * Total \in Nat
      BY <1>c, <1>t, <2>1, Products
    <3>3. global_counter >= Total
      BY <1>c, <1>t, <3>1, <3>2
    <3>4. \A t \in Adders : ret[t] = 0 /\ pc[t] # "compare"
      BY <1>c, <2>1 DEF AdderInv
    <3> QED
      BY <1>c, <1>t, <3>3, <3>4 DEF Told
  <2> QED
    BY <1>c, <2>1, <2>2, <2>3, <2>4, <2>5, <2>6 DEF CounterInv
<1>5. CASE AllJoined
  <2>1. /\ main = "buffering" /\ main' = "idle"
        /\ calls' = calls /\ pc' = pc /\ loop' = loop /\ tmp' = tmp
        /\ ret' = ret /\ global_counter' = global_counter /\ counter' = counter
        /\ global_mutex' = global_mutex /\ mutex' = mutex
    BY <1>5 DEF AllJoined, adding, buffering
  <2>2. LoopInv'
    BY <2>1, LoopStays
  <2>3. Ahead' = Ahead
    BY <2>1 DEF Ahead, FirstAhead
  <2>4. \A t \in Adders : AdderInv(t)'
    BY <1>c, <2>1 DEF AdderInv
  <2>5. Told => Told'
    BY <2>1 DEF Told
  <2> QED
    BY <1>c, <2>1, <2>2, <2>3, <2>4, <2>5 DEF CounterInv
<1>6. ASSUME NEW t \in Adders, Adder(t)
      PROVE  LoopInv' /\ CounterInv'
  <2>0. /\ t \in Threads /\ t # Nobody
        /\ \A u \in Adders : u \in Threads
    BY <1>0, <1>6
  <2>m. pc[t] # "done" => main = "adding"
    BY <1>c
  <2>p. AdderInv(t)
    BY <1>c
  <2>1. CASE AdderLocks(t)
    <3>1. /\ Goes(t, "lock", "load") /\ main = "adding"
          /\ global_mutex = Nobody /\ global_mutex' = t
          /\ main' = main /\ calls' = calls /\ loop' = loop /\ tmp' = tmp /\ ret' = ret
          /\ global_counter' = global_counter /\ counter' = counter /\ mutex' = mutex
      BY <2>1 DEF AdderLocks, buffering
    <3>2. /\ pc[t] = "lock" /\ pc'[t] = "load"
          /\ \A u \in Threads : u # t => pc'[u] = pc[u]
      BY <1>0, <1>s, <2>0, <3>1, GoesMoves
    <3>3. LoopInv'
      BY <1>0, <1>s, <2>0, <3>1, GoesWithin, LoopStays
    <3>4. \A u \in Adders : AdderInv(u)'
      <4>1. \A u \in Adders : pc[u] \notin Exclusive
        BY <1>0, <1>c, <3>1 DEF AdderInv
      <4> QED
        BY <1>c, <1>s, <2>0, <3>1, <3>2, <4>1 DEF AdderInv
    <3>5. Ahead' = Ahead
      BY <1>s, <2>0, <3>1, <3>2 DEF Ahead, FirstAhead
    <3>6. Told => Told'
      BY <2>0, <3>1, <3>2 DEF Told
    <3> QED
      BY <1>c, <3>1, <3>3, <3>4, <3>5, <3>6 DEF CounterInv
  <2>2. CASE AdderLoads(t)
    <3>1. /\ Goes(t, "load", "add") /\ global_mutex' = global_mutex
          /\ tmp' = [tmp EXCEPT ![t] = global_counter]
          /\ main' = main /\ calls' = calls /\ loop' = loop /\ ret' = ret
          /\ global_counter' = global_counter /\ counter' = counter /\ mutex' = mutex
      BY <2>2 DEF AdderLoads, buffering
    <3>2. /\ pc[t] = "load" /\ pc'[t] = "add"
          /\ \A u \in Threads : u # t => pc'[u] = pc[u]
      BY <1>0, <1>s, <2>0, <3>1, GoesMoves
    <3>3. LoopInv'
      BY <1>0, <1>s, <2>0, <3>1, GoesWithin, LoopStays
    <3>4. global_counter \in 0 .. MaxCalls * Total
      BY <1>c, <1>t, AheadIsFinite, Products
    <3>5. /\ tmp' \in [Adders -> 0 .. MaxCalls * Total] /\ tmp'[t] = global_counter
          /\ \A u \in Adders : u # t => tmp'[u] = tmp[u]
      BY <1>c, <3>1, <3>4
    <3>6. \A u \in Adders : AdderInv(u)'
      BY <1>c, <1>s, <2>0, <3>1, <3>2, <3>5 DEF AdderInv
    <3>7. Ahead' = Ahead
      BY <1>s, <2>0, <3>1, <3>2 DEF Ahead, FirstAhead
    <3>8. Told => Told'
      BY <2>0, <3>1, <3>2 DEF Told
    <3> QED
      BY <1>c, <2>m, <3>1, <3>2, <3>3, <3>5, <3>6, <3>7, <3>8 DEF CounterInv
  <2>3. CASE AdderAdds(t)
    <3>1. /\ Goes(t, "add", "compare") /\ global_mutex' = global_mutex
          /\ tmp' = [tmp EXCEPT ![t] = @ + 1] /\ global_counter' = tmp[t] + 1
          /\ main' = main /\ calls' = calls /\ loop' = loop /\ ret' = ret
          /\ counter' = counter /\ mutex' = mutex
      BY <2>3 DEF AdderAdds, buffering
    <3>2. /\ pc[t] = "add" /\ pc'[t] = "compare"
          /\ \A u \in Threads : u # t => pc'[u] = pc[u]
      BY <1>0, <1>s, <2>0, <3>1, GoesMoves
    <3>3. LoopInv'
      BY <1>0, <1>s, <2>0, <3>1, GoesWithin, LoopStays
    <3>4. tmp[t] = global_counter /\ global_counter' = global_counter + 1
      BY <2>p, <3>1, <3>2 DEF AdderInv
    <3>5. loop[t] \in 0 .. LOOPS_PER_THREAD - 1
      BY <1>s, <1>t, <2>0, <3>2, Totals DEF LoopInv
    <3>6. Ahead' = Ahead \ {<<t, loop[t]>>} /\ <<t, loop[t]>> \in Ahead
      <4>1. /\ FirstAhead(t) = loop[t] /\ FirstAhead(t)' = loop[t] + 1
            /\ \A u \in Adders : u # t => FirstAhead(u)' = FirstAhead(u)
        BY <2>0, <3>1, <3>2 DEF FirstAhead
      <4>2. <<t, loop[t]>> \in Ahead
        BY <1>s, <3>2, <3>5, <4>1 DEF Ahead
      <4>3. \A r \in Adders \X (0 .. LOOPS_PER_THREAD - 1) :
              r \in Ahead' <=> r \in Ahead /\ r # <<t, loop[t]>>
        <5> SUFFICES ASSUME NEW u \in Adders, NEW i \in 0 .. LOOPS_PER_THREAD - 1
                     PROVE  <<u, i>> \in Ahead' <=> <<u, i>> \in Ahead /\ <<u, i>> # <<t, loop[t]>>
          OBVIOUS
        <5>1. /\ <<u, i>> \in Ahead <=> pc[u] \notin Resting /\ i >= FirstAhead(u)
              /\ <<u, i>> \in Ahead' <=> pc'[u] \notin Resting /\ i >= FirstAhead(u)'
          BY DEF Ahead
        <5>2. CASE u = t
          BY <1>s, <3>2, <3>5, <4>1, <5>1, <5>2, Totals
        <5>3. CASE u # t
          BY <2>0, <3>2, <4>1, <5>1, <5>3
        <5> QED
          BY <5>2, <5>3
      <4>4. /\ Ahead \subseteq Adders \X (0 .. LOOPS_PER_THREAD - 1)
            /\ Ahead' \subseteq Adders \X (0 .. LOOPS_PER_THREAD - 1)
        BY DEF Ahead
      <4> QED
        BY <4>2, <4>3, <4>4
    <3>7. Cardinality(Ahead') = Cardinality(Ahead) - 1 /\ Cardinality(Ahead') \in Nat
      BY <3>6, AheadIsFinite, FS_RemoveElement, FS_CardinalityType
    <3>8. global_counter' + Cardinality(Ahead') = calls' * Total
      BY <1>c, <3>1, <3>4, <3>7, AheadIsFinite
    <3>9. global_counter' \in 0 .. MaxCalls * Total
      <4>1. calls * Total <= MaxCalls * Total /\ calls * Total \in Nat /\ MaxCalls * Total \in Nat
        BY <1>c, <1>t, Products
      <4> QED
        BY <1>c, <3>1, <3>4, <3>7, <3>8, <4>1
    <3>10. tmp' \in [Adders -> 0 .. MaxCalls * Total]
      BY <1>c, <3>1, <3>4, <3>9
    <3>11. \A u \in Adders : AdderInv(u)'
      <4>1. \A u \in Adders : pc'[u] # "add"
        BY <1>a, <1>s, <2>0, <3>2
      <4> QED
        BY <1>c, <1>s, <2>0, <3>1, <3>2, <4>1 DEF AdderInv
    <3>12. global_counter' >= Total => Told'
      <4>1. ASSUME global_counter' >= Total, global_counter' # Total
            PROVE  Told'
        <5>1. Told
          BY <1>c, <1>t, <3>4, <4>1
        <5>2. \A u \in Adders : pc[u] # "compare"
          BY <1>a, <1>s, <3>2
        <5> QED
          BY <3>1, <5>1, <5>2 DEF Told
      <4>2. CASE global_counter' = Total
        BY <3>2, <4>2 DEF Told
      <4> QED
        BY <4>1, <4>2
    <3> QED
      BY <1>c, <2>m, <3>1, <3>2, <3>3, <3>8, <3>9, <3>10, <3>11, <3>12 DEF CounterInv
  <2>4. CASE AdderCompares(t)
    <3>1. /\ Goes(t, "compare", "unlock") /\ global_mutex' = global_mutex
          /\ ret' = IF global_counter = Total THEN [ret EXCEPT ![t] = global_counter] ELSE ret
          /\ main' = main /\ calls' = calls /\ loop' = loop /\ tmp' = tmp
          /\ global_counter' = global_counter /\ counter' = counter /\ mutex' = mutex
      BY <2>4 DEF AdderCompares, buffering
    <3>2. /\ pc[t] = "compare" /\ pc'[t] = "unlock"
          /\ \A u \in Threads : u # t => pc'[u] = pc[u]
      BY <1>0, <1>s, <2>0, <3>1, GoesMoves
    <3>3. LoopInv'
      BY <1>0, <1>s, <2>0, <3>1, GoesWithin, LoopStays
    <3>4. /\ ret' \in [Adders -> {0, Total}]
          /\ global_counter = Total => ret'[t] = Total
          /\ \A u \in Adders : u # t => ret'[u] = ret[u]
          /\ \A u \in Adders : ret[u] = Total => ret'[u] = Total
      BY <1>c, <3>1
    <3>5. \A u \in Adders : AdderInv(u)'
      BY <1>c, <1>s, <2>0, <3>1, <3>2, <3>4 DEF AdderInv
    <3>6. Ahead' = Ahead
      BY <1>s, <2>0, <3>1, <3>2 DEF Ahead, FirstAhead
    <3>7. Told => Told'
      BY <1>a, <1>s, <3>1, <3>2, <3>4 DEF Told
    <3> QED
      BY <1>c, <2>m, <3>1, <3>2, <3>3, <3>4, <3>5, <3>6, <3>7 DEF CounterInv
  <2>5. CASE AdderUnlocks(t)
    <3>1. /\ NextRound(t, "return") /\ global_mutex' = Nobody
          /\ tmp' = [tmp EXCEPT ![t] = 0]
          /\ main' = main /\ calls' = calls /\ ret' = ret
          /\ global_counter' = global_counter /\ counter' = counter /\ mutex' = mutex
      BY <2>5 DEF AdderUnlocks, buffering
    <3>2. /\ pc[t] = "unlock" /\ pc'[t] \in {"lock", "return"}
          /\ \A u \in Threads : u # t => pc'[u] = pc[u]
      BY <1>0, <1>s, <2>0, <3>1, NextRoundMoves
    <3>3. /\ LoopInv' /\ loop[t] < Rounds(t) /\ loop'[t] = loop[t] + 1
          /\ pc'[t] = IF loop[t] + 1 < Rounds(t) THEN "lock" ELSE "return"
          /\ \A u \in Threads : u # t => loop'[u] = loop[u]
      BY <1>0, <1>s, <2>0, <3>1, RoundsAreCounted
    <3>4. tmp' \in [Adders -> 0 .. MaxCalls * Total]
      BY <1>c, <1>t, <3>1, Products
    <3>5. \A u \in Adders : AdderInv(u)'
      <4>1. \A u \in Adders : pc'[u] \notin Exclusive
        BY <1>a, <1>s, <2>0, <3>2
      <4> QED
        BY <1>c, <1>s, <2>0, <3>1, <3>2, <4>1 DEF AdderInv
    <3>6. Ahead' = Ahead
      <4>1. Rounds(t) = LOOPS_PER_THREAD /\ LOOPS_PER_THREAD \in Nat /\ loop[t] \in Nat
        BY <1>t, <2>0, Totals DEF LoopInv
      <4>2. \A u \in Adders, i \in 0 .. LOOPS_PER_THREAD - 1 :
              (pc'[u] \notin Resting /\ i >= FirstAhead(u)')
                <=> (pc[u] \notin Resting /\ i >= FirstAhead(u))
        <5> TAKE u \in Adders, i \in 0 .. LOOPS_PER_THREAD - 1
        <5>1. CASE u # t
          BY <2>0, <3>2, <3>3, <5>1 DEF FirstAhead
        <5>2. CASE u = t
          <6>1. FirstAhead(t) = loop[t] + 1 /\ FirstAhead(t)' = loop[t] + 1
            BY <3>2, <3>3 DEF FirstAhead
          <6> QED
            BY <1>s, <3>2, <3>3, <4>1, <5>2, <6>1
        <5> QED
          BY <5>1, <5>2
      <4> QED
        BY <4>2 DEF Ahead
    <3>7. Told => Told'
      BY <2>0, <3>1, <3>2 DEF Told
    <3> QED
      BY <1>c, <2>m, <3>1, <3>2, <3>3, <3>4, <3>5, <3>6, <3>7 DEF CounterInv
  <2>6. CASE AdderReturns(t)
    <3>1. /\ Goes(t, "return", "done") /\ global_mutex' = global_mutex
          /\ counter' = IF ret[t] # 0 THEN ret[t] ELSE counter
          /\ ret' = [ret EXCEPT ![t] = 0]
          /\ main' = main /\ calls' = calls /\ loop' = loop /\ tmp' = tmp
          /\ global_counter' = global_counter /\ mutex' = mutex
      BY <2>6 DEF AdderReturns, buffering
    <3>2. /\ pc[t] = "return" /\ pc'[t] = "done"
          /\ \A u \in Threads : u # t => pc'[u] = pc[u]
      BY <1>0, <1>s, <2>0, <3>1, GoesMoves
    <3>3. LoopInv'
      BY <1>0, <1>s, <2>0, <3>1, GoesWithin, LoopStays
    <3>4. /\ ret' \in [Adders -> {0, Total}] /\ ret'[t] = 0
          /\ \A u \in Adders : u # t => ret'[u] = ret[u]
          /\ counter' \in {0, Total}
          /\ ret[t] = Total \/ counter = Total => counter' = Total
      BY <1>c, <1>t, <3>1
    <3>5. \A u \in Adders : AdderInv(u)'
      BY <1>c, <1>s, <2>0, <3>1, <3>2, <3>4 DEF AdderInv
    <3>6. Ahead' = Ahead
      BY <1>s, <2>0, <3>1, <3>2 DEF Ahead, FirstAhead
    <3>7. Told => Told'
      BY <2>0, <3>1, <3>2, <3>4 DEF Told
    <3> QED
      BY <1>c, <2>m, <3>1, <3>2, <3>3, <3>4, <3>5, <3>6, <3>7 DEF CounterInv
  <2> QED
    BY <1>6, <2>1, <2>2, <2>3, <2>4, <2>5, <2>6 DEF Adder
<1> QED
  BY <1>1, <1>2, <1>3, <1>4, <1>5, <1>6 DEF Next

-----------------------------------------------------------------------------
(* What follows *)

LEMMA ThreadInvariants == Spec => [](BufferInv /\ LoopInv /\ CounterInv)
<1>1. Init => BufferInv /\ LoopInv /\ CounterInv
  BY InitBufferInv, InitCounterInv
<1>2. BufferInv /\ LoopInv /\ CounterInv /\ [Next]_threadVars
        => (BufferInv /\ LoopInv /\ CounterInv)'
  BY StepBufferInv, StepCounterInv
<1> QED
  BY <1>1, <1>2, PTL DEF Spec

(***************************************************************************)
(* For any number of adders and rounds, every increment counts: the        *)
(* assertion of App/TrustedLibrary/Thread.cpp:79 holds in every call of    *)
(* ecall_thread_functions, the second and later ones included, in which    *)
(* the counter passes its target and no adder reports it again.            *)
(***************************************************************************)
THEOREM CounterIsExact == Spec => []CounterIsTotal
<1>1. CounterInv => CounterIsTotal
  <2> SUFFICES ASSUME CounterInv, main # "adding"
               PROVE  /\ main # "aborted"
                      /\ global_counter = calls * Total
                      /\ calls > 0 => counter = Total
    BY DEF CounterIsTotal
  <2>1. \A t \in Adders : pc[t] = "done" /\ ret[t] = 0
    BY DEF CounterInv, AdderInv
  <2>2. Ahead = {}
    BY <2>1 DEF Ahead, Resting
  <2>3. global_counter = calls * Total
    BY <2>2, FS_EmptySet DEF CounterInv
  <2>4. ASSUME calls > 0
        PROVE  counter = Total
    <3>1. calls * Total >= Total
      BY <2>4, Totals, Products DEF CounterInv
    <3>2. Told
      BY <2>3, <3>1 DEF CounterInv
    <3> QED
      BY <2>1, <3>2, Totals DEF Told
  <2> QED
    BY <2>3, <2>4 DEF CounterInv
<1> QED
  BY <1>1, ThreadInvariants, PTL

(***************************************************************************)
(* The types, for any number of threads: among them, that the counter      *)
(* never passes what the calls so far may have added, that the buffer's    *)
(* numbers stay in their range, and that a condition variable queues the   *)
(* threads that wait for it and no other (both Thread.cpp).                *)
(***************************************************************************)
THEOREM ThreadsTypeCorrect == Spec => []ThreadsTypeOK
<1>1. BufferInv /\ LoopInv /\ CounterInv => ThreadsTypeOK
  <2> SUFFICES ASSUME BufferInv, LoopInv, CounterInv PROVE ThreadsTypeOK
    OBVIOUS
  <2>1. global_counter \in 0 .. calls * Total
    BY AheadIsFinite, Totals, Products DEF CounterInv
  <2> QED
    BY <2>1 DEF BufferInv, LoopInv, CounterInv, ThreadsTypeOK
<1> QED
  BY <1>1, ThreadInvariants, PTL

(***************************************************************************)
(* Both, where it is the one of the sample functions that is called.       *)
(***************************************************************************)
THEOREM SampleCountsExactly == SampleSpec => [](ThreadsTypeOK /\ CounterIsTotal)
  BY CounterIsExact, ThreadsTypeCorrect, SampleImplementsThreads, PTL

=============================================================================
