--------------------- MODULE ThreadFunctionsProperties ---------------------
(***************************************************************************)
(* What ecall_thread_functions relies on: that the counter is exact, that  *)
(* the buffer's numbers agree, that no wake-up is lost and that every      *)
(* thread can be joined.                                                   *)
(***************************************************************************)
EXTENDS ThreadFunctions

Numbers == [buf : [Slots -> Slots], occupied : 0 .. BUFFER_SIZE, nextin : Slots, nextout : Slots]

\* Types; what a condition variable queues is waiting for it.
ThreadsTypeOK ==
  /\ main \in {"idle", "adding", "buffering", "aborted"} /\ calls \in 0 .. MaxCalls
  /\ pc \in [Threads -> Steps] /\ loop \in [Threads -> 0 .. Total]
  /\ tmp \in [Adders -> 0 .. MaxCalls * Total] /\ ret \in [Adders -> {0, Total}]
  /\ global_counter \in 0 .. calls * Total /\ counter \in {0, Total}
  /\ global_mutex \in Adders \cup {Nobody} /\ mutex \in Threads \cup {Nobody}
  /\ buffer \in Numbers
  /\ more = {t \in Consumers : pc[t] = "wait"}
  /\ less = {t \in {Producer} : pc[t] = "wait"}

\* The assertion after the joins, App/TrustedLibrary/Thread.cpp:79, and what
\* it stands for: no increment was lost, and whichever adder made the last one
\* told the App, whose other adders told it nothing.
CounterIsTotal ==
  main # "adding" =>
    /\ main # "aborted"
    /\ global_counter = calls * Total
    /\ calls > 0 => counter = Total

\* The buffer is a ring: the occupied slots are those from nextout on, they
\* hold what the producer stored, their own index, and the others are zero
\* (Enclave/TrustedLibrary/Thread.cpp:84-87, 99-101).
RingHolds ==
  LET full == {(buffer.nextout + k) % BUFFER_SIZE : k \in 0 .. buffer.occupied - 1}
  IN  /\ buffer.nextin = (buffer.nextout + buffer.occupied) % BUFFER_SIZE
      /\ \A i \in Slots : buffer.buf[i] = IF i \in full THEN i ELSE 0

\* Consumers that will look at the buffer again without being woken.
Awake == {t \in Consumers : pc[t] \in {"lock", "test", "change"}}

\* Is a consumer about to be woken?
Telling == IF pc[Producer] = "signal" THEN 1 ELSE 0

\* No wake-up is lost, although every signal wakes one thread only: while
\* consumers wait, every item has a consumer that is awake, or about to be
\* woken, to take it; the producer waits for a full buffer only, or is about
\* to be woken (lines 82-88 and 97-102 of the same file).
NoLostWakeup ==
  /\ more # {} => buffer.occupied <= Cardinality(Awake) + Telling
  /\ less # {} =>
       \/ buffer.occupied = BUFFER_SIZE
       \/ \E t \in Consumers : pc[t] = "signal"

\* The threads main waits for, App/TrustedLibrary/Thread.cpp:74-77 and 89-93.
Joined == {t \in Adders : main = "adding"}
          \cup {t \in Consumers \cup {Producer} : main = "buffering"}

\* Nothing keeps t from its next step.
CanRun(t) ==
  /\ pc[t] \notin {"wait", "done"}
  /\ pc[t] = "lock" => IF t \in Adders THEN global_mutex = Nobody ELSE mutex = Nobody

\* Main never waits for threads that all wait for each other: for a mutex, or
\* on the two condition variables, where whoever is the last to end could leave
\* the others asleep (Enclave/TrustedLibrary/Thread.cpp:67, 81-88, 96-102).
NobodyIsStuck ==
  (\E t \in Joined : pc[t] # "done") => \E t \in Joined : CanRun(t)

\* The consumers take as many items as the producer puts: four loops against
\* one of four times the length, and none is left in the buffer when they have
\* been joined (lines 79 and 94 of the same file).
BufferDrains == main # "buffering" => buffer.occupied = 0

\* Every thread ends and is joined: ecall_thread_functions returns (App/TrustedLibrary/Thread.cpp:74-77 and 89-93).
EveryThreadJoins == main = "adding" ~> main = "idle"

=============================================================================
