--------------------------- MODULE ThreadFunctions ---------------------------
(***************************************************************************)
(* The threads of the repository: ecall_thread_functions of the App        *)
(* (App/TrustedLibrary/Thread.cpp) and the ecalls its threads run          *)
(* (Enclave/TrustedLibrary/Thread.cpp).  First the adders increase one     *)
(* counter, then a producer and consumers share one bounded buffer.        *)
(*                                                                         *)
(* Code under a mutex is cut where it reads what it or another thread      *)
(* writes: a shared counter is loaded, stored and compared in three steps, *)
(* the buffer is tested in one and changed in another.                     *)
(***************************************************************************)
EXTENDS Integers, FiniteSets

CONSTANTS
  Adders, Consumers,  \* four of each in the code
  Producer,
  LOOPS_PER_THREAD,
  BUFFER_SIZE,
  MaxCalls,           \* how often ecall_thread_functions is called
  Nobody              \* holds a free mutex

Threads == Adders \cup Consumers \cup {Producer}

ASSUME ThreadFunctionsAssumption ==
  /\ IsFiniteSet(Adders) /\ Adders # {} /\ IsFiniteSet(Consumers)
  /\ Cardinality(Adders) = Cardinality(Consumers)
  /\ Adders \cap Consumers = {} /\ Producer \notin Adders \cup Consumers
  /\ Nobody \notin Threads
  /\ LOOPS_PER_THREAD \in Nat \ {0} /\ BUFFER_SIZE \in Nat \ {0}
  /\ MaxCalls \in Nat

VARIABLES
  main,            \* adding, buffering; idle: not called; aborted by the assert
  calls,           \* how often ecall_thread_functions has been called
  pc,              \* the next step of each thread, see Steps
  loop,            \* its loop variable i
  tmp, ret,        \* local variables of ecall_increase_counter
  global_counter,  \* of the enclave
  counter,         \* of the App
  global_mutex,    \* who holds it
  mutex,           \* who holds the mutex of the buffer
  buffer,          \* the other numbers in it
  more, less       \* who waits for its condition variables

adding == <<tmp, ret, global_counter, counter, global_mutex>>
buffering == <<mutex, buffer, more, less>>
threadVars == <<main, calls, pc, loop, adding, buffering>>

Steps == {"lock", "load", "add", "compare", "return",
          "test", "wait", "change", "signal", "unlock", "done"}

\* 4 * LOOPS_PER_THREAD
Total == Cardinality(Adders) * LOOPS_PER_THREAD

\* Variant for the mutants: the producer's loop runs once too often.
RoundsOneMore(t) == IF t = Producer THEN Total + 1 ELSE LOOPS_PER_THREAD

Rounds(t) == IF t = Producer THEN Total ELSE LOOPS_PER_THREAD

Slots == 0 .. BUFFER_SIZE - 1

Init ==
  /\ main = "idle" /\ calls = 0
  /\ pc = [t \in Threads |-> "done"] /\ loop = [t \in Threads |-> 0]
  /\ tmp = [t \in Adders |-> 0] /\ ret = [t \in Adders |-> 0]
  /\ global_counter = 0 /\ counter = 0
  /\ global_mutex = Nobody /\ mutex = Nobody
  /\ buffer = [buf |-> [i \in Slots |-> 0], occupied |-> 0, nextin |-> 0, nextout |-> 0]
  /\ more = {} /\ less = {}

\* Thread t is at step, and goes on with next.
Goes(t, step, next) == pc[t] = step /\ pc' = [pc EXCEPT ![t] = next]

\* The end of the loop's body.
NextRound(t, after) ==
  /\ loop' = [loop EXCEPT ![t] = @ + 1]
  /\ Goes(t, "unlock", IF loop[t] + 1 < Rounds(t) THEN "lock" ELSE after)

-----------------------------------------------------------------------------
(* increase_counter and ecall_increase_counter, thread t *)

\* Variant for the mutants: no mutex.
AdderLocksNothing(t) ==
  /\ main = "adding" /\ Goes(t, "lock", "load")
  /\ UNCHANGED <<main, calls, loop, adding, buffering>>

AdderLocks(t) ==
  /\ main = "adding" /\ Goes(t, "lock", "load")
  /\ global_mutex = Nobody /\ global_mutex' = t
  /\ UNCHANGED <<main, calls, loop, tmp, ret, global_counter, counter, buffering>>

AdderLoads(t) ==
  /\ Goes(t, "load", "add")
  /\ tmp' = [tmp EXCEPT ![t] = global_counter]
  /\ UNCHANGED <<main, calls, loop, ret, global_counter, counter, global_mutex, buffering>>

AdderAdds(t) ==
  /\ Goes(t, "add", "compare")
  /\ tmp' = [tmp EXCEPT ![t] = @ + 1]
  /\ global_counter' = tmp[t] + 1
  /\ UNCHANGED <<main, calls, loop, ret, counter, global_mutex, buffering>>

AdderCompares(t) ==
  /\ Goes(t, "compare", "unlock")
  /\ ret' = IF global_counter = Total THEN [ret EXCEPT ![t] = global_counter] ELSE ret
  /\ UNCHANGED <<main, calls, loop, tmp, global_counter, counter, global_mutex, buffering>>

AdderUnlocks(t) ==
  /\ NextRound(t, "return")
  /\ tmp' = [tmp EXCEPT ![t] = 0]  \* its scope ends
  /\ global_mutex' = Nobody
  /\ UNCHANGED <<main, calls, ret, global_counter, counter, buffering>>

AdderReturns(t) ==
  /\ Goes(t, "return", "done")
  /\ counter' = IF ret[t] # 0 THEN ret[t] ELSE counter
  /\ ret' = [ret EXCEPT ![t] = 0]
  /\ UNCHANGED <<main, calls, loop, tmp, global_counter, global_mutex, buffering>>

-----------------------------------------------------------------------------
(* ecall_producer and ecall_consumer, thread t *)

BufferLocks(t) ==
  /\ main = "buffering" /\ Goes(t, "lock", "test")
  /\ mutex = Nobody /\ mutex' = t
  /\ UNCHANGED <<main, calls, loop, adding, buffer, more, less>>

\* sgx_thread_cond_wait frees the mutex; who is woken locks it and tests again.
ProducerWaits ==
  /\ Goes(Producer, "test", "wait")
  /\ buffer.occupied >= BUFFER_SIZE
  /\ less' = less \cup {Producer}
  /\ mutex' = Nobody
  /\ UNCHANGED <<main, calls, loop, adding, buffer, more>>

ConsumerWaits(t) ==
  /\ Goes(t, "test", "wait")
  /\ buffer.occupied <= 0
  /\ more' = more \cup {t}
  /\ mutex' = Nobody
  /\ UNCHANGED <<main, calls, loop, adding, buffer, less>>

ProducerFindsRoom ==
  /\ Goes(Producer, "test", "change")
  /\ buffer.occupied < BUFFER_SIZE
  /\ UNCHANGED <<main, calls, loop, adding, buffering>>

ProducerPuts ==
  /\ Goes(Producer, "change", "signal")
  /\ buffer' = [buf      |-> [buffer.buf EXCEPT ![buffer.nextin] = buffer.nextin],
                occupied |-> buffer.occupied + 1,
                nextin   |-> (buffer.nextin + 1) % BUFFER_SIZE,
                nextout  |-> buffer.nextout]
  /\ UNCHANGED <<main, calls, loop, adding, mutex, more, less>>

\* Variant for the mutants: if in place of while, what was tested has changed.
ConsumerFindsWhatever(t) ==
  /\ Goes(t, "test", "change")
  /\ UNCHANGED <<main, calls, loop, adding, buffering>>

ConsumerFindsItem(t) ==
  /\ Goes(t, "test", "change")
  /\ buffer.occupied > 0
  /\ UNCHANGED <<main, calls, loop, adding, buffering>>

\* Variant for the mutants: the slot is cleared after nextout moved on.
ConsumerTakesLate(t) ==
  /\ Goes(t, "change", "signal")
  /\ LET next == (buffer.nextout + 1) % BUFFER_SIZE
     IN  buffer' = [buffer EXCEPT !.buf[next] = 0, !.nextout = next, !.occupied = @ - 1]
  /\ UNCHANGED <<main, calls, loop, adding, mutex, more, less>>

ConsumerTakes(t) ==
  /\ Goes(t, "change", "signal")
  /\ buffer' = [buf      |-> [buffer.buf EXCEPT ![buffer.nextout] = 0],
                occupied |-> buffer.occupied - 1,
                nextin   |-> buffer.nextin,
                nextout  |-> (buffer.nextout + 1) % BUFFER_SIZE]
  /\ UNCHANGED <<main, calls, loop, adding, mutex, more, less>>

\* Thread t signals a condition variable: one of those waiting, if any, is woken.
Signals(t, waiting, rest) ==
  /\ pc[t] = "signal"
  /\ \/ /\ waiting = {} /\ rest = {}
        /\ pc' = [pc EXCEPT ![t] = "unlock"]
     \/ \E w \in waiting :
          /\ rest = waiting \ {w}
          /\ pc' = [pc EXCEPT ![t] = "unlock", ![w] = "lock"]
  /\ UNCHANGED <<main, calls, loop, adding, mutex, buffer>>

\* Variant for the mutants: only the first item of an empty buffer is signalled.
ProducerSignalsWhenEmpty ==
  /\ pc[Producer] = "signal"
  /\ IF buffer.occupied = 1
     THEN Signals(Producer, more, more') /\ UNCHANGED less
     ELSE /\ pc' = [pc EXCEPT ![Producer] = "unlock"]
          /\ UNCHANGED <<main, calls, loop, adding, buffering>>

ProducerSignals == Signals(Producer, more, more') /\ UNCHANGED less

\* Variant for the mutants: signals the other consumers.
ConsumerSignalsMore(t) == Signals(t, more, more') /\ UNCHANGED less

ConsumerSignals(t) == Signals(t, less, less') /\ UNCHANGED more

BufferUnlocks(t) ==
  /\ NextRound(t, "done")
  /\ mutex' = Nobody
  /\ UNCHANGED <<main, calls, adding, buffer, more, less>>

-----------------------------------------------------------------------------
(* ecall_thread_functions *)

\* A call: new threads; what is static in App and enclave stays as it is.
ThreadsStart ==
  /\ main = "idle" /\ calls < MaxCalls /\ \A t \in Threads : pc[t] = "done"
  /\ main' = "adding" /\ calls' = calls + 1
  /\ pc' = [t \in Threads |-> "lock"] /\ loop' = [t \in Threads |-> 0]
  /\ UNCHANGED <<adding, buffering>>

AddersJoined ==
  /\ main = "adding" /\ \A t \in Adders : pc[t] = "done"
  /\ main' = IF counter = Total THEN "buffering" ELSE "aborted"
  /\ UNCHANGED <<calls, pc, loop, adding, buffering>>

AllJoined ==
  /\ main = "buffering" /\ \A t \in Threads : pc[t] = "done"
  /\ main' = "idle"
  /\ UNCHANGED <<calls, pc, loop, adding, buffering>>

Adder(t) ==
  \/ AdderLocks(t) \/ AdderLoads(t) \/ AdderAdds(t)
  \/ AdderCompares(t) \/ AdderUnlocks(t) \/ AdderReturns(t)

Produce ==
  \/ BufferLocks(Producer) \/ ProducerWaits \/ ProducerFindsRoom
  \/ ProducerPuts \/ ProducerSignals \/ BufferUnlocks(Producer)

Consume(t) ==
  \/ BufferLocks(t) \/ ConsumerWaits(t) \/ ConsumerFindsItem(t)
  \/ ConsumerTakes(t) \/ ConsumerSignals(t) \/ BufferUnlocks(t)

Next ==
  \/ \E t \in Adders : Adder(t)
  \/ Produce
  \/ \E t \in Consumers : Consume(t)
  \/ ThreadsStart \/ AddersJoined \/ AllJoined

\* Every thread is scheduled while it can run.
Fairness ==
  /\ \A t \in Adders : WF_threadVars(Adder(t))
  /\ WF_threadVars(Produce)
  /\ \A t \in Consumers : WF_threadVars(Consume(t))
  /\ WF_threadVars(AddersJoined \/ AllJoined)

Spec == Init /\ [][Next]_threadVars

FairSpec == Spec /\ Fairness

=============================================================================
