SPECIFICATION SampleSpec
CONSTANTS
  Adders = {adder1, adder2, adder3, adder4}
  Consumers = {consumer1, consumer2, consumer3, consumer4}
  Producer = producer0
  LOOPS_PER_THREAD = 2
  BUFFER_SIZE = 3
  MaxCalls = 1
  Nobody = Nobody
INVARIANTS ThreadsTypeOK CounterIsTotal RingHolds NoLostWakeup NobodyIsStuck BufferDrains ChecksPass
PROPERTY EveryThreadJoins
CHECK_DEADLOCK FALSE
