CONSTANTS
  MaxThreads = 3
  MaxIndex = 4
  MaxBlock = 3
SPECIFICATION Spec
INVARIANTS TypeOK ExactlyOnce NoWorkerOutlivesCall CounterBound
PROPERTIES PerThreadOrder ImplementsParallelFor
