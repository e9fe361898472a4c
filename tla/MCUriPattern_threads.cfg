CONSTANTS
  t1 = t1
  t2 = t2
  t3 = t3
  Threads <- MCThreads
  MaxCalls = 2
  MaxFaults = 1
SPECIFICATION Spec
INVARIANTS TypeOK OnlyColdCallsCompile WarmUpIsEnough CompilesOncePerThread
SYMMETRY MCSymmetry
\* The calls are used up, or the process has crashed.
CHECK_DEADLOCK FALSE
