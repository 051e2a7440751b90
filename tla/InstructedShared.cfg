CONSTANTS
  Cpus = {2}
  Callers = {0, 1}
  CpuOf <- SameCpu
  Concurrent = TRUE
  Workers = {w1, w2}
  Capacity = 2
  MaxCalls = 2
SPECIFICATION ProfileFairSpec
INVARIANT
  ExactlyOnce
CHECK_DEADLOCK FALSE
