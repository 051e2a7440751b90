CONSTANTS
  Cpus = {1, 2}
  Threads = {t1, t2}
  Idle = idle
  MaxSwitches = 5
  MaxLost = 1
  Mutexes = {m1, m2}
  MaxEvents = 7
  Cores = {1, 2}
  MaxEntries = 5
  MaxTs = 2
  Unit = 2
  Events = {e1, e2}
  MaxScripts = 4
  MaxPolls = 6
  MaxStep = 1
  NumProcesses = 3
  MaxInvocations = 4
SPECIFICATION Spec
INVARIANTS
  IntervalsTrue  RatesTrue StoredOnce 
PROPERTIES
  PoolEnds
