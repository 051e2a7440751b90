CHECK_DEADLOCK FALSE
CONSTANTS
  Cpus = {2, 3}
  Callers = {0, 1}
  CpuOf <- OwnCpus
  Concurrent = TRUE
  Workers = {w1, w2}
  Capacity = 1
  MaxCalls = 3
  StrictCpus = {c1, c2, c3}
  FaultsCpus = {c1, c2}
  PollBuilds <- DriverBuilds
  MaxRounds = 3
  NCores = 3
  MAX_CORES = 3
  RmidSpace = 4
  DefaultMax = 2
  RawMax = {0, 1, 7}
  UserRmids = {0, 5}
  Clients = {t1, t2}
  MaxLoads = 2
  MaxInsmods = 2
  Threads = {t1, t2}
  NFds = 2
  MaxApiCalls = 2
  MaxUnits = 3
  MaxTables = 2
  MAX_IMC_PMUS = 2
  MaxFailures = 1
  MaxTicks = 1
  NetThreads = {c1, c2}
  MaxNetCalls = 1
  RingSize = 2
  LogSize = 2
SPECIFICATION Spec
INVARIANTS
  OperationsOnce RoundsSynchronous RmidsTrue LoadsLeaveNoTrace CallsSafe PmusInBounds
  PollsAreSnapshots 
PROPERTIES
  ReturnMeansLogged ComesToRest
