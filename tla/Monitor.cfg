CONSTANTS
  Cpus = {0, 1, 2}
  PollerCpu = 1
  PollPollerCore = FALSE
  Capacity = 1
  Clients = {c1, c2}
  MaxRounds = 3
  MaxIoctls = 3
  AvoidWindow = FALSE
SPECIFICATION Spec
INVARIANTS
  RoundsAccounted
  PauseStops
  TeardownSafe
CHECK_DEADLOCK FALSE
