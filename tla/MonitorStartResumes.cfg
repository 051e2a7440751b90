CONSTANTS
  Cpus = {0, 1}
  PollerCpu = 1
  PollPollerCore = FALSE
  Capacity = 2
  Clients = {c1, c2}
  MaxRounds = 2
  MaxIoctls = 3
  AvoidWindow = FALSE
SPECIFICATION FairSpec
PROPERTY
  StartResumes
CHECK_DEADLOCK FALSE
