CONSTANTS
  Cpus = {0, 1}
  PollerCpu = 1
  PollPollerCore = TRUE
  Capacity = 2
  Clients = {c1, c2}
  MaxRounds = 2
  MaxIoctls = 3
  AvoidWindow = TRUE
SPECIFICATION FairSpec
PROPERTIES
  StartResumes
  EverythingLogged
  UnloadTerminates
CHECK_DEADLOCK FALSE
