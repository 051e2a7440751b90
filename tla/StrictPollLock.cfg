CONSTANTS
  TwoCpus = {c1, c2}
  PollBuilds <- InstructedBuild
  MaxRounds = 2
SPECIFICATION PollFairSpec
PROPERTY
  PollingGoesOn
CHECK_DEADLOCK FALSE
