CONSTANTS
  TwoCpus = {c1, c2}
  PollBuilds <- UntimedBuild
  MaxRounds = 2
SPECIFICATION PollSpec
INVARIANT
  PolledEntriesReady
CHECK_DEADLOCK FALSE
