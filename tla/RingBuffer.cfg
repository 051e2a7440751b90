CONSTANTS
  BufferSize = 3
  MaxOffered = 6
  WriteFaults = TRUE
SPECIFICATION FairSpec
INVARIANTS
  TypeOK
  LogInOrder
  Conservation
PROPERTIES
  EveryEntryWritten
  AtomicQueue
CHECK_DEADLOCK FALSE
