SPECIFICATION FairSpec
CONSTANTS
  Games = {g1, g2}
  MaxReplaysInMemory = 1
  RetryAttempts = 1
  Calls = {c1, c2}
  MaxSequence = 4
  MaxSaves = 1
INVARIANTS
  GoingOnIsRecorded
  RemovedIsReadable
  ReportedIsStored
CHECK_DEADLOCK FALSE
PROPERTIES
  StoredIsKept
  RemovalEnds
