SPECIFICATION FairSpec
CONSTANTS
  Limit = 2
  WinlogMax = 1
  MaxWritten = 2
  MaxRecorded = 1
  MaxRotations = 1
  MaxFaults = 1
  MaxStarts = 2
INVARIANTS
  TypeOK
  NothingIsFedTwice
  AwaitedBatchIsNewest
  LossIsExplained
  CountsAreBacked
PROPERTIES
  AgentSettles
CHECK_DEADLOCK FALSE
