SPECIFICATION Spec
CONSTANTS
  Limit = 2
  WinlogMax = 2
  MaxWritten = 0
  MaxRecorded = 2
  MaxRotations = 0
  MaxFaults = 0
  MaxStarts = 1
INVARIANTS
  RecordsAreNotSkipped
CHECK_DEADLOCK FALSE
