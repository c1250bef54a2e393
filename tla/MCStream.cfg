SPECIFICATION FairSpec
CONSTANTS
  Threads = {t1, t2}
  LastStream = 1
  QueueSize = 1
  MaxBurst = 2
  Clocks <- TwoClocks
  Limit = 1
  FeedSize = 2
  MaxEvents = 3
INVARIANTS
  TypeOK
  NoAlertIsMissed
PROPERTIES
  AlertsAreShown
  StreamsAreReleased
CHECK_DEADLOCK FALSE
