SPECIFICATION Spec
CONSTANTS
  t1 = t1
  t2 = t2
  d1 = d1
  NoDecoy = NoDecoy
  Threads <- TwoThreads
  Decoys <- OneDecoy
  Deployments <- SomeDeployments
  SimulateCounts <- Counts
  MaxEvents = 2
  MaxBurst = 2
  SeedCount = 1
  MaxBatch = 1
  MaxOffered = 2
  MaxBoots = 2
SYMMETRY ThreadSymmetry
INVARIANTS
  TypeOK
  FeedIsNewestWindow
  FileBelongsToHistory
  AcknowledgementSticks
  PublishedIsListed
PROPERTY ImplementsLog
