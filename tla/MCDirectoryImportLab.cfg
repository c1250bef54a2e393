SPECIFICATION Spec
CONSTANTS
  t1 = t1
  t2 = t2
  Threads <- TwoThreads
  Entries <- SomeEntries
  Category <- TheirCategory
  Initial <- SomeDirectories
  Members <- SomeMembers
  Domain = Domain
  Honey = {h1}
  PageSize = 1
  MaxObjects = 2
  LabMode = TRUE
  NoSnapshot = NoSnapshot
  MaxCalls = 2
  MaxChanges = 1
INVARIANT CompleteUnlessTruncated
