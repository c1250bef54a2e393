SPECIFICATION Spec
CONSTANTS
  t1 = t1
  t2 = t2
  a = a
  b = b
  ou1 = ou1
  ou2 = ou2
  Threads <- TwoThreads
  Names <- TwoNames
  Plans <- SomePlans
  Ous <- TwoOus
  Settings <- SomeSettings
  Capacities = {1, 2}
  MaxDeploys = 2
  MaxFaults = 1
  MaxBoots = 2
SYMMETRY ThreadSymmetry
INVARIANTS
  LedgerIsFaithful
  TornDownMeansRemoved
  OrphansAreExplained
PROPERTIES
  ChangesStayInOu
  ChangesAreLive
