SPECIFICATION Spec
CONSTANTS
  Prefixes = {"hw_", "file", "h:", "h+"}
  NoPrefix = ""
  DefaultPrefix = "hw_"
  Odd = {"h:", "h+"}
  Mangled = "h"
  Escaped <- PlusEscaped
  Names = {"alex.hale", "FILE01"}
  Exact <- ExactPairs
  Folded <- FoldedPairs
  Modes = {{"env"}, {"env", "ldap"}}
  Units = {"OU=Honey", "OU=Lab"}
  Under <- Nested
  NoUnit = "none"
  Nothing = Nothing
INVARIANTS
  ProductionHasItsUnit
  StampedNamesPass
  DirectoryKnowsTheName
  LiveWritesAreMarked
  RefusedOnlyAfterEdit
