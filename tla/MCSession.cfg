SPECIFICATION Spec
CONSTANTS
  t1 = t1
  t2 = t2
  b1 = b1
  b2 = b2
  Threads <- TwoThreads
  Browsers <- TwoBrowsers
  NoBrowser = NoBrowser
  Profiles <- SomeProfiles
  LegacyProfiles <- OldProfiles
  NoProfile = NoProfile
  Passwords = {p1}
  Blank = Blank
  Absent = Absent
  SettingsProfile <- TheSettings
  SettingsPassword = Blank
  Retries = 2
  MaxIds = 2
  MaxRequests = 3
INVARIANTS
  VaultHoldsOwnSecrets
  LogoutTakesTheEntry
  SequentialUseIsCoherent
  ReadyMeansBound
SYMMETRY Symmetry
