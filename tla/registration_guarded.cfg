SPECIFICATION FairSpec
CONSTANTS
  Writers = {p, q}
  Metadata = {m, n}
  Stamps = {1}
  MaxRevision = 3
  MaxFaults = 2
  MaxCrashes = 1
  GuardedClearing = TRUE
  Nobody = Nobody
  NoRegistration = NoRegistration
INVARIANTS
  MutualExclusion
PROPERTIES
  LockedScanFindsRealOrphans
  HistoryGrows
