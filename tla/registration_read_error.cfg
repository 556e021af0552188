SPECIFICATION Spec
CONSTANTS
  Writers = {p, q}
  Metadata = {m, n}
  Stamps = {1}
  MaxRevision = 2
  MaxFaults = 0
  MaxCrashes = 1
  GuardedClearing = TRUE
  Nobody = Nobody
  NoRegistration = NoRegistration
INVARIANTS
  OnlyServiceErrors
