SPECIFICATION Spec
CONSTANTS
  Writers = {p, q}
  Series = {s}
  Academic = {s}
  Ids = {i, j}
  Metadata = {m}
  Reasons = {x}
  Digests = {d, e}
  Stamps = {1}
  MaxRevision = 1
  MaxRegistration = 1
  MaxChanges = 1
  MaxFaults = 0
  MaxCrashes = 0
  MaxAttempts = 1
  GuardedClearing = TRUE
  Nobody = Nobody
  None = None
SYMMETRY Symmetry
INVARIANTS
  ExistingIsDurable
