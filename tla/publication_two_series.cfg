SPECIFICATION Spec
CONSTANTS
  Writers = {p, q}
  Series = {s, t}
  Academic = {s}
  Ids = {i, j}
  Metadata = {m}
  Reasons = {x}
  Digests = {d}
  Stamps = {1}
  MaxRevision = 1
  MaxRegistration = 1
  MaxChanges = 0
  MaxFaults = 1
  MaxCrashes = 0
  MaxAttempts = 1
  GuardedClearing = FALSE
  Nobody = Nobody
  None = None
SYMMETRY Symmetry
INVARIANTS
  CreatedIsDurable
PROPERTIES
  SettledFilesAreImmutable
