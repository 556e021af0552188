SPECIFICATION Spec
CONSTANTS
  Writers = {p, q}
  Series = {s}
  Academic = {s}
  Ids = {i, j}
  Metadata = {m}
  Reasons = {x}
  Digests = {d}
  Stamps = {1}
  MaxRevision = 1
  MaxRegistration = 2
  MaxChanges = 0
  MaxFaults = 0
  MaxCrashes = 0
  MaxAttempts = 1
  GuardedClearing = TRUE
  Nobody = Nobody
  None = None
SYMMETRY Symmetry
PROPERTIES
  RegistrationIsCurrent
