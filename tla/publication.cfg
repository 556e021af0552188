SPECIFICATION Spec
CONSTANTS
  Writers = {p, q}
  Series = {s}
  Academic = {s}
  Ids = {i, j}
  Metadata = {m}
  Reasons = {x}
  Digests = {d, e}
  Stamps = {1}
  MaxRevision = 2
  MaxRegistration = 1
  MaxChanges = 1
  MaxFaults = 1
  MaxCrashes = 1
  MaxAttempts = 2
  GuardedClearing = TRUE
  Nobody = Nobody
  None = None
CONSTRAINT FewDisturbances
SYMMETRY Symmetry
INVARIANTS
  PublicationInv
  SeriesIsChain
  WithdrawalHasRecord
  LockedHistoryIsSettled
