SPECIFICATION Spec
CONSTANTS
  Writers = {p, q}
  Metadata = {m, n}
  Stamps = {1, 2}
  MaxRevision = 3
  MaxFaults = 1
  MaxCrashes = 1
  GuardedClearing = FALSE
  Nobody = Nobody
  NoRegistration = NoRegistration
SYMMETRY Symmetry
INVARIANTS
  IInv
  SelectedHistory
  OneUnselectedRevision
  AcknowledgedIsDurable
  PlainFailureLeftNothing
PROPERTIES
  HistoryIsImmutable
  OrphanNeverPromoted
  ImplementsHistory
