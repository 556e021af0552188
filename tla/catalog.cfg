SPECIFICATION Spec
CONSTANTS
  Workers = {w1, w2}
  Histories = {"registrations"}
  Publications = {"a", "b", "c"}
  Record <- MCRecord
  InitialStores <- MCStores
  OtherFiles <- Damaged
  ClassContents = {101, Torn}
  MaxRevision = 2
  MaxEffort = 5
  MaxDisturbances = 1
  None = None
  Nobody = Nobody
  Torn = Torn
SYMMETRY Symmetry
CHECK_DEADLOCK FALSE
INVARIANTS
  InstalledIsRecent
  AuditIsRight
  CatalogHolds
PROPERTIES
  CatalogNeverGoesBack
