SPECIFICATION WorkspaceFilesSpec
CONSTANTS
  w1 = w1
  w2 = w2
  Writers = {w1, w2}
  MaxDisturbances = 1
  None = None
  Signals <- MCSignals
  ClassRosters <- MCClassRosters
  LibraryWriters = {w1}
  StandardIds = {"s1", "s2"}
  Definitions <- MCDefinitions
  ProfileIds = {"p1"}
  Texts = {1}
  LibraryFiles <- MCLibraryFiles
  Packs <- MCPacks
  MenuStandardIds = {"s1"}
  SubpartsOf <- MCSubpartsOf
  MenuPacks <- MCMenuPacks
  Imports <- MCImports
  Batches <- MCBatches
  Events = {"e1", "e2", "e3"}
  Rewrites <- MCRewrites
  MaxLines = 3
  MaxLedgerFaults = 2
  EntryPoints <- MCEntryPoints
  MaxInstalled = 3
  Names = {"quiz", "grade"}
  OperationRequests <- MCOperationRequests
  PublicationsOnFile <- MCPublications
  PublicationRegistrations <- MCPublicationRegistrations
  RouteRequests <- MCRouteRequests
  Roots = {"home", "usb"}
  Default = "home"
  Environment <- MCEnvironment
  Descriptions <- MCDescriptions
  ProfileRecords <- MCProfileRecords
  UsageEvents <- MCUsageEvents
  MaxUsage = 2
  Years = {"y1", "y2"}
  Identifiers = {"c", "m", "W"}
  Lowercase = {"c", "m"}
  PublicationKinds = {"k"}
  LockFile <- MCLockFile
  ClassYears <- MCClassYears
  Artifacts <- MCArtifacts
  MaxArtifacts = 3
  Records <- MCRecords
  MaxRevision = 2
  MaxChanges = 2
  MaxTakeBacks = 1
  Requests <- MCRequests
INVARIANTS
  SignalsHold
  LibrariesHold
  AcknowledgedEventsStay
  AnswersAreTrue
  ProvidersAreContained
  SettingsAndLocksHold
PROPERTIES
  MenusWriteWhatWasAgreed
  SomeWriterWins
