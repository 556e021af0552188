SPECIFICATION ClassFilesSpec
CONSTANTS
  w1 = w1
  w2 = w2
  Writers = {w1, w2}
  Calendars <- SomeCalendars
  SchoolYearDates <- YearDates
  MaxRevision = 3
  MaxDisturbances = 1
  None = None
  NoFile = NoFile
  NoParent = NoParent
  HalfCopied = HalfCopied
  Nobody = Nobody
  Students <- MCStudents
  Candidates <- MCCandidates
  ClassId = "c1"
  Identifiers = {"c1", "c2", "a", "b", "c"}
  Pupils <- MCPupils
  Creations <- MCCreations
  Imports <- MCImports
  Years = {"y1"}
  Times = {1, 2}
  ClassIds = {"c1", "c2"}
  ClassMetadata <- MCClassMetadata
  RosterContents = {"c1"}
  Timestamps = {1}
  Contents = {1, 2}
  Registry <- MCRegistry
  Registrations <- MCRegistrations
  Requests <- MCRequests
  Resolutions <- MCResolutions
SYMMETRY Symmetry
INVARIANTS
  TypesHold
  HistoryIsChained
  OrphanNeedsDisturbance
  ReadersFindCalendar
  ContentsHold
  RostersHold
  RetainedUnlessStruck
  ReviewRecordsHold
PROPERTIES
  ReferencesStayResolvable
  GuardedWritesHold
  SchoolRecordsHold
