-------------------------------- MODULE ClassFiles --------------------------------
(***************************************************************************)
(* What a workspace keeps of classes and school years, in one              *)
(* specification: the calendars of a year, a class roster, school years    *)
(* and class metadata, retained scans and the records of scan review. They *)
(* share no file, so what one of them does changes nothing for another: a  *)
(* behaviour moves the active one only. Each component keeps its own       *)
(* variables; those it has under a common name (pc, lock, outcome,         *)
(* candidate, seen, returned, disturbances) are one variable here. The     *)
(* calendars' own, and those they share, are as they are at rest when      *)
(* another component moves; the other components' are None then.           *)
(***************************************************************************)
EXTENDS CalendarInvariant

CONSTANTS
  NoFile, HalfCopied,
  Students, Candidates,                          \* RosterStore
  ClassId, Identifiers, Pupils, Creations, Imports,  \* Rosters
  Years, Times, ClassIds, ClassMetadata, RosterContents, \* SchoolRecords
  Timestamps, Contents,                          \* ScanRetention
  Registry, Registrations, Requests, Resolutions \* ScanReview

(* What stands for nothing is nothing that a file may hold. *)
ASSUME FilesAssumption ==
  /\ HalfCopied # NoFile /\ NoFile \notin Contents /\ NoFile \notin [maker : Writers, bytes : Contents \cup {HalfCopied}]
  /\ Candidates \subseteq Seq(Students) /\ NoFile \notin Candidates
  /\ Times \subseteq Nat /\ None \notin [year : Years, opened_at : Times, closed_at : Times \cup {None}]
  /\ None \notin ClassIds /\ \A m \in ClassMetadata : m.class_id # None

VARIABLES
  active, returned,
  roster, kind, overwrite, preview, wrote,
  sheet,
  year, folders, request, seen,
  source, retained, path, copied, struck,
  files, task, handled, takenBack

calendarVars == <<revision, current, expected>>
rosterVars == <<roster, kind, overwrite, preview, wrote>>
recordVars == <<year, folders, request, seen>>
retentionVars == <<source, retained, path, copied, struck>>
reviewVars == <<files, task, handled, takenBack>>
classFilesVars ==
  <<active, pc, lock, outcome, candidate, returned, disturbances, calendarVars, rosterVars, sheet, recordVars, retentionVars,
    reviewVars>>

Roster == INSTANCE RosterStore
Cells == INSTANCE Rosters WITH Students <- Pupils
Record == INSTANCE SchoolRecords WITH Terminals <- Writers, call <- request
Retention == INSTANCE ScanRetention WITH Intakes <- Writers
Review == INSTANCE ScanReview WITH Workers <- Writers

-----------------------------------------------------------------------------
NoCalendar ==
  revision = [r \in Revisions |-> Absent] /\ current = None /\ expected = [w \in Writers |-> None]
NoRoster == roster = None /\ kind = None /\ overwrite = None /\ preview = None /\ wrote = None
NoRecords == year = None /\ folders = None /\ request = None /\ seen = None
NoRetention == source = None /\ retained = None /\ path = None /\ copied = None /\ struck = None
NoReview == files = None /\ task = None /\ handled = None /\ takenBack = None

AtRest == [w \in Writers |-> "idle"]

(* What a component that is not the active one has: nothing. *)
Without(components, nothing) == IF active \in components THEN TRUE ELSE nothing
ClassFilesInit ==
  /\ \/ (active = "calendar" /\ Init)
     \/ (active = "roster" /\ Roster!Init)
     \/ (active = "cells" /\ Cells!Init)
     \/ (active = "records" /\ Record!Init)
     \/ (active = "retention" /\ Retention!Init)
     \/ (active = "review" /\ Review!Init)
  /\ Without({"calendar"}, NoCalendar)
  /\ Without({"roster"}, NoRoster)
  /\ Without({"cells"}, sheet = NoFile)
  /\ Without({"records"}, NoRecords)
  /\ Without({"retention"}, NoRetention)
  /\ Without({"review"}, NoReview)
  /\ Without({"calendar", "roster"}, 
       lock = Nobody /\ outcome = [w \in Writers |-> "none"] /\ candidate = [w \in Writers |-> None])
  /\ Without({"retention", "review"}, returned = None)
  /\ IF active = "cells" THEN pc = AtRest /\ disturbances = 0 ELSE TRUE

Unless(components, variables) == IF active \in components THEN TRUE ELSE UNCHANGED variables
OthersStay ==
  /\ UNCHANGED active
  /\ Unless({"calendar"}, calendarVars)
  /\ Unless({"roster"}, rosterVars)
  /\ Unless({"cells"}, sheet)
  /\ Unless({"records"}, recordVars)
  /\ Unless({"retention"}, retentionVars)
  /\ Unless({"review"}, reviewVars)
  /\ Unless({"calendar", "roster"}, <<lock, outcome, candidate>>)
  /\ Unless({"retention", "review"}, returned)
  /\ active = "cells" => UNCHANGED <<pc, disturbances>>

OnCalendar == active = "calendar" /\ Next /\ OthersStay
OnRoster == active = "roster" /\ Roster!Next /\ OthersStay
OnCells == active = "cells" /\ Cells!Next /\ OthersStay
OnRecords == active = "records" /\ Record!Next /\ OthersStay
OnRetention == active = "retention" /\ Retention!Next /\ OthersStay
OnReview == active = "review" /\ Review!Next /\ OthersStay
ClassFilesNext == OnCalendar \/ OnRoster \/ OnCells \/ OnRecords \/ OnRetention \/ OnReview

ClassFilesSpec == ClassFilesInit /\ [][ClassFilesNext]_classFilesVars

-----------------------------------------------------------------------------
(* The types of the components, and all that the proofs about them rest on. *)
TypesHold ==
  CASE active = "calendar" -> CalendarInv
    [] active = "roster" -> Roster!RosterInv
    [] active = "records" -> Record!RecordsInv
    [] active = "retention" -> Retention!RetentionInv
    [] active = "review" -> Review!ReviewInv
    [] OTHER -> disturbances \in 0 .. MaxDisturbances

(* The properties of the other components, stated and explained in their modules. *)
(* RosterStore: an import replaces what was reviewed, a creation nothing. *)
GuardedWritesHold == [][active = "roster" => Roster!CommitIsGuarded /\ Roster!CreationIsExclusive]_classFilesVars
(* RosterStore: previews leave out no student, and answers are true. *)
RostersHold == active = "roster" => Roster!PreviewAccountsForEveryStudent /\ Roster!AnswersAreTrue
(* AcademicPeriods and Rosters: all queries agree on a calendar that is selected, a roster that is written loads. *)
ContentsHold ==
  /\ active = "calendar" => SelectedCalendarsAnswer
  /\ active = "cells" => Cells!WrittenRostersLoad
(* ScanRetention: retained copies keep their bytes, but for those that a failing intake has struck. *)
RetainedUnlessStruck == active = "retention" => Retention!RetainedUnlessStruck
(* ScanReview: written records stay as they are, and decisions rest on records that are stored. *)
ReviewRecordsHold == active = "review" => Review!RecordsStay /\ Review!DecisionsStayFounded
(* SchoolRecords: years and class metadata are replaced unasked only by one who met another, listings are sound. *)
SchoolRecordsHold ==
  /\ [](active = "records" => Record!ListingIsSound)
  /\ [][active = "records" => Record!YearStep /\ Record!MetadataStep]_classFilesVars
=============================================================================
