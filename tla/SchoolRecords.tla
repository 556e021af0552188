----------------------------- MODULE SchoolRecords -----------------------------
(***************************************************************************)
(* The school year of a workspace and the metadata of its classes          *)
(* (school_years.py, class_metadata.py, classes.py): files that a terminal *)
(* looks at, and replaces in one step later, under no lock.                *)
(*                                                                         *)
(* A year is [year, opened_at, closed_at], metadata [class_id, year,       *)
(* created_at, updated_at]; times are numbers, None is no file or no time. *)
(***************************************************************************)
EXTENDS Integers, FiniteSets

CONSTANTS Terminals, Years, Times, ClassIds, ClassMetadata, RosterContents, MaxDisturbances, None

VARIABLES
  year,      \* settings/school_year.json
  folders,   \* the files of the class folders there are
  pc, call, seen,   \* per terminal: its next step, its call, the file it looked at
  disturbances

vars == <<year, folders, pc, call, seen, disturbances>>

YearState(y, opened, closed) == [year |-> y, opened_at |-> opened, closed_at |-> closed]
ValidYear(state) == state.closed_at # None => state.closed_at \geq state.opened_at
IsOpen(state) == state # None /\ state.closed_at = None
get_active_school_year == IF IsOpen(year) THEN year.year ELSE None

ValidMetadata(m) == m.updated_at \geq m.created_at

Init ==
  /\ year = None
  /\ folders = [c \in {} |-> None]
  /\ pc = [t \in Terminals |-> "idle"]
  /\ call = [t \in Terminals |-> None]
  /\ seen = [t \in Terminals |-> None]
  /\ disturbances = 0

NoFault == UNCHANGED disturbances
Fault == disturbances < MaxDisturbances /\ disturbances' = disturbances + 1

Goto(t, phase, what, look) ==
  /\ pc' = [pc EXCEPT ![t] = phase]
  /\ call' = [call EXCEPT ![t] = what]
  /\ seen' = [seen EXCEPT ![t] = look]
Return(t) == Goto(t, "idle", None, None)

-----------------------------------------------------------------------------
(* Mutant of OpenYear: a later opening replaces an open year unasked. *)
OpenYearUnasked(t, y, now, overwrite) ==
  /\ pc[t] = "idle" /\ (IsOpen(year) /\ now \leq year.opened_at => overwrite)
  /\ Goto(t, "write_year", [state |-> YearState(y, now, None), overwrite |-> overwrite], year)
  /\ UNCHANGED <<year, folders>> /\ NoFault

(* open_school_year up to its write: an open year is returned, or refused, unless overwrite. *)
OpenYear(t, y, now, overwrite) ==
  /\ pc[t] = "idle" /\ (overwrite \/ ~ IsOpen(year))
  /\ Goto(t, "write_year", [state |-> YearState(y, now, None), overwrite |-> overwrite], year)
  /\ UNCHANGED <<year, folders>> /\ NoFault

(* close_school_year up to its write. *)
CloseYear(t, now) ==
  /\ pc[t] = "idle" /\ IsOpen(year)
  /\ LET closed == [year EXCEPT !.closed_at = now]
     IN ValidYear(closed) /\ Goto(t, "write_year", [state |-> closed, overwrite |-> FALSE], year)
  /\ UNCHANGED <<year, folders>> /\ NoFault

(* _write_state *)
WriteYear(t) ==
  /\ pc[t] = "write_year"
  /\ year' = call[t].state /\ Return(t)
  /\ UNCHANGED folders /\ NoFault

-----------------------------------------------------------------------------
Empty == [roster |-> None, metadata |-> None]

(* ensure_class_folder *)
EnsureFolder(t, c) ==
  /\ pc[t] = "idle" /\ c \notin DOMAIN folders
  /\ folders' = [d \in DOMAIN folders \cup {c} |-> IF d = c THEN Empty ELSE folders[d]]
  /\ UNCHANGED <<year, pc, call, seen>> /\ NoFault

(* What another module, or a teacher with a file manager, makes of a roster: see RosterStore. *)
RosterAppears(c, content) ==
  /\ c \in DOMAIN folders /\ folders[c].roster = None
  /\ folders' = [folders EXCEPT ![c].roster = content]
  /\ UNCHANGED <<year, pc, call, seen>> /\ NoFault

(* write_class_metadata_for_class up to its write; a new class is created on the way. *)
WriteMetadata(t, m, overwrite) ==
  /\ pc[t] = "idle" /\ ValidMetadata(m)
  /\ LET found == IF m.class_id \in DOMAIN folders THEN folders[m.class_id].metadata ELSE None
     IN (overwrite \/ found = None) /\ Goto(t, "make_folder", [metadata |-> m, overwrite |-> overwrite], found)
  /\ UNCHANGED <<year, folders>> /\ NoFault

MakeFolder(t) ==
  /\ pc[t] = "make_folder" /\ Goto(t, "write_metadata", call[t], seen[t])
  /\ LET c == call[t].metadata.class_id
     IN folders' = [d \in DOMAIN folders \cup {c} |-> IF d \in DOMAIN folders THEN folders[d] ELSE Empty]
  /\ UNCHANGED year /\ NoFault

ReplaceMetadata(t) ==
  /\ pc[t] = "write_metadata" /\ Return(t)
  /\ folders' = [folders EXCEPT ![call[t].metadata.class_id].metadata = call[t].metadata]
  /\ UNCHANGED year /\ NoFault

Fails(t) == pc[t] # "idle" /\ Return(t) /\ UNCHANGED <<year, folders>> /\ Fault

(* load_class_roster, load_class_metadata_for_class: {} where they raise. *)
LoadRoster(c) == {r \in {folders[c].roster} \ {None} : r = c}
LoadMetadata(c) == {m \in {folders[c].metadata} \ {None} : m.class_id = c}

list_class_folders(require_roster, load_rosters, require_metadata, load_metadata) ==
  {c \in DOMAIN folders :
     /\ require_roster \/ load_rosters => folders[c].roster # None
     /\ require_metadata \/ load_metadata => folders[c].metadata # None
     /\ load_rosters => LoadRoster(c) # {}
     /\ load_metadata => LoadMetadata(c) # {}}

Next ==
  \/ \E t \in Terminals :
       \/ \E y \in Years, now \in Times, overwrite \in BOOLEAN : OpenYear(t, y, now, overwrite)
       \/ \E now \in Times : CloseYear(t, now)
       \/ WriteYear(t)
       \/ \E c \in ClassIds : EnsureFolder(t, c)
       \/ \E m \in ClassMetadata, overwrite \in BOOLEAN : WriteMetadata(t, m, overwrite)
       \/ MakeFolder(t) \/ ReplaceMetadata(t) \/ Fails(t)
  \/ \E c \in ClassIds, content \in RosterContents : RosterAppears(c, content)

Spec == Init /\ [][Next]_vars

-----------------------------------------------------------------------------
(***************************************************************************)
(* Between its look at the year and its write a terminal may lose to       *)
(* another, for nothing locks the file. One that nobody met in between     *)
(* replaces no open year unless it was told to, closes only what is open,  *)
(* and closes it as it was opened.                                         *)
(***************************************************************************)
YearStep ==
  \A t \in Terminals :
    pc[t] = "write_year" /\ pc'[t] = "idle" /\ year' # year /\ year = seen[t] =>
      /\ ValidYear(year')
      /\ IsOpen(year) /\ IsOpen(year') => call[t].overwrite
      /\ ~ IsOpen(year') => IsOpen(year) /\ year' = [year EXCEPT !.closed_at = year'.closed_at]

(***************************************************************************)
(* Class metadata, too, is only replaced unasked by a terminal that met    *)
(* another; and every folder that its files put beyond doubt is listed     *)
(* however much the caller asks for, a doubtful one never with its files.  *)
(***************************************************************************)
MetadataStep ==
  \A t \in Terminals :
    pc[t] = "write_metadata" /\ pc'[t] = "idle" /\ folders' # folders =>
      LET c == call[t].metadata.class_id
      IN folders[c].metadata # None /\ folders[c].metadata = seen[t] => call[t].overwrite

ListingIsSound ==
  \A roster, loaded, metadata, read \in BOOLEAN :
    LET listed == list_class_folders(roster, loaded, metadata, read)
    IN /\ list_class_folders(TRUE, TRUE, TRUE, TRUE) \subseteq listed
       /\ loaded => \A c \in listed : folders[c].roster = c
       /\ read => \A c \in listed : folders[c].metadata.class_id = c /\ ValidMetadata(folders[c].metadata)
       /\ \A c \in DOMAIN folders : folders[c].roster = c /\ folders[c].metadata # None => c \in listed

(***************************************************************************)
(* What these properties rest on: what a terminal is about to write fits   *)
(* what it has seen, and metadata lie in the folder of their class.        *)
(***************************************************************************)
YearStates == [year : Years, opened_at : Times, closed_at : Times \cup {None}]

YearFits(t) ==
  pc[t] = "write_year" =>
    LET state == call[t].state
    IN /\ ValidYear(state) /\ state \in YearStates
       /\ IsOpen(state) /\ IsOpen(seen[t]) => call[t].overwrite
       /\ ~ IsOpen(state) => IsOpen(seen[t]) /\ state = [seen[t] EXCEPT !.closed_at = state.closed_at]

MetadataFits(t) ==
  pc[t] \in {"make_folder", "write_metadata"} =>
    /\ call[t].metadata \in ClassMetadata /\ ValidMetadata(call[t].metadata)
    /\ call[t].overwrite \/ seen[t] = None
    /\ pc[t] = "write_metadata" => call[t].metadata.class_id \in DOMAIN folders

FolderFits(c) ==
  /\ c # None /\ DOMAIN folders[c] = {"roster", "metadata"}
  /\ folders[c].metadata # None => folders[c].metadata.class_id = c /\ ValidMetadata(folders[c].metadata)

RecordsInv ==
  /\ disturbances \in 0 .. MaxDisturbances
  /\ year \in YearStates \cup {None}
  /\ pc \in [Terminals -> {"idle", "write_year", "make_folder", "write_metadata"}]
  /\ DOMAIN call = Terminals /\ DOMAIN seen = Terminals
  /\ \A t \in Terminals : YearFits(t) /\ MetadataFits(t)
  /\ \A c \in DOMAIN folders : FolderFits(c)
=============================================================================
