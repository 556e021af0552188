-------------------------------- MODULE Standards --------------------------------
(***************************************************************************)
(* The shared standards library as a value, its edits, and the merge of a  *)
(* bundled starter pack into it. A library maps the IDs of its standards,  *)
(* profiles and frameworks to                                              *)
(*                                                                         *)
(*   standards   [text, active]                                            *)
(*   profiles    [standards, text]       standards is a set of IDs         *)
(*   frameworks  [source, text]                                            *)
(*                                                                         *)
(* The code keeps sequences; their order reaches only displays and files.  *)
(* An edit is {} where the code raises and {result} otherwise.             *)
(***************************************************************************)
EXTENDS Integers, FiniteSets

EmptyLibrary == [standards |-> << >>, profiles |-> << >>, frameworks |-> << >>]

Put(f, id, value) == [i \in DOMAIN f \cup {id} |-> IF i = id THEN value ELSE f[i]]

(* _normalize_standards_library *)
ValidLibrary(l) ==
  /\ \A p \in DOMAIN l.profiles : l.profiles[p].standards \subseteq DOMAIN l.standards
  /\ \A f, g \in DOMAIN l.frameworks : l.frameworks[f].source = l.frameworks[g].source => f = g

(* What every library is: three tables, in which the references above resolve. *)
IsTable(f) == f = [id \in DOMAIN f |-> f[id]]
IsLibrary(l) ==
  /\ l = [standards |-> l.standards, profiles |-> l.profiles, frameworks |-> l.frameworks]
  /\ IsTable(l.standards) /\ IsTable(l.profiles) /\ IsTable(l.frameworks)
  /\ ValidLibrary(l)

Checked(l) == IF ValidLibrary(l) THEN {l} ELSE {}

-----------------------------------------------------------------------------
(* Edits of standards.py and of the standards commands. *)

(* Definitions are a function from IDs, so that a batch has no ID twice. *)
add_standard_definitions(l, definitions) ==
  IF DOMAIN definitions = {} \/ DOMAIN definitions \cap DOMAIN l.standards # {} THEN {}
  ELSE Checked([l EXCEPT !.standards =
         [id \in DOMAIN l.standards \cup DOMAIN definitions |->
            IF id \in DOMAIN definitions THEN definitions[id] ELSE l.standards[id]]])

upsert_standard_definition(l, id, definition) ==
  Checked([l EXCEPT !.standards = Put(l.standards, id, definition)])

replace_standard_definition(l, id, definition) ==
  IF id \in DOMAIN l.standards THEN upsert_standard_definition(l, id, definition) ELSE {}

set_standard_active(l, id, active, force) ==
  IF id \notin DOMAIN l.standards THEN {}
  ELSE IF l.standards[id].active = active /\ ~ force THEN {}
  ELSE replace_standard_definition(l, id, [l.standards[id] EXCEPT !.active = active])

upsert_standards_profile(l, id, profile) ==
  Checked([l EXCEPT !.profiles = Put(l.profiles, id, profile)])

add_standards_profile(l, id, profile) ==
  IF id \in DOMAIN l.profiles THEN {} ELSE upsert_standards_profile(l, id, profile)

replace_standards_profile(l, id, profile) ==
  IF id \in DOMAIN l.profiles THEN upsert_standards_profile(l, id, profile) ELSE {}

(* _profile_membership_request *)
RequestAccepted(l, profile, ids, empty) ==
  /\ profile \in DOMAIN l.profiles
  /\ ids = {} => empty
  /\ ids \subseteq DOMAIN l.standards

SetMembers(l, profile, ids) ==
  replace_standards_profile(l, profile, [l.profiles[profile] EXCEPT !.standards = ids])

add_standards_to_profile(l, profile, ids) ==
  IF RequestAccepted(l, profile, ids, FALSE) /\ ids \cap l.profiles[profile].standards = {}
  THEN SetMembers(l, profile, l.profiles[profile].standards \cup ids) ELSE {}

remove_standards_from_profile(l, profile, ids) ==
  IF RequestAccepted(l, profile, ids, FALSE) /\ ids \subseteq l.profiles[profile].standards
  THEN SetMembers(l, profile, l.profiles[profile].standards \ ids) ELSE {}

set_profile_standards(l, profile, ids) ==
  IF RequestAccepted(l, profile, ids, TRUE) THEN SetMembers(l, profile, ids) ELSE {}

(* validate_profile_standard_selection *)
SelectionAccepted(l, profile, ids) ==
  /\ profile \in DOMAIN l.profiles
  /\ ids \subseteq DOMAIN l.standards
  /\ ids \subseteq l.profiles[profile].standards

(* list_standards_for_profile_selection, by default the active ones. *)
Selectable(l, profile) == {id \in l.profiles[profile].standards : l.standards[id].active}

-----------------------------------------------------------------------------
(* merge_standards_libraries *)

Conflicts(existing, incoming) ==
  {id \in DOMAIN existing \cap DOMAIN incoming : existing[id] # incoming[id]}

AllConflicts(l, pack) ==
  Conflicts(l.standards, pack.standards) \cup Conflicts(l.profiles, pack.profiles)
    \cup Conflicts(l.frameworks, pack.frameworks)

Added(existing, incoming) == DOMAIN incoming \ DOMAIN existing

(* Mutant of Merged: the teacher's record wins even when told to overwrite. *)
MergedKeeping(existing, incoming) ==
  [id \in DOMAIN existing \cup DOMAIN incoming |->
     IF id \in DOMAIN existing THEN existing[id] ELSE incoming[id]]

Merged(existing, incoming) ==
  [id \in DOMAIN existing \cup DOMAIN incoming |->
     IF id \in DOMAIN incoming THEN incoming[id] ELSE existing[id]]

(* A source that belongs to another framework raises, whatever overwriting says. *)
SourceTaken(l, pack) ==
  \E f \in DOMAIN l.frameworks, g \in DOMAIN pack.frameworks :
    f # g /\ l.frameworks[f].source = pack.frameworks[g].source

(***************************************************************************)
(* install_starter_standards_library: {} where it raises, else the library *)
(* and whether it is written.                                              *)
(***************************************************************************)
Installed(l, pack, overwriting) ==
  IF SourceTaken(l, pack) \/ (AllConflicts(l, pack) # {} /\ ~ overwriting) THEN {}
  ELSE LET merged == [standards  |-> Merged(l.standards, pack.standards),
                      profiles   |-> Merged(l.profiles, pack.profiles),
                      frameworks |-> Merged(l.frameworks, pack.frameworks)]
           changed == AllConflicts(l, pack) \cup Added(l.standards, pack.standards)
                        \cup Added(l.profiles, pack.profiles) \cup Added(l.frameworks, pack.frameworks)
       IN {[library |-> merged, written |-> changed # {}]}

(***************************************************************************)
(* Installing a pack into any library there is: the result is valid, keeps *)
(* every ID of the teacher, contains the pack; without leave to overwrite  *)
(* it leaves what was there as it was; and a second installation of the    *)
(* same pack has nothing to write.                                         *)
(***************************************************************************)
Contains(f, g) == \A id \in DOMAIN g : id \in DOMAIN f /\ f[id] = g[id]
Holds(l, m) ==
  Contains(l.standards, m.standards) /\ Contains(l.profiles, m.profiles) /\ Contains(l.frameworks, m.frameworks)

InstallIsSafe(l, pack) ==
  \A overwriting \in BOOLEAN :
    \A result \in Installed(l, pack, overwriting) :
      /\ ValidLibrary(result.library)
      /\ Holds(result.library, pack)
      /\ DOMAIN l.standards \subseteq DOMAIN result.library.standards
      /\ DOMAIN l.profiles \subseteq DOMAIN result.library.profiles
      /\ DOMAIN l.frameworks \subseteq DOMAIN result.library.frameworks
      /\ ~ overwriting => Holds(result.library, l)
      /\ ~ result.written => result.library = l
      /\ Installed(result.library, pack, overwriting) = {[library |-> result.library, written |-> FALSE]}
=============================================================================
