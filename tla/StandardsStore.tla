----------------------------- MODULE StandardsStore -----------------------------
(***************************************************************************)
(* The file library.json of the standards component: every command loads   *)
(* it, computes a library from it and overwrites it. There is no lock, so  *)
(* of two commands at once the last writer wins.                           *)
(***************************************************************************)
EXTENDS Standards

CONSTANTS
  Writers,                 \* the processes
  StandardIds, Definitions, \* the standards commands name, and what they say of one
  ProfileIds, Texts,        \* the profiles, and what is said of one but its standards
  LibraryFiles,             \* what libraries are imported
  Packs,                    \* the starter packs
  MaxDisturbances,          \* bound on failing writes
  None

VARIABLES
  library,      \* library.json, or None
  pc,
  candidate,    \* the library a process writes
  disturbances

vars == <<library, pc, candidate, disturbances>>

Init ==
  /\ library = None
  /\ pc = [w \in Writers |-> "idle"]
  /\ candidate = [w \in Writers |-> None]
  /\ disturbances = 0

NoFault == UNCHANGED disturbances
Fault == disturbances < MaxDisturbances /\ disturbances' = disturbances + 1
Goto(w, phase) == pc' = [pc EXCEPT ![w] = phase]

(* load_workspace_standards_library *)
Library == IF library = None THEN EmptyLibrary ELSE library

-----------------------------------------------------------------------------
(* What the commands make of the library they have loaded: {} where they report an error. *)

handle_standards_add(l) ==
  UNION {add_standard_definitions(l, Put(<< >>, id, d)) : id \in StandardIds, d \in Definitions}

handle_standards_add_batch(l) ==
  UNION {add_standard_definitions(l, batch) : batch \in UNION {[ids -> Definitions] : ids \in SUBSET StandardIds}}

handle_standards_replace(l) == UNION {replace_standard_definition(l, id, d) : id \in StandardIds, d \in Definitions}
handle_standards_upsert(l) == UNION {upsert_standard_definition(l, id, d) : id \in StandardIds, d \in Definitions}
handle_standards_retire(l) ==
  UNION {set_standard_active(l, id, FALSE, FALSE) \cup set_standard_active(l, id, FALSE, TRUE) : id \in StandardIds}
handle_standards_reactivate(l) ==
  UNION {set_standard_active(l, id, TRUE, FALSE) \cup set_standard_active(l, id, TRUE, TRUE) : id \in StandardIds}

(* standards_profile_from_args, load_standards_profile: the standards of a profile need not be in the library. *)
ProfilesGiven == [standards : SUBSET StandardIds, text : Texts]
handle_profile_create(l) == UNION {add_standards_profile(l, p, given) : p \in ProfileIds, given \in ProfilesGiven}
handle_profile_replace(l) == UNION {replace_standards_profile(l, p, given) : p \in ProfileIds, given \in ProfilesGiven}
handle_profile_import(l) == handle_profile_create(l) \cup handle_profile_replace(l)

(* Adding looks for the standard in the library, removing only in the profile. *)
handle_profile_add_standard(l) ==
  UNION {UNION {SetMembers(l, p, l.profiles[p].standards \cup {id}) :
                  id \in (StandardIds \cap DOMAIN l.standards) \ l.profiles[p].standards} : p \in DOMAIN l.profiles}
handle_profile_remove_standard(l) ==
  UNION {UNION {SetMembers(l, p, l.profiles[p].standards \ {id}) :
                  id \in l.profiles[p].standards} : p \in DOMAIN l.profiles}

(* The handlers of add-standards, remove-standards and set-standards. *)
handle_profile_membership_batch(l) ==
  UNION {add_standards_to_profile(l, p, ids) \cup remove_standards_from_profile(l, p, ids) \cup set_profile_standards(l, p, ids) :
           p \in ProfileIds, ids \in SUBSET StandardIds}

Edits(l) ==
  handle_standards_add(l) \cup handle_standards_add_batch(l) \cup handle_standards_replace(l) \cup handle_standards_upsert(l)
    \cup handle_standards_retire(l) \cup handle_standards_reactivate(l)
    \cup handle_profile_create(l) \cup handle_profile_replace(l) \cup handle_profile_import(l)
    \cup handle_profile_add_standard(l) \cup handle_profile_remove_standard(l) \cup handle_profile_membership_batch(l)

-----------------------------------------------------------------------------
(* A command loads the library and computes what it will write. *)
Edit(w) ==
  /\ pc[w] = "idle" /\ Goto(w, "write_library")
  /\ \E edited \in Edits(Library) : candidate' = [candidate EXCEPT ![w] = edited]
  /\ UNCHANGED library /\ NoFault

(* handle_standards_import, whose file has been checked as a library. *)
ImportLibrary(w, overwriting) ==
  /\ pc[w] = "idle" /\ Goto(w, IF overwriting THEN "write_library" ELSE "create_library")
  /\ library = None \/ overwriting
  /\ \E imported \in {l \in LibraryFiles : ValidLibrary(l)} : candidate' = [candidate EXCEPT ![w] = imported]
  /\ UNCHANGED library /\ NoFault

Install(w, pack, overwriting) ==
  /\ pc[w] = "idle" /\ Goto(w, "install")
  /\ \E result \in Installed(Library, pack, overwriting) :
       /\ result.written
       /\ candidate' = [candidate EXCEPT ![w] = result.library]
  /\ UNCHANGED library /\ NoFault

(* Only now the file is looked for: one that has come since the loading is overwritten. *)
LookForLibrary(w) ==
  /\ pc[w] = "install" /\ Goto(w, IF library = None THEN "create_library" ELSE "write_library")
  /\ UNCHANGED <<library, candidate>> /\ NoFault

(***************************************************************************)
(* write_standards_library: os.replace; without overwrite, as the first     *)
(* installation and imports write, a file that is there by now is an error. *)
(***************************************************************************)
ReplaceLibrary(w) ==
  /\ pc[w] \in {"create_library", "write_library"} /\ Goto(w, "idle")
  /\ \/ /\ pc[w] = "write_library" \/ library = None
        /\ library' = candidate[w] /\ NoFault
     \/ pc[w] = "create_library" /\ library # None /\ UNCHANGED library /\ NoFault
     \/ UNCHANGED library /\ Fault
  /\ candidate' = [candidate EXCEPT ![w] = None]

Next ==
  \E w \in Writers :
    \/ Edit(w) \/ LookForLibrary(w) \/ ReplaceLibrary(w)
    \/ \E overwriting \in BOOLEAN : ImportLibrary(w, overwriting) \/ \E pack \in Packs : Install(w, pack, overwriting)

Spec == Init /\ [][Next]_vars

-----------------------------------------------------------------------------
(***************************************************************************)
(* Every pack installs safely into every library concurrent commands leave *)
(* behind, which is valid whichever of them wrote last.                    *)
(***************************************************************************)
LibrariesTakePacks ==
  ValidLibrary(Library) /\ \A pack \in Packs : InstallIsSafe(Library, pack)

(* What keeps them so: whatever is stored or about to be written is a library. *)
StoreInv ==
  /\ library # None => IsLibrary(library)
  /\ DOMAIN pc = Writers /\ DOMAIN candidate = Writers
  /\ \A w \in Writers : pc[w] \in {"install", "create_library", "write_library"} => IsLibrary(candidate[w])
=============================================================================
