----------------------------- MODULE StandardsMenu -----------------------------
(***************************************************************************)
(* The interactive standards menu (cli_support/menu_*.py). A session loads *)
(* the library once and works on its own copy for as long as it is open:   *)
(* every workflow prepares a new library from the copy, shows it, asks for *)
(* YES, writes the whole library and only then takes it for its copy.      *)
(* Meanwhile commands replace the library (StandardsStore), and the files  *)
(* a session imports and exports change.                                   *)
(***************************************************************************)
EXTENDS Standards

CONSTANTS
  StandardIds, Subparts(_),  \* durable IDs, and those of the lettered subparts of one
  ProfileIds,
  Packs,                     \* the starter packs
  Imports,                   \* what is found at the path of an import
  Edits(_),                  \* what a command makes of the library
  MaxDisturbances,           \* bound on commands, changing files and failing writes together
  None

VARIABLES
  library,  \* library.json, or None
  mine,     \* the copy of the session
  screen,   \* the menu or the step of a workflow it is at
  draft,    \* what the workflow has prepared, or None
  inbox,    \* the file at the path of an import, or None
  outbox,   \* whether there is a file at the path of an export
  disturbances

vars == <<library, mine, screen, draft, inbox, outbox, disturbances>>

Library == IF library = None THEN EmptyLibrary ELSE library

(* run and the submenus: where each workflow is offered, and where it returns to. *)
Offered(workflow) ==
  CASE workflow = "standard" -> {"standards"} \cup IF DOMAIN mine.standards = {} THEN {"profiles"} ELSE {}
    [] workflow = "profile" -> {"profiles"}
    [] workflow = "members" -> {"edit_profile"}
    [] workflow = "import_profile" -> {"profiles", "import_export"}
    [] workflow = "export_profile" -> {"profiles", "import_export"}
    [] workflow \in {"import_library", "export_library"} -> {"import_export"}
    [] workflow = "install" -> {"starter"}
Menus == {"main", "standards", "profiles", "edit_profile", "import_export", "starter"}
Within(menu) ==
  CASE menu = "main" -> {"standards", "profiles", "import_export", "starter"}
    [] menu = "profiles" -> {"edit_profile"}
    [] OTHER -> {}

Init ==
  /\ library = None
  /\ mine = None
  /\ screen = "closed"
  /\ draft = None
  /\ inbox \in Imports \cup {None}
  /\ outbox = FALSE
  /\ disturbances = 0

NoFault == UNCHANGED disturbances
Fault == disturbances < MaxDisturbances /\ disturbances' = disturbances + 1

Return == screen' = draft.menu /\ draft' = None
Ask(step) == screen' = step /\ UNCHANGED draft
Files == <<library, inbox, outbox>>

(* handle_standards_menu, after _run has loaded the library. *)
OpenSession ==
  /\ screen = "closed" /\ screen' = "main" /\ mine' = Library
  /\ UNCHANGED <<Files, draft>> /\ NoFault

ChooseMenu ==
  /\ screen \in Menus /\ screen' \in Within(screen)
  /\ screen' = "edit_profile" => DOMAIN mine.profiles # {} /\ DOMAIN mine.standards # {}
  /\ UNCHANGED <<Files, mine, draft>> /\ NoFault

Back ==
  /\ screen \in Menus
  /\ IF screen = "main" THEN screen' = "closed" /\ mine' = None
     ELSE screen' \in {menu \in Menus : screen \in Within(menu)} /\ UNCHANGED mine
  /\ UNCHANGED <<Files, draft>> /\ NoFault

(* What a workflow shows before it asks, with the library it would write. *)
Prepare(workflow, prepared, shown, overwrite) ==
  /\ screen \in Offered(workflow)
  /\ draft' = [workflow |-> workflow, menu |-> screen, prepared |-> prepared, shown |-> shown,
               agreed |-> FALSE, overwrite |-> overwrite, writes |-> None]
  /\ UNCHANGED <<Files, mine>> /\ NoFault

-----------------------------------------------------------------------------
(* add_standard, whose new definitions are kept until the last subpart is entered. *)

Definition == [text |-> 1, active |-> TRUE]

AddStandard(id) ==
  /\ Prepare("standard", Put(<< >>, id, Definition), None, FALSE) /\ screen' = "subparts"
  /\ id \notin DOMAIN mine.standards

(* _collect_standard_subparts *)
AddSubpart(id) ==
  /\ screen = "subparts"
  /\ id \in UNION {Subparts(parent) : parent \in DOMAIN draft.prepared}
  /\ id \notin DOMAIN mine.standards \cup DOMAIN draft.prepared
  /\ draft' = [draft EXCEPT !.prepared = Put(@, id, Definition)]
  /\ UNCHANGED <<Files, mine, screen>> /\ NoFault

ReviewStandard ==
  /\ screen = "subparts"
  /\ \E updated \in add_standard_definitions(mine, draft.prepared) :
       draft' = [draft EXCEPT !.prepared = updated, !.shown = updated]
  /\ screen' = "review" /\ UNCHANGED <<Files, mine>> /\ NoFault

(* The profile workflows; _select_standard_ids offers the standards of the copy. *)
Review(workflow, updates, overwrite) ==
  \E updated \in updates : Prepare(workflow, updated, updated, overwrite) /\ screen' = "review"

CreateProfile(p, ids) ==
  Review("profile", add_standards_profile(mine, p, [standards |-> ids, text |-> 1]), TRUE)

EditProfile(p, ids) ==
  /\ screen = "edit_profile" /\ p \in DOMAIN mine.profiles
  /\ \/ ids \cap mine.profiles[p].standards = {} /\ Review("members", add_standards_to_profile(mine, p, ids), TRUE)
     \/ Review("members", remove_standards_from_profile(mine, p, ids), TRUE)
     \/ Review("members", set_profile_standards(mine, p, ids), TRUE)

-----------------------------------------------------------------------------
(* Imports and exports. A file is [kind, content]; what cannot be loaded is an error. *)

Holding(kind) == inbox # None /\ inbox.kind = kind

(* add_standards_profile or replace_standards_profile, as the mode says. *)
WithProfile(l, file, adding) ==
  IF adding THEN add_standards_profile(l, file.id, file.content) ELSE replace_standards_profile(l, file.id, file.content)

ImportLibrary ==
  Holding("library") /\ Prepare("import_library", inbox.content, inbox.content, FALSE) /\ screen' = "review"

ImportProfile(adding) ==
  /\ Holding("profile")
  /\ Review("import_profile", WithProfile(mine, inbox, adding), ~ adding)

(* _confirm_overwrite comes before the summary of what is exported. *)
Export(workflow) ==
  /\ workflow = "export_profile" => DOMAIN mine.profiles # {}
  /\ Prepare(workflow, None, None, FALSE) /\ screen' = IF outbox THEN "overwrite_export" ELSE "review"

InstallPack(pack) == Prepare("install", pack, None, FALSE) /\ screen' = "review"

(* _guided_confirm: YES. *)
Confirm ==
  /\ \/ /\ screen = "review"
        /\ draft' = [draft EXCEPT !.agreed = TRUE]
        /\ screen' = IF draft.workflow = "import_library" /\ library # None THEN "overwrite_library" ELSE "carry_out"
     \/ /\ screen \in {"overwrite_library", "overwrite_export"}
        /\ draft' = [draft EXCEPT !.overwrite = TRUE]
        /\ screen' = IF screen = "overwrite_export" THEN "review" ELSE "carry_out"
  /\ UNCHANGED <<Files, mine>> /\ NoFault

(* Anything else, a blank line or the end of the input; an error of a workflow, too. *)
Cancel ==
  /\ screen \in {"subparts", "review", "overwrite_library", "overwrite_export"} /\ Return
  /\ UNCHANGED <<Files, mine>> /\ NoFault

-----------------------------------------------------------------------------
(***************************************************************************)
(* What a workflow writes: {} where it ends with an error. The handlers of *)
(* the import commands load the file once more and look again whether the  *)
(* library exists; installing looks at the library's existence only now.   *)
(***************************************************************************)
Written ==
  CASE draft.workflow \in {"standard", "profile", "members"} -> {[library |-> draft.prepared, overwrite |-> TRUE]}
    [] draft.workflow = "import_library" ->
         IF Holding("library") /\ (library = None \/ draft.overwrite)
         THEN {[library |-> inbox.content, overwrite |-> draft.overwrite]} ELSE {}
    [] draft.workflow = "import_profile" ->
         IF ~ Holding("profile") THEN {}
         ELSE {[library |-> updated, overwrite |-> TRUE] :
                 updated \in WithProfile(mine, inbox, ~ draft.overwrite)}
    [] draft.workflow = "install" ->
         {[library |-> result.library, overwrite |-> library # None] :
            result \in {r \in Installed(mine, draft.prepared, FALSE) : r.written}}

Exporting == draft.workflow \in {"export_library", "export_profile"}
NothingToInstall ==
  draft.workflow = "install" /\ \E result \in Installed(mine, draft.prepared, FALSE) : ~ result.written

CarryOut ==
  /\ screen = "carry_out"
  /\ IF Exporting THEN IF outbox /\ ~ draft.overwrite THEN Return ELSE Ask("replace_export")
     ELSE IF NothingToInstall THEN Ask("reload")
     ELSE \/ \E w \in Written : screen' = "replace_library" /\ draft' = [draft EXCEPT !.writes = w.library, !.overwrite = w.overwrite]
          \/ Written = {} /\ Return
  /\ UNCHANGED <<Files, mine>> /\ NoFault

(* Mutant of Replace: after an edit the session goes on with the copy it had. *)
ReplaceForgetting ==
  /\ screen = "replace_library"
  /\ library' = draft.writes
  /\ IF draft.workflow = "install" THEN Ask("reload") ELSE Return
  /\ UNCHANGED <<mine, inbox, outbox>> /\ NoFault

(***************************************************************************)
(* os.replace of write_standards_library. The session then goes on with    *)
(* the library it has shown, after an installation with a new copy.        *)
(***************************************************************************)
Replace ==
  /\ screen = "replace_library"
  /\ library' = draft.writes
  /\ IF draft.workflow = "install" THEN Ask("reload") /\ UNCHANGED mine ELSE Return /\ mine' = draft.prepared
  /\ UNCHANGED <<inbox, outbox>> /\ NoFault

ReplaceExport ==
  /\ screen = "replace_export" /\ outbox' = TRUE /\ Return
  /\ UNCHANGED <<library, mine, inbox>> /\ NoFault

Reload ==
  /\ screen = "reload" /\ mine' = Library /\ Return
  /\ UNCHANGED Files /\ NoFault

(* A library that came into being since the workflow looked is an error, too; nothing handles that of an installation. *)
FailsToReplace ==
  /\ screen \in {"replace_library", "replace_export"}
  /\ IF draft.workflow = "install" THEN screen' = "closed" /\ draft' = None /\ mine' = None ELSE Return /\ UNCHANGED mine
  /\ UNCHANGED Files
  /\ \/ screen = "replace_library" /\ library # None /\ ~ draft.overwrite /\ NoFault
     \/ Fault

(* What others do. *)
CommandWrites == library' \in Edits(Library) /\ UNCHANGED <<mine, screen, draft, inbox, outbox>> /\ Fault
FilesChange ==
  /\ \/ inbox' \in Imports \cup {None} /\ UNCHANGED outbox
     \/ outbox' = ~ outbox /\ UNCHANGED inbox
  /\ UNCHANGED <<library, mine, screen, draft>> /\ Fault

Next ==
  \/ OpenSession \/ ChooseMenu \/ Back
  \/ screen \in Menus /\
       (\/ \E id \in StandardIds : AddStandard(id)
        \/ \E p \in ProfileIds, ids \in SUBSET DOMAIN mine.standards : CreateProfile(p, ids) \/ EditProfile(p, ids)
        \/ ImportLibrary \/ \E adding \in BOOLEAN : ImportProfile(adding)
        \/ \E workflow \in {"export_library", "export_profile"} : Export(workflow)
        \/ \E pack \in Packs : InstallPack(pack))
  \/ \E parent \in StandardIds : \E id \in Subparts(parent) : AddSubpart(id)
  \/ ReviewStandard \/ Confirm \/ Cancel
  \/ CarryOut \/ Replace \/ ReplaceExport \/ Reload \/ FailsToReplace
  \/ CommandWrites \/ FilesChange

Spec == Init /\ [][Next]_vars

-----------------------------------------------------------------------------
(***************************************************************************)
(* The menu replaces the library only after YES, by a valid library and by *)
(* the one it has shown (an import reads its file once more, which may     *)
(* have changed since). Replacing a library unasked takes somebody else    *)
(* who has just created it; and a session nobody has overtaken takes       *)
(* nothing away but by an import of a whole library: standards and         *)
(* profiles stay, and of the profiles there were one changes at most.      *)
(***************************************************************************)
Kept(f, g) == {id \in DOMAIN f : id \in DOMAIN g /\ f[id] = g[id]}
ReplacesWhatWasAgreed ==
  library' # library /\ screen' # screen =>
    /\ draft.agreed /\ ValidLibrary(library')
    /\ draft.shown # None /\ library' # draft.shown =>
         draft.workflow \in {"import_library", "import_profile"} /\ disturbances > 0
    /\ library # None /\ ~ draft.overwrite => disturbances > 0
    /\ mine = Library /\ draft.workflow # "import_library" =>
         /\ Holds(library', [Library EXCEPT !.profiles = << >>])
         /\ DOMAIN Library.profiles \subseteq DOMAIN library'.profiles
         /\ Cardinality(DOMAIN Library.profiles) - Cardinality(Kept(Library.profiles, library'.profiles)) \leq 1

(***************************************************************************)
(* However a workflow ends, a session whose copy or whose library it has   *)
(* changed goes on with the library as it is on disk, so that its next     *)
(* workflow does not undo this one. (After the import of a file that       *)
(* changed meanwhile it goes on with the library it has shown.)            *)
(***************************************************************************)
GoesOnWithTheLibrary ==
  screen \notin Menus \cup {"closed"} /\ screen' \in Menus /\ <<library, mine>>' # <<library, mine>> =>
    mine' \in {library', Library'} \/ (draft.workflow \in {"import_library", "import_profile"} /\ disturbances > 0)

(***************************************************************************)
(* What keeps both: the library and the copy are libraries, and what a     *)
(* workflow has prepared, and is about to write, is one that fits the      *)
(* copy. Where nothing disturbed it, it is what was shown, and it replaces *)
(* nothing unasked.                                                        *)
(***************************************************************************)
Steps ==
  {"subparts", "review", "overwrite_library", "overwrite_export", "carry_out", "replace_library", "replace_export", "reload"}
IsFiniteLibrary(l) == IsLibrary(l) /\ IsFiniteSet(DOMAIN l.profiles)

(* Of the profiles one changes at most, and nothing goes. *)
Fits(l, edited) ==
  /\ IsFiniteLibrary(edited)
  /\ Holds(edited, [l EXCEPT !.profiles = << >>])
  /\ DOMAIN l.profiles \subseteq DOMAIN edited.profiles
  /\ \A p, q \in DOMAIN l.profiles \ Kept(l.profiles, edited.profiles) : p = q

EditWorkflows == {"standard", "profile", "members"}
ImportWorkflows == {"import_library", "import_profile"}
DraftFits ==
  /\ draft = [workflow |-> draft.workflow, menu |-> draft.menu, prepared |-> draft.prepared, shown |-> draft.shown,
              agreed |-> draft.agreed, overwrite |-> draft.overwrite, writes |-> draft.writes]
  /\ draft.workflow \in EditWorkflows \cup ImportWorkflows \cup {"install", "export_library", "export_profile"}
  /\ draft.menu \in Menus
  /\ screen \in {"overwrite_export", "replace_export"} => Exporting
  /\ Exporting => draft.shown = None
  /\ screen = "subparts" => draft.workflow = "standard" /\ draft.shown = None
  /\ screen = "overwrite_library" => draft.workflow = "import_library"
  /\ screen = "reload" => draft.workflow = "install"
  /\ screen \notin {"subparts", "review", "overwrite_export"} => draft.agreed
  /\ draft.workflow = "install" => draft.prepared \in Packs /\ draft.shown = None

PreparedFits ==
  /\ draft.workflow \in EditWorkflows /\ screen # "subparts" => Fits(mine, draft.prepared) /\ draft.shown = draft.prepared
  /\ draft.workflow \in ImportWorkflows => IsFiniteLibrary(draft.prepared) /\ draft.shown = draft.prepared
  /\ draft.workflow = "import_library" /\ disturbances = 0 =>
       /\ draft.prepared = inbox.content
       /\ screen \in {"carry_out", "replace_library"} /\ library # None => draft.overwrite
  /\ draft.workflow = "import_profile" /\ screen \in {"review", "carry_out"} /\ disturbances = 0 =>
       draft.prepared \in WithProfile(mine, inbox, ~ draft.overwrite)

WrittenFits ==
  screen = "replace_library" =>
    /\ IsFiniteLibrary(draft.writes) /\ ~ Exporting
    /\ draft.workflow # "import_library" => Fits(mine, draft.writes)
    /\ draft.workflow \in EditWorkflows => draft.writes = draft.prepared
    /\ draft.workflow \in ImportWorkflows /\ disturbances = 0 => draft.writes = draft.prepared
    /\ library # None /\ disturbances = 0 => draft.overwrite

MenuInv ==
  /\ disturbances \in Nat /\ inbox \in Imports \cup {None}
  /\ library # None => IsFiniteLibrary(library)
  /\ screen \in Menus \cup Steps \cup {"closed"}
  /\ screen # "closed" => IsFiniteLibrary(mine)
  /\ screen \in Steps => DraftFits /\ PreparedFits /\ WrittenFits
=============================================================================
