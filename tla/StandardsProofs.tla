---------------------------- MODULE StandardsProofs ----------------------------
(***************************************************************************)
(* What the standards keep, for any number of processes, libraries,        *)
(* events and disturbances: the inductive invariants of the library, of a  *)
(* session of its menu and of the usage ledger, and what they imply.       *)
(***************************************************************************)
EXTENDS WorkspaceFiles, FiniteSetTheorems, SequenceTheorems, WellFoundedInduction, TLAPS

-----------------------------------------------------------------------------
(* The standards library. *)

(* The operators of Standards are the same in every instance. *)
LEMMA SameLibraries ==
  /\ \A l : (Library!IsLibrary(l) <=> Libraries!IsLibrary(l)) /\ (Menu!IsLibrary(l) <=> Libraries!IsLibrary(l))
  /\ \A l : (Library!ValidLibrary(l) <=> Libraries!ValidLibrary(l)) /\ (Menu!ValidLibrary(l) <=> Libraries!ValidLibrary(l))
  /\ \A l, pack, overwriting :
       /\ Library!Installed(l, pack, overwriting) = Libraries!Installed(l, pack, overwriting)
       /\ Menu!Installed(l, pack, overwriting) = Libraries!Installed(l, pack, overwriting)
<1>1. ASSUME NEW l
      PROVE  (Library!ValidLibrary(l) <=> Libraries!ValidLibrary(l)) /\ (Menu!ValidLibrary(l) <=> Libraries!ValidLibrary(l))
  BY DEF Library!ValidLibrary, Libraries!ValidLibrary, Menu!ValidLibrary
<1>2. ASSUME NEW l
      PROVE  (Library!IsLibrary(l) <=> Libraries!IsLibrary(l)) /\ (Menu!IsLibrary(l) <=> Libraries!IsLibrary(l))
  BY <1>1 DEF Library!IsLibrary, Libraries!IsLibrary, Menu!IsLibrary, Library!IsTable, Libraries!IsTable, Menu!IsTable
<1>3. ASSUME NEW l, NEW pack, NEW overwriting
      PROVE  /\ Library!Installed(l, pack, overwriting) = Libraries!Installed(l, pack, overwriting)
             /\ Menu!Installed(l, pack, overwriting) = Libraries!Installed(l, pack, overwriting)
  BY DEF Library!Installed, Libraries!Installed, Menu!Installed, Library!SourceTaken, Libraries!SourceTaken, Menu!SourceTaken,
         Library!AllConflicts, Libraries!AllConflicts, Menu!AllConflicts, Library!Conflicts, Libraries!Conflicts, Menu!Conflicts,
         Library!Merged, Libraries!Merged, Menu!Merged, Library!Added, Libraries!Added, Menu!Added
<1>. QED
  BY <1>1, <1>2, <1>3

(* Merging tables. *)
LEMMA MergedTables ==
  ASSUME NEW f, NEW g, Libraries!IsTable(f), Libraries!IsTable(g)
  PROVE  LET merged == Libraries!Merged(f, g)
         IN /\ DOMAIN merged = DOMAIN f \cup DOMAIN g
            /\ Libraries!IsTable(merged)
            /\ \A id \in DOMAIN g : merged[id] = g[id]
            /\ \A id \in DOMAIN f \ DOMAIN g : merged[id] = f[id]
            /\ Libraries!Conflicts(f, g) = {} => \A id \in DOMAIN f : merged[id] = f[id]
            /\ Libraries!Conflicts(f, g) = {} /\ Libraries!Added(f, g) = {} => merged = f
            /\ Libraries!Conflicts(merged, g) = {} /\ Libraries!Added(merged, g) = {}
            /\ Libraries!Merged(merged, g) = merged
BY DEF Libraries!Merged, Libraries!IsTable, Libraries!Conflicts, Libraries!Added

LEMMA InstalledLibraries ==
  ASSUME NEW l, NEW pack, Libraries!IsLibrary(l), Libraries!IsLibrary(pack), NEW overwriting \in BOOLEAN,
         NEW result \in Libraries!Installed(l, pack, overwriting)
  PROVE  /\ Libraries!IsLibrary(result.library)
         /\ Libraries!Holds(result.library, pack)
         /\ DOMAIN l.standards \subseteq DOMAIN result.library.standards
         /\ DOMAIN l.profiles \subseteq DOMAIN result.library.profiles
         /\ DOMAIN l.frameworks \subseteq DOMAIN result.library.frameworks
         /\ ~ overwriting => Libraries!Holds(result.library, l)
         /\ ~ result.written => result.library = l
         /\ Libraries!Installed(result.library, pack, overwriting) = {[library |-> result.library, written |-> FALSE]}
<1>. DEFINE standards == Libraries!Merged(l.standards, pack.standards)
            profiles == Libraries!Merged(l.profiles, pack.profiles)
            frameworks == Libraries!Merged(l.frameworks, pack.frameworks)
            merged == [standards |-> standards, profiles |-> profiles, frameworks |-> frameworks]
            changed == Libraries!AllConflicts(l, pack) \cup Libraries!Added(l.standards, pack.standards)
                         \cup Libraries!Added(l.profiles, pack.profiles) \cup Libraries!Added(l.frameworks, pack.frameworks)
<1>1. /\ result = [library |-> merged, written |-> changed # {}] /\ ~ Libraries!SourceTaken(l, pack)
      /\ overwriting \/ Libraries!AllConflicts(l, pack) = {}
  BY DEF Libraries!Installed
<1>2. /\ Libraries!IsTable(l.standards) /\ Libraries!IsTable(l.profiles) /\ Libraries!IsTable(l.frameworks)
      /\ Libraries!IsTable(pack.standards) /\ Libraries!IsTable(pack.profiles) /\ Libraries!IsTable(pack.frameworks)
      /\ Libraries!ValidLibrary(l) /\ Libraries!ValidLibrary(pack)
      /\ l = [standards |-> l.standards, profiles |-> l.profiles, frameworks |-> l.frameworks]
  BY DEF Libraries!IsLibrary
<1>3. /\ DOMAIN standards = DOMAIN l.standards \cup DOMAIN pack.standards
      /\ Libraries!IsTable(standards)
      /\ \A id \in DOMAIN pack.standards : standards[id] = pack.standards[id]
      /\ Libraries!Conflicts(l.standards, pack.standards) = {} => \A id \in DOMAIN l.standards : standards[id] = l.standards[id]
      /\ Libraries!Conflicts(l.standards, pack.standards) = {} /\ Libraries!Added(l.standards, pack.standards) = {} => standards = l.standards
      /\ Libraries!Conflicts(standards, pack.standards) = {} /\ Libraries!Added(standards, pack.standards) = {}
      /\ Libraries!Merged(standards, pack.standards) = standards
  BY <1>2, MergedTables, Zenon
<1>4. /\ DOMAIN profiles = DOMAIN l.profiles \cup DOMAIN pack.profiles
      /\ Libraries!IsTable(profiles)
      /\ \A id \in DOMAIN pack.profiles : profiles[id] = pack.profiles[id]
      /\ \A id \in DOMAIN l.profiles \ DOMAIN pack.profiles : profiles[id] = l.profiles[id]
      /\ Libraries!Conflicts(l.profiles, pack.profiles) = {} => \A id \in DOMAIN l.profiles : profiles[id] = l.profiles[id]
      /\ Libraries!Conflicts(l.profiles, pack.profiles) = {} /\ Libraries!Added(l.profiles, pack.profiles) = {} => profiles = l.profiles
      /\ Libraries!Conflicts(profiles, pack.profiles) = {} /\ Libraries!Added(profiles, pack.profiles) = {}
      /\ Libraries!Merged(profiles, pack.profiles) = profiles
  BY <1>2, MergedTables, Zenon
<1>5. /\ DOMAIN frameworks = DOMAIN l.frameworks \cup DOMAIN pack.frameworks
      /\ Libraries!IsTable(frameworks)
      /\ \A id \in DOMAIN pack.frameworks : frameworks[id] = pack.frameworks[id]
      /\ \A id \in DOMAIN l.frameworks \ DOMAIN pack.frameworks : frameworks[id] = l.frameworks[id]
      /\ Libraries!Conflicts(l.frameworks, pack.frameworks) = {} => \A id \in DOMAIN l.frameworks : frameworks[id] = l.frameworks[id]
      /\ Libraries!Conflicts(l.frameworks, pack.frameworks) = {} /\ Libraries!Added(l.frameworks, pack.frameworks) = {} => frameworks = l.frameworks
      /\ Libraries!Conflicts(frameworks, pack.frameworks) = {} /\ Libraries!Added(frameworks, pack.frameworks) = {}
      /\ Libraries!Merged(frameworks, pack.frameworks) = frameworks
  BY <1>2, MergedTables, Zenon
<1>. HIDE DEF standards, profiles, frameworks
<1>6. Libraries!ValidLibrary(merged)
  <2>1. \A p \in DOMAIN profiles : profiles[p].standards \subseteq DOMAIN standards
    BY <1>2, <1>3, <1>4 DEF Libraries!ValidLibrary
  <2>2. \A f, g \in DOMAIN frameworks : frameworks[f].source = frameworks[g].source => f = g
    BY <1>1, <1>2, <1>5 DEF Libraries!ValidLibrary, Libraries!SourceTaken
  <2>. QED
    BY <2>1, <2>2 DEF Libraries!ValidLibrary
<1>7. Libraries!IsLibrary(merged)
  BY <1>3, <1>4, <1>5, <1>6 DEF Libraries!IsLibrary
<1>8. Libraries!Holds(merged, pack) /\ (~ overwriting => Libraries!Holds(merged, l))
  BY <1>1, <1>3, <1>4, <1>5 DEF Libraries!Holds, Libraries!Contains, Libraries!AllConflicts
<1>9. changed = {} => merged = l
  BY <1>2, <1>3, <1>4, <1>5 DEF Libraries!AllConflicts
<1>10. Libraries!Installed(merged, pack, overwriting) = {[library |-> merged, written |-> FALSE]}
  <2>1. Libraries!AllConflicts(merged, pack) = {}
    BY <1>3, <1>4, <1>5 DEF Libraries!AllConflicts
  <2>2. ~ Libraries!SourceTaken(merged, pack)
    BY <1>1, <1>2, <1>5 DEF Libraries!SourceTaken, Libraries!ValidLibrary
  <2>. QED
    BY <1>3, <1>4, <1>5, <2>1, <2>2, Zenon DEF Libraries!Installed
<1>. QED
  BY <1>1, <1>3, <1>4, <1>5, <1>7, <1>8, <1>9, <1>10, Zenon

(* An edit puts a table in place of one of a library. *)
LEMMA CheckedEdits ==
  ASSUME NEW l, Library!IsLibrary(l), NEW table, Library!IsTable(table), NEW edited
  PROVE  /\ edited \in Library!Checked([l EXCEPT !.standards = table]) => Library!IsLibrary(edited)
         /\ edited \in Library!Checked([l EXCEPT !.profiles = table]) => Library!IsLibrary(edited)
<1>. DEFINE withStandards == [standards |-> table, profiles |-> l.profiles, frameworks |-> l.frameworks]
            withProfiles == [standards |-> l.standards, profiles |-> table, frameworks |-> l.frameworks]
<1>1. /\ [l EXCEPT !.standards = table] = withStandards
      /\ [l EXCEPT !.profiles = table] = withProfiles
  BY DEF Library!IsLibrary
<1>2. Library!ValidLibrary(withStandards) => Library!IsLibrary(withStandards)
  BY DEF Library!IsLibrary
<1>3. Library!ValidLibrary(withProfiles) => Library!IsLibrary(withProfiles)
  BY DEF Library!IsLibrary
<1>. HIDE DEF withStandards, withProfiles
<1>. QED
  BY <1>1, <1>2, <1>3 DEF Library!Checked

(* The edits of standards and of profiles. *)
LEMMA StandardEdits ==
  ASSUME NEW l, Library!IsLibrary(l), NEW edited
  PROVE  /\ \A definitions : edited \in Library!add_standard_definitions(l, definitions) => Library!IsLibrary(edited)
         /\ \A id, definition : edited \in Library!upsert_standard_definition(l, id, definition) => Library!IsLibrary(edited)
         /\ \A id, definition : edited \in Library!replace_standard_definition(l, id, definition) => Library!IsLibrary(edited)
         /\ \A id, now, force : edited \in Library!set_standard_active(l, id, now, force) => Library!IsLibrary(edited)
<1>1. ASSUME NEW definitions, edited \in Library!add_standard_definitions(l, definitions)
      PROVE  Library!IsLibrary(edited)
  <2>. DEFINE table == [id \in DOMAIN l.standards \cup DOMAIN definitions |->
                          IF id \in DOMAIN definitions THEN definitions[id] ELSE l.standards[id]]
  <2>1. Library!IsTable(table)
    BY DEF Library!IsTable
  <2>2. edited \in Library!Checked([l EXCEPT !.standards = table])
    BY <1>1 DEF Library!add_standard_definitions
  <2>. HIDE DEF table
  <2>. QED
    BY <2>1, <2>2, CheckedEdits, Zenon
<1>2. ASSUME NEW id, NEW definition, edited \in Library!upsert_standard_definition(l, id, definition)
      PROVE  Library!IsLibrary(edited)
  <2>1. Library!IsTable(Library!Put(l.standards, id, definition))
    BY DEF Library!IsTable, Library!Put
  <2>2. edited \in Library!Checked([l EXCEPT !.standards = Library!Put(l.standards, id, definition)])
    BY <1>2 DEF Library!upsert_standard_definition
  <2>. QED
    BY <2>1, <2>2, CheckedEdits, Zenon
<1>3. ASSUME NEW id, NEW definition, edited \in Library!replace_standard_definition(l, id, definition)
      PROVE  Library!IsLibrary(edited)
  BY <1>2, <1>3 DEF Library!replace_standard_definition
<1>4. ASSUME NEW id, NEW now, NEW force, edited \in Library!set_standard_active(l, id, now, force)
      PROVE  Library!IsLibrary(edited)
  <2>1. edited \in Library!replace_standard_definition(l, id, [l.standards[id] EXCEPT !.active = now])
    BY <1>4 DEF Library!set_standard_active
  <2>. QED
    BY <1>3, <2>1
<1>. QED
  BY <1>1, <1>2, <1>3, <1>4

LEMMA ProfileEdits ==
  ASSUME NEW l, Library!IsLibrary(l), NEW edited
  PROVE  /\ \A id, profile : edited \in Library!add_standards_profile(l, id, profile) => Library!IsLibrary(edited)
         /\ \A id, profile : edited \in Library!replace_standards_profile(l, id, profile) => Library!IsLibrary(edited)
         /\ \A id, members : edited \in Library!SetMembers(l, id, members) => Library!IsLibrary(edited)
         /\ \A id, members : edited \in Library!add_standards_to_profile(l, id, members) => Library!IsLibrary(edited)
         /\ \A id, members : edited \in Library!remove_standards_from_profile(l, id, members) => Library!IsLibrary(edited)
         /\ \A id, members : edited \in Library!set_profile_standards(l, id, members) => Library!IsLibrary(edited)
<1>1. ASSUME NEW id, NEW profile, edited \in Library!upsert_standards_profile(l, id, profile)
      PROVE  Library!IsLibrary(edited)
  <2>1. Library!IsTable(Library!Put(l.profiles, id, profile))
    BY DEF Library!IsTable, Library!Put
  <2>2. edited \in Library!Checked([l EXCEPT !.profiles = Library!Put(l.profiles, id, profile)])
    BY <1>1 DEF Library!upsert_standards_profile
  <2>. QED
    BY <2>1, <2>2, CheckedEdits, Zenon
<1>2. ASSUME NEW id, NEW profile
      PROVE  /\ edited \in Library!add_standards_profile(l, id, profile) => Library!IsLibrary(edited)
             /\ edited \in Library!replace_standards_profile(l, id, profile) => Library!IsLibrary(edited)
  BY <1>1 DEF Library!add_standards_profile, Library!replace_standards_profile
<1>3. ASSUME NEW id, NEW members, edited \in Library!SetMembers(l, id, members)
      PROVE  Library!IsLibrary(edited)
  <2>1. edited \in Library!replace_standards_profile(l, id, [l.profiles[id] EXCEPT !.standards = members])
    BY <1>3 DEF Library!SetMembers
  <2>. QED
    BY <1>2, <2>1
<1>4. ASSUME NEW id, NEW members
      PROVE  /\ edited \in Library!add_standards_to_profile(l, id, members) => Library!IsLibrary(edited)
             /\ edited \in Library!remove_standards_from_profile(l, id, members) => Library!IsLibrary(edited)
             /\ edited \in Library!set_profile_standards(l, id, members) => Library!IsLibrary(edited)
  BY <1>3, Zenon DEF Library!add_standards_to_profile, Library!remove_standards_from_profile, Library!set_profile_standards
<1>. QED
  BY <1>2, <1>3, <1>4

(* Every command that edits a library leaves a library. *)
LEMMA LibraryEdits ==
  ASSUME NEW l, Library!IsLibrary(l), NEW edited \in Library!Edits(l)
  PROVE  Library!IsLibrary(edited)
<1>1. edited \in Library!handle_standards_add(l) => Library!IsLibrary(edited)
  BY StandardEdits DEF Library!handle_standards_add
<1>2. edited \in Library!handle_standards_add_batch(l) => Library!IsLibrary(edited)
  BY StandardEdits DEF Library!handle_standards_add_batch
<1>3. edited \in Library!handle_standards_replace(l) => Library!IsLibrary(edited)
  BY StandardEdits DEF Library!handle_standards_replace
<1>4. edited \in Library!handle_standards_upsert(l) => Library!IsLibrary(edited)
  BY StandardEdits DEF Library!handle_standards_upsert
<1>5. edited \in Library!handle_standards_retire(l) \cup Library!handle_standards_reactivate(l) => Library!IsLibrary(edited)
  <2>. SUFFICES ASSUME edited \in Library!handle_standards_retire(l) \cup Library!handle_standards_reactivate(l)
                PROVE  Library!IsLibrary(edited)
    OBVIOUS
  <2>1. CASE edited \in Library!handle_standards_retire(l)
    <3>1. PICK id \in StandardIds :
            edited \in Library!set_standard_active(l, id, FALSE, FALSE) \cup Library!set_standard_active(l, id, FALSE, TRUE)
      BY <2>1, Zenon DEF Library!handle_standards_retire
    <3>. QED
      BY <3>1, StandardEdits, Zenon
  <2>2. CASE edited \in Library!handle_standards_reactivate(l)
    <3>1. PICK id \in StandardIds :
            edited \in Library!set_standard_active(l, id, TRUE, FALSE) \cup Library!set_standard_active(l, id, TRUE, TRUE)
      BY <2>2, Zenon DEF Library!handle_standards_reactivate
    <3>. QED
      BY <3>1, StandardEdits, Zenon
  <2>. QED
    BY <2>1, <2>2
<1>6. edited \in Library!handle_profile_create(l) => Library!IsLibrary(edited)
  BY ProfileEdits DEF Library!handle_profile_create
<1>7. edited \in Library!handle_profile_replace(l) => Library!IsLibrary(edited)
  BY ProfileEdits DEF Library!handle_profile_replace
<1>8. edited \in Library!handle_profile_import(l) => Library!IsLibrary(edited)
  BY <1>6, <1>7 DEF Library!handle_profile_import
<1>9. edited \in Library!handle_profile_add_standard(l) => Library!IsLibrary(edited)
  <2>. SUFFICES ASSUME edited \in Library!handle_profile_add_standard(l)
                PROVE  Library!IsLibrary(edited)
    OBVIOUS
  <2>1. PICK p \in DOMAIN l.profiles : edited \in UNION {Library!SetMembers(l, p, l.profiles[p].standards \cup {id}) : id \in (StandardIds \cap DOMAIN l.standards) \ l.profiles[p].standards}
    BY Zenon DEF Library!handle_profile_add_standard
  <2>2. PICK id : edited \in Library!SetMembers(l, p, l.profiles[p].standards \cup {id})
    BY <2>1, Zenon
  <2>. QED
    BY <2>2, ProfileEdits
<1>10. edited \in Library!handle_profile_remove_standard(l) => Library!IsLibrary(edited)
  <2>. SUFFICES ASSUME edited \in Library!handle_profile_remove_standard(l)
                PROVE  Library!IsLibrary(edited)
    OBVIOUS
  <2>1. PICK p \in DOMAIN l.profiles : edited \in UNION {Library!SetMembers(l, p, l.profiles[p].standards \ {id}) : id \in l.profiles[p].standards}
    BY Zenon DEF Library!handle_profile_remove_standard
  <2>2. PICK id : edited \in Library!SetMembers(l, p, l.profiles[p].standards \ {id})
    BY <2>1
  <2>. QED
    BY <2>2, ProfileEdits
<1>11. edited \in Library!handle_profile_membership_batch(l) => Library!IsLibrary(edited)
  BY ProfileEdits DEF Library!handle_profile_membership_batch
<1>. QED
  BY <1>1, <1>2, <1>3, <1>4, <1>5, <1>6, <1>7, <1>8, <1>9, <1>10, <1>11 DEF Library!Edits

(* What a command starts from. *)
LEMMA LoadedLibrary == Library!StoreInv => Library!IsLibrary(Library!Library)
<1>1. Library!IsLibrary(Library!EmptyLibrary)
  BY DEF Library!IsLibrary, Library!IsTable, Library!ValidLibrary, Library!EmptyLibrary
<1>. QED
  BY <1>1 DEF Library!StoreInv, Library!Library

LEMMA LibraryInit == Library!Init => Library!StoreInv
BY DEF Library!Init, Library!StoreInv

LEMMA LibraryStep == Library!StoreInv /\ Library!Next => Library!StoreInv'
<1>. SUFFICES ASSUME Library!StoreInv, NEW w \in LibraryWriters,
                     \/ Library!Edit(w) \/ Library!LookForLibrary(w) \/ Library!ReplaceLibrary(w)
                     \/ \E overwriting \in BOOLEAN :
                          Library!ImportLibrary(w, overwriting) \/ \E pack \in Packs : Library!Install(w, pack, overwriting)
              PROVE  Library!StoreInv'
  BY DEF Library!Next
<1>1. ASSUME NEW phase, NEW l, Library!IsLibrary(l), UNCHANGED library,
             pc' = [pc EXCEPT ![w] = phase], candidate' = [candidate EXCEPT ![w] = l]
      PROVE  Library!StoreInv'
  BY <1>1 DEF Library!StoreInv
<1>2. CASE Library!Edit(w)
  <2>1. PICK edited \in Library!Edits(Library!Library) : candidate' = [candidate EXCEPT ![w] = edited]
    BY <1>2, Zenon DEF Library!Edit
  <2>2. Library!IsLibrary(edited)
    BY LoadedLibrary, LibraryEdits
  <2>. QED
    BY <1>1, <1>2, <2>1, <2>2, Zenon DEF Library!Edit, Library!Goto
<1>3. ASSUME NEW overwriting \in BOOLEAN, Library!ImportLibrary(w, overwriting)
      PROVE  Library!StoreInv'
  <2>1. PICK imported \in LibraryFiles : Library!ValidLibrary(imported) /\ candidate' = [candidate EXCEPT ![w] = imported]
    BY <1>3, Zenon DEF Library!ImportLibrary
  <2>2. Library!IsLibrary(imported)
    BY <2>1, LibrariesAssumption, SameLibraries
  <2>. QED
    BY <1>1, <1>3, <2>1, <2>2, Zenon DEF Library!ImportLibrary, Library!Goto
<1>4. ASSUME NEW overwriting \in BOOLEAN, NEW pack \in Packs, Library!Install(w, pack, overwriting)
      PROVE  Library!StoreInv'
  <2>1. PICK result \in Library!Installed(Library!Library, pack, overwriting) : candidate' = [candidate EXCEPT ![w] = result.library]
    BY <1>4, Zenon DEF Library!Install
  <2>2. Libraries!IsLibrary(Library!Library) /\ Libraries!IsLibrary(pack)
    BY LoadedLibrary, LibrariesAssumption, SameLibraries
  <2>3. result \in Libraries!Installed(Library!Library, pack, overwriting)
    BY SameLibraries
  <2>4. Library!IsLibrary(result.library)
    BY <2>2, <2>3, InstalledLibraries, SameLibraries
  <2>. QED
    BY <1>1, <1>4, <2>1, <2>4, Zenon DEF Library!Install, Library!Goto
<1>5. CASE Library!ReplaceLibrary(w)
  <2>1. library' = library \/ library' = candidate[w]
    BY <1>5 DEF Library!ReplaceLibrary
  <2>2. /\ pc[w] \in {"create_library", "write_library"}
        /\ pc' = [pc EXCEPT ![w] = "idle"] /\ candidate' = [candidate EXCEPT ![w] = None]
    BY <1>5 DEF Library!ReplaceLibrary, Library!Goto
  <2>3. library' # None => Library!IsLibrary(library')
    BY <2>1, <2>2 DEF Library!StoreInv
  <2>4. \A v \in LibraryWriters : pc'[v] \in {"install", "create_library", "write_library"} => Library!IsLibrary(candidate'[v])
    BY <2>2 DEF Library!StoreInv
  <2>5. DOMAIN pc' = LibraryWriters /\ DOMAIN candidate' = LibraryWriters
    BY <2>2 DEF Library!StoreInv
  <2>. QED
    BY <2>3, <2>4, <2>5 DEF Library!StoreInv
<1>6. CASE Library!LookForLibrary(w)
  <2>1. /\ pc[w] = "install" /\ UNCHANGED <<library, candidate>>
        /\ \E phase : pc' = [pc EXCEPT ![w] = phase]
    BY <1>6 DEF Library!LookForLibrary, Library!Goto
  <2>2. \A v \in LibraryWriters \ {w} : pc'[v] = pc[v]
    BY <2>1 DEF Library!StoreInv
  <2>3. Library!IsLibrary(candidate[w])
    BY <2>1 DEF Library!StoreInv
  <2>. QED
    BY <2>1, <2>2, <2>3 DEF Library!StoreInv
<1>. QED
  BY <1>2, <1>3, <1>4, <1>5, <1>6

(* What is installed into what is stored is safe. *)
LEMMA StoredLibrariesTakePacks == Library!StoreInv => Library!LibrariesTakePacks
<1>. SUFFICES ASSUME Library!StoreInv PROVE Library!LibrariesTakePacks
  OBVIOUS
<1>1. Libraries!IsLibrary(Library!Library) /\ Library!ValidLibrary(Library!Library)
  BY LoadedLibrary, SameLibraries DEF Library!IsLibrary
<1>2. ASSUME NEW pack \in Packs
      PROVE  Library!InstallIsSafe(Library!Library, pack)
  <2>. SUFFICES ASSUME NEW overwriting \in BOOLEAN, NEW result \in Library!Installed(Library!Library, pack, overwriting)
                PROVE  /\ Library!ValidLibrary(result.library)
                       /\ Library!Holds(result.library, pack)
                       /\ DOMAIN Library!Library.standards \subseteq DOMAIN result.library.standards
                       /\ DOMAIN Library!Library.profiles \subseteq DOMAIN result.library.profiles
                       /\ DOMAIN Library!Library.frameworks \subseteq DOMAIN result.library.frameworks
                       /\ ~ overwriting => Library!Holds(result.library, Library!Library)
                       /\ ~ result.written => result.library = Library!Library
                       /\ Library!Installed(result.library, pack, overwriting) = {[library |-> result.library, written |-> FALSE]}
    BY DEF Library!InstallIsSafe
  <2>1. result \in Libraries!Installed(Library!Library, pack, overwriting) /\ Libraries!IsLibrary(pack)
    BY SameLibraries, LibrariesAssumption
  <2>2. /\ Libraries!IsLibrary(result.library)
        /\ Libraries!Holds(result.library, pack)
        /\ DOMAIN Library!Library.standards \subseteq DOMAIN result.library.standards
        /\ DOMAIN Library!Library.profiles \subseteq DOMAIN result.library.profiles
        /\ DOMAIN Library!Library.frameworks \subseteq DOMAIN result.library.frameworks
        /\ ~ overwriting => Libraries!Holds(result.library, Library!Library)
        /\ ~ result.written => result.library = Library!Library
        /\ Libraries!Installed(result.library, pack, overwriting) = {[library |-> result.library, written |-> FALSE]}
    BY <1>1, <2>1, InstalledLibraries
  <2>3. ASSUME NEW l, NEW m
        PROVE  Library!Holds(l, m) <=> Libraries!Holds(l, m)
    BY DEF Library!Holds, Libraries!Holds, Library!Contains, Libraries!Contains
  <2>4. Library!ValidLibrary(result.library)
    BY <2>2, SameLibraries DEF Libraries!IsLibrary
  <2>. QED
    BY <2>2, <2>3, <2>4, SameLibraries
<1>. QED
  BY <1>1, <1>2 DEF Library!LibrariesTakePacks

-----------------------------------------------------------------------------
(* The standards menu. *)

LEMMA FiniteLibraries ==
  /\ \A S : Menu!IsFiniteSet(S) <=> IsFiniteSet(S)
  /\ \A l : Menu!IsFiniteLibrary(l) <=> Menu!IsLibrary(l) /\ IsFiniteSet(DOMAIN l.profiles)
<1>1. ASSUME NEW S PROVE Menu!IsFiniteSet(S) <=> IsFiniteSet(S)
  BY Zenon DEF Menu!IsFiniteSet, IsFiniteSet
<1>. QED
  BY <1>1 DEF Menu!IsFiniteLibrary

LEMMA MenuStandards ==
  ASSUME NEW l, Menu!IsFiniteLibrary(l), NEW definitions, NEW edited \in Menu!add_standard_definitions(l, definitions)
  PROVE  Menu!Fits(l, edited)
<1>. DEFINE table == [id \in DOMAIN l.standards \cup DOMAIN definitions |->
                        IF id \in DOMAIN definitions THEN definitions[id] ELSE l.standards[id]]
            withStandards == [standards |-> table, profiles |-> l.profiles, frameworks |-> l.frameworks]
<1>1. /\ l = [standards |-> l.standards, profiles |-> l.profiles, frameworks |-> l.frameworks]
      /\ Menu!IsTable(l.profiles) /\ Menu!IsTable(l.frameworks) /\ IsFiniteSet(DOMAIN l.profiles)
  BY FiniteLibraries DEF Menu!IsLibrary
<1>2. DOMAIN definitions \cap DOMAIN l.standards = {} /\ edited \in Menu!Checked([l EXCEPT !.standards = table])
  BY DEF Menu!add_standard_definitions
<1>3. Menu!IsTable(table) /\ \A id \in DOMAIN l.standards : id \in DOMAIN table /\ table[id] = l.standards[id]
  BY <1>2 DEF Menu!IsTable
<1>. HIDE DEF table
<1>4. edited = withStandards /\ Menu!ValidLibrary(withStandards)
  BY <1>1, <1>2 DEF Menu!Checked
<1>5. Menu!IsFiniteLibrary(withStandards)
  BY <1>1, <1>3, <1>4, FiniteLibraries DEF Menu!IsLibrary
<1>6. Menu!Holds(withStandards, [l EXCEPT !.profiles = << >>])
  <2>1. [l EXCEPT !.profiles = << >>] = [standards |-> l.standards, profiles |-> << >>, frameworks |-> l.frameworks]
    BY <1>1
  <2>. QED
    BY <1>3, <2>1 DEF Menu!Holds, Menu!Contains
<1>. QED
  BY <1>4, <1>5, <1>6 DEF Menu!Fits, Menu!Kept

LEMMA MenuProfiles ==
  ASSUME NEW l, Menu!IsFiniteLibrary(l), NEW id, NEW profile, NEW edited \in Menu!upsert_standards_profile(l, id, profile)
  PROVE  Menu!Fits(l, edited)
<1>. DEFINE table == Menu!Put(l.profiles, id, profile)
            withProfiles == [standards |-> l.standards, profiles |-> table, frameworks |-> l.frameworks]
<1>1. /\ l = [standards |-> l.standards, profiles |-> l.profiles, frameworks |-> l.frameworks]
      /\ Menu!IsTable(l.standards) /\ Menu!IsTable(l.frameworks) /\ IsFiniteSet(DOMAIN l.profiles)
  BY FiniteLibraries DEF Menu!IsLibrary
<1>2. edited \in Menu!Checked([l EXCEPT !.profiles = table])
  BY DEF Menu!upsert_standards_profile
<1>3. /\ Menu!IsTable(table) /\ DOMAIN table = DOMAIN l.profiles \cup {id}
      /\ \A q \in DOMAIN l.profiles : q # id => table[q] = l.profiles[q]
  BY DEF Menu!IsTable, Menu!Put
<1>. HIDE DEF table
<1>4. edited = withProfiles /\ Menu!ValidLibrary(withProfiles)
  BY <1>1, <1>2 DEF Menu!Checked
<1>5. IsFiniteSet(DOMAIN l.profiles \cup {id})
  BY <1>1, FS_AddElement
<1>6. Menu!IsFiniteLibrary(withProfiles)
  BY <1>1, <1>3, <1>4, <1>5, FiniteLibraries DEF Menu!IsLibrary
<1>7. Menu!Holds(withProfiles, [l EXCEPT !.profiles = << >>])
  <2>1. [l EXCEPT !.profiles = << >>] = [standards |-> l.standards, profiles |-> << >>, frameworks |-> l.frameworks]
    BY <1>1
  <2>. QED
    BY <2>1 DEF Menu!Holds, Menu!Contains
<1>. QED
  BY <1>3, <1>4, <1>6, <1>7 DEF Menu!Fits, Menu!Kept

LEMMA MenuEdits ==
  ASSUME NEW l, Menu!IsFiniteLibrary(l), NEW edited
  PROVE  /\ \A id, profile : edited \in Menu!add_standards_profile(l, id, profile) => Menu!Fits(l, edited)
         /\ \A id, profile : edited \in Menu!replace_standards_profile(l, id, profile) => Menu!Fits(l, edited)
         /\ \A file, adding : edited \in Menu!WithProfile(l, file, adding) => Menu!Fits(l, edited)
         /\ \A id, members : edited \in Menu!add_standards_to_profile(l, id, members) => Menu!Fits(l, edited)
         /\ \A id, members : edited \in Menu!remove_standards_from_profile(l, id, members) => Menu!Fits(l, edited)
         /\ \A id, members : edited \in Menu!set_profile_standards(l, id, members) => Menu!Fits(l, edited)
<1>1. ASSUME NEW id, NEW profile
      PROVE  /\ edited \in Menu!add_standards_profile(l, id, profile) => Menu!Fits(l, edited)
             /\ edited \in Menu!replace_standards_profile(l, id, profile) => Menu!Fits(l, edited)
  BY MenuProfiles DEF Menu!add_standards_profile, Menu!replace_standards_profile
<1>2. ASSUME NEW file, NEW adding, edited \in Menu!WithProfile(l, file, adding)
      PROVE  Menu!Fits(l, edited)
  BY <1>1, <1>2 DEF Menu!WithProfile
<1>3. ASSUME NEW id, NEW members, edited \in Menu!SetMembers(l, id, members)
      PROVE  Menu!Fits(l, edited)
  <2>1. edited \in Menu!replace_standards_profile(l, id, [l.profiles[id] EXCEPT !.standards = members])
    BY <1>3 DEF Menu!SetMembers
  <2>. QED
    BY <1>1, <2>1
<1>4. ASSUME NEW id, NEW members
      PROVE  /\ edited \in Menu!add_standards_to_profile(l, id, members) => Menu!Fits(l, edited)
             /\ edited \in Menu!remove_standards_from_profile(l, id, members) => Menu!Fits(l, edited)
             /\ edited \in Menu!set_profile_standards(l, id, members) => Menu!Fits(l, edited)
  BY <1>3, Zenon DEF Menu!add_standards_to_profile, Menu!remove_standards_from_profile, Menu!set_profile_standards
<1>. QED
  BY <1>1, <1>2, <1>4

(* Installing a pack, with or without leave to overwrite. *)
LEMMA MenuInstalls ==
  ASSUME NEW l, Menu!IsFiniteLibrary(l), NEW pack \in MenuPacks, NEW overwriting \in BOOLEAN,
         NEW result \in Menu!Installed(l, pack, overwriting)
  PROVE  /\ Menu!IsFiniteLibrary(result.library)
         /\ ~ overwriting => Menu!Fits(l, result.library)
<1>1. /\ Libraries!IsLibrary(l) /\ Libraries!IsLibrary(pack) /\ IsFiniteSet(DOMAIN l.profiles) /\ IsFiniteSet(DOMAIN pack.profiles)
      /\ result \in Libraries!Installed(l, pack, overwriting)
  BY SameLibraries, LibrariesAssumption, FiniteLibraries
<1>2. /\ Libraries!IsLibrary(result.library)
      /\ DOMAIN l.profiles \subseteq DOMAIN result.library.profiles
      /\ ~ overwriting => Libraries!Holds(result.library, l)
  BY <1>1, InstalledLibraries
<1>3. DOMAIN result.library.profiles = DOMAIN l.profiles \cup DOMAIN pack.profiles
  BY <1>1 DEF Libraries!Installed, Libraries!Merged
<1>4. Menu!IsFiniteLibrary(result.library)
  <2>1. IsFiniteSet(DOMAIN l.profiles \cup DOMAIN pack.profiles)
    BY <1>1, FS_Union, Zenon
  <2>. QED
    BY <1>2, <1>3, <2>1, SameLibraries, FiniteLibraries, Zenon
<1>5. ASSUME ~ overwriting PROVE Menu!Fits(l, result.library)
  <2>1. /\ \A id \in DOMAIN l.standards : id \in DOMAIN result.library.standards /\ result.library.standards[id] = l.standards[id]
        /\ \A id \in DOMAIN l.profiles : id \in DOMAIN result.library.profiles /\ result.library.profiles[id] = l.profiles[id]
        /\ \A id \in DOMAIN l.frameworks : id \in DOMAIN result.library.frameworks /\ result.library.frameworks[id] = l.frameworks[id]
    BY <1>2, <1>5 DEF Libraries!Holds, Libraries!Contains
  <2>2. [l EXCEPT !.profiles = << >>] = [standards |-> l.standards, profiles |-> << >>, frameworks |-> l.frameworks]
    BY <1>1 DEF Libraries!IsLibrary
  <2>3. Menu!Holds(result.library, [l EXCEPT !.profiles = << >>])
    BY <2>1, <2>2 DEF Menu!Holds, Menu!Contains
  <2>4. DOMAIN l.profiles \ Menu!Kept(l.profiles, result.library.profiles) = {}
    BY <2>1 DEF Menu!Kept
  <2>. QED
    BY <1>2, <1>4, <2>3, <2>4 DEF Menu!Fits
<1>. QED
  BY <1>4, <1>5

(* What commands make of a library while a session is open is a library. *)
LEMMA CommandsMakeLibraries ==
  ASSUME NEW l, Menu!IsFiniteLibrary(l), NEW edited \in CommandsMake(l)
  PROVE  Menu!IsFiniteLibrary(edited)
<1>. DEFINE adding == UNION {Libraries!add_standard_definitions(l, batch) : batch \in Batches}
            installing == UNION {CommandsInstall(l, pack) : pack \in MenuPacks}
<1>1. ASSUME edited \in adding PROVE Menu!IsFiniteLibrary(edited)
  <2>1. PICK batch \in Batches : edited \in Libraries!add_standard_definitions(l, batch)
    BY <1>1
  <2>2. Libraries!add_standard_definitions(l, batch) = Menu!add_standard_definitions(l, batch)
    BY DEF Libraries!add_standard_definitions, Menu!add_standard_definitions, Libraries!Checked, Menu!Checked,
           Libraries!ValidLibrary, Menu!ValidLibrary
  <2>3. edited \in Menu!add_standard_definitions(l, batch)
    BY <2>1, <2>2
  <2>4. Menu!Fits(l, edited)
    BY <2>3, MenuStandards
  <2>. QED
    BY <2>4 DEF Menu!Fits
<1>2. ASSUME edited \in installing PROVE Menu!IsFiniteLibrary(edited)
  <2>1. PICK pack \in MenuPacks : edited \in CommandsInstall(l, pack)
    BY <1>2
  <2>2. PICK result \in Libraries!Installed(l, pack, TRUE) : edited = result.library
    BY <2>1, Zenon DEF CommandsInstall
  <2>3. result \in Menu!Installed(l, pack, TRUE)
    BY SameLibraries, Zenon
  <2>. QED
    BY <2>2, <2>3, MenuInstalls, Zenon
<1>3. CommandsMake(l) = adding \cup installing
  BY Zenon DEF CommandsMake
<1>. HIDE DEF adding, installing
<1>. QED
  BY <1>1, <1>2, <1>3

(* What a step of the menu leaves on disk. *)
MenuFiles ==
  /\ disturbances' \in Nat /\ inbox' \in Imports \cup {None}
  /\ library' # None => Menu!IsFiniteLibrary(library')

(* A session that is back at a menu, or closed, has no draft. *)
LEMMA ToMenu ==
  ASSUME MenuFiles, screen' \in Menu!Menus \cup {"closed"}, screen' # "closed" => Menu!IsFiniteLibrary(mine')
  PROVE  Menu!MenuInv'
<1>1. screen' \notin Menu!Steps
  BY DEF Menu!Menus, Menu!Steps
<1>2. screen' # "closed" => Menu!IsFiniteLibrary(mine)'
  BY DEF Menu!IsFiniteLibrary, Menu!IsLibrary, Menu!IsTable, Menu!ValidLibrary
<1>3. library' # None => Menu!IsFiniteLibrary(library)'
  BY DEF MenuFiles, Menu!IsFiniteLibrary, Menu!IsLibrary, Menu!IsTable, Menu!ValidLibrary
<1>. QED
  BY <1>1, <1>2, <1>3 DEF MenuFiles, Menu!MenuInv

LEMMA FilesStay ==
  ASSUME Menu!MenuInv, UNCHANGED <<library, inbox>>, UNCHANGED disturbances \/ Menu!Fault
  PROVE  MenuFiles
BY DEF Menu!MenuInv, MenuFiles, Menu!Fault

(* A workflow that has prepared what it shows. *)
LEMMA PrepareStep ==
  ASSUME Menu!MenuInv, NEW workflow \in Menu!EditWorkflows \cup Menu!ImportWorkflows \cup {"install", "export_library", "export_profile"},
         NEW prepared, NEW shown, NEW overwrite,
         Menu!Prepare(workflow, prepared, shown, overwrite), screen' \in {"subparts", "review", "overwrite_export"},
         screen' = "overwrite_export" => workflow \in {"export_library", "export_profile"},
         screen' = "subparts" => workflow = "standard",
         workflow \in {"export_library", "export_profile", "install"} \/ screen' = "subparts" => shown = None,
         workflow = "install" => prepared \in MenuPacks,
         workflow \in Menu!EditWorkflows /\ screen' # "subparts" => Menu!Fits(mine, prepared) /\ shown = prepared,
         workflow \in Menu!ImportWorkflows => Menu!IsFiniteLibrary(prepared) /\ shown = prepared,
         workflow = "import_library" => prepared = inbox.content,
         workflow = "import_profile" => prepared \in Menu!WithProfile(mine, inbox, ~ overwrite)
  PROVE  Menu!MenuInv'
<1>1. screen \in Menu!Menus
  BY DEF Menu!Prepare, Menu!Offered, Menu!Menus, Menu!EditWorkflows, Menu!ImportWorkflows
<1>2. /\ draft' = [workflow |-> workflow, menu |-> screen, prepared |-> prepared, shown |-> shown,
                   agreed |-> FALSE, overwrite |-> overwrite, writes |-> None]
      /\ library' = library /\ mine' = mine /\ inbox' = inbox /\ outbox' = outbox /\ disturbances' = disturbances
  BY DEF Menu!Prepare, Menu!Files, Menu!NoFault
<1>3. Menu!IsFiniteLibrary(mine)
  BY <1>1 DEF Menu!MenuInv, Menu!Menus
<1>4. Menu!DraftFits'
  BY <1>1, <1>2 DEF Menu!DraftFits, Menu!Exporting, Menu!EditWorkflows, Menu!ImportWorkflows
<1>5. Menu!PreparedFits'
  <2>1. draft'.workflow = workflow /\ draft'.prepared = prepared /\ draft'.shown = shown /\ draft'.overwrite = overwrite
    BY <1>2
  <2>2. workflow \in Menu!EditWorkflows /\ screen' # "subparts" => Menu!Fits(mine', draft'.prepared)
    BY <1>2, <2>1
  <2>3. workflow \in Menu!ImportWorkflows => Menu!IsFiniteLibrary(draft'.prepared)
    BY <2>1
  <2>4. workflow = "import_profile" => draft'.prepared \in Menu!WithProfile(mine', inbox', ~ draft'.overwrite)
    BY <1>2, <2>1
  <2>. QED
    BY <1>2, <2>1, <2>2, <2>3, <2>4 DEF Menu!PreparedFits
<1>6. Menu!WrittenFits'
  BY DEF Menu!WrittenFits
<1>7. screen' \in Menu!Steps
  BY DEF Menu!Steps
<1>. QED
  BY <1>2, <1>3, <1>4, <1>5, <1>6, <1>7 DEF Menu!MenuInv

LEMMA MenuPrepares ==
  ASSUME Menu!MenuInv
  PROVE  /\ \A id : Menu!AddStandard(id) => Menu!MenuInv'
         /\ \A p, ids : Menu!CreateProfile(p, ids) => Menu!MenuInv'
         /\ \A p, ids : Menu!EditProfile(p, ids) => Menu!MenuInv'
         /\ Menu!ImportLibrary => Menu!MenuInv'
         /\ \A adding \in BOOLEAN : Menu!ImportProfile(adding) => Menu!MenuInv'
         /\ \A workflow \in {"export_library", "export_profile"} : Menu!Export(workflow) => Menu!MenuInv'
         /\ \A pack \in MenuPacks : Menu!InstallPack(pack) => Menu!MenuInv'
<1>0. ASSUME NEW workflow \in Menu!EditWorkflows \cup Menu!ImportWorkflows \cup {"install", "export_library", "export_profile"},
             NEW prepared, NEW shown, NEW overwrite, Menu!Prepare(workflow, prepared, shown, overwrite)
      PROVE  Menu!IsFiniteLibrary(mine)
  <2>1. screen \in Menu!Menus
    BY <1>0 DEF Menu!Prepare, Menu!Offered, Menu!Menus, Menu!EditWorkflows, Menu!ImportWorkflows
  <2>. QED
    BY <2>1 DEF Menu!MenuInv, Menu!Menus
<1>1. ASSUME NEW id, Menu!AddStandard(id) PROVE Menu!MenuInv'
  BY <1>1, PrepareStep, Zenon DEF Menu!AddStandard, Menu!EditWorkflows, Menu!ImportWorkflows
<1>2. ASSUME NEW p, NEW ids, Menu!CreateProfile(p, ids) PROVE Menu!MenuInv'
  <2>1. PICK updated \in Menu!add_standards_profile(mine, p, [standards |-> ids, text |-> 1]) :
          Menu!Prepare("profile", updated, updated, TRUE) /\ screen' = "review"
    BY <1>2, Zenon DEF Menu!CreateProfile, Menu!Review
  <2>2. Menu!Fits(mine, updated)
    BY <1>0, <2>1, MenuEdits, Zenon DEF Menu!EditWorkflows
  <2>. QED
    BY <2>1, <2>2, PrepareStep, Zenon DEF Menu!EditWorkflows, Menu!ImportWorkflows
<1>3. ASSUME NEW p, NEW ids, Menu!EditProfile(p, ids) PROVE Menu!MenuInv'
  <2>1. PICK updated : /\ Menu!Prepare("members", updated, updated, TRUE) /\ screen' = "review"
                       /\ \/ updated \in Menu!add_standards_to_profile(mine, p, ids)
                          \/ updated \in Menu!remove_standards_from_profile(mine, p, ids)
                          \/ updated \in Menu!set_profile_standards(mine, p, ids)
    BY <1>3, Zenon DEF Menu!EditProfile, Menu!Review
  <2>2. Menu!Fits(mine, updated)
    BY <1>0, <2>1, MenuEdits, Zenon DEF Menu!EditWorkflows
  <2>. QED
    BY <2>1, <2>2, PrepareStep, Zenon DEF Menu!EditWorkflows, Menu!ImportWorkflows
<1>4. ASSUME Menu!ImportLibrary PROVE Menu!MenuInv'
  <2>1. inbox \in Imports /\ inbox.kind = "library"
    BY <1>4 DEF Menu!ImportLibrary, Menu!Holding, Menu!MenuInv
  <2>2. Menu!IsFiniteLibrary(inbox.content)
    BY <2>1, LibrariesAssumption, SameLibraries, FiniteLibraries
  <2>. QED
    BY <1>4, <2>2, PrepareStep, Zenon DEF Menu!ImportLibrary, Menu!EditWorkflows, Menu!ImportWorkflows
<1>5. ASSUME NEW adding \in BOOLEAN, Menu!ImportProfile(adding) PROVE Menu!MenuInv'
  <2>1. PICK updated \in Menu!WithProfile(mine, inbox, adding) :
          Menu!Prepare("import_profile", updated, updated, ~ adding) /\ screen' = "review"
    BY <1>5 DEF Menu!ImportProfile, Menu!Review
  <2>2. Menu!IsFiniteLibrary(updated)
    BY <1>0, <2>1, MenuEdits, Zenon DEF Menu!ImportWorkflows, Menu!Fits
  <2>3. (~ ~ adding) = adding
    OBVIOUS
  <2>. QED
    BY <2>1, <2>2, <2>3, PrepareStep, Zenon DEF Menu!EditWorkflows, Menu!ImportWorkflows
<1>6. ASSUME NEW workflow \in {"export_library", "export_profile"}, Menu!Export(workflow) PROVE Menu!MenuInv'
  <2>1. Menu!Prepare(workflow, None, None, FALSE) /\ screen' \in {"overwrite_export", "review"}
    BY <1>6, Zenon DEF Menu!Export
  <2>. QED
    BY <2>1, PrepareStep, Zenon DEF Menu!EditWorkflows, Menu!ImportWorkflows
<1>7. ASSUME NEW pack \in MenuPacks, Menu!InstallPack(pack) PROVE Menu!MenuInv'
  BY <1>7, PrepareStep, Zenon DEF Menu!InstallPack, Menu!EditWorkflows, Menu!ImportWorkflows
<1>. QED
  BY <1>1, <1>2, <1>3, <1>4, <1>5, <1>6, <1>7

(* A step of a workflow, which changes the draft only. *)
LEMMA DraftOf ==
  ASSUME Menu!MenuInv, screen \in Menu!Steps
  PROVE  /\ draft = [workflow |-> draft.workflow, menu |-> draft.menu, prepared |-> draft.prepared, shown |-> draft.shown,
                     agreed |-> draft.agreed, overwrite |-> draft.overwrite, writes |-> draft.writes]
         /\ draft.menu \in Menu!Menus /\ Menu!IsFiniteLibrary(mine)
         /\ draft.workflow \in Menu!EditWorkflows \cup Menu!ImportWorkflows \cup {"install", "export_library", "export_profile"}
         /\ Menu!DraftFits /\ Menu!PreparedFits /\ Menu!WrittenFits
<1>1. screen # "closed"
  BY DEF Menu!Steps
<1>. QED
  BY <1>1 DEF Menu!MenuInv, Menu!DraftFits

LEMMA WorkflowStep ==
  ASSUME Menu!MenuInv, UNCHANGED <<Menu!Files, mine>>, Menu!NoFault, screen' \in Menu!Steps,
         Menu!DraftFits', Menu!PreparedFits', Menu!WrittenFits', screen \in Menu!Steps
  PROVE  Menu!MenuInv'
<1>1. Menu!IsFiniteLibrary(mine) /\ mine' = mine /\ library' = library /\ inbox' = inbox /\ disturbances' = disturbances
  BY DraftOf DEF Menu!Files, Menu!NoFault
<1>. QED
  BY <1>1 DEF Menu!MenuInv

LEMMA SubpartStep == Menu!MenuInv /\ (\E id \in UNION {SubpartsOf(parent) : parent \in MenuStandardIds} : Menu!AddSubpart(id)) => Menu!MenuInv'
<1>. SUFFICES ASSUME Menu!MenuInv, NEW id, Menu!AddSubpart(id) PROVE Menu!MenuInv'
  OBVIOUS
<1>1. screen = "subparts" /\ screen' = "subparts" /\ screen \in Menu!Steps /\ screen' \in Menu!Steps
  BY DEF Menu!AddSubpart, Menu!Steps
<1>2. PICK prepared : draft' = [draft EXCEPT !.prepared = prepared]
  BY Zenon DEF Menu!AddSubpart
<1>3. draft' = [workflow |-> draft.workflow, menu |-> draft.menu, prepared |-> prepared, shown |-> draft.shown,
                agreed |-> draft.agreed, overwrite |-> draft.overwrite, writes |-> draft.writes]
  BY <1>1, <1>2, DraftOf
<1>4. draft.workflow = "standard" /\ draft.shown = None /\ draft.menu \in Menu!Menus
  BY <1>1, DraftOf DEF Menu!DraftFits
<1>5. Menu!DraftFits'
  BY <1>1, <1>3, <1>4 DEF Menu!DraftFits, Menu!Exporting, Menu!EditWorkflows, Menu!ImportWorkflows
<1>6. Menu!PreparedFits' /\ Menu!WrittenFits'
  BY <1>1, <1>3, <1>4 DEF Menu!PreparedFits, Menu!WrittenFits, Menu!EditWorkflows, Menu!ImportWorkflows
<1>. QED
  BY <1>1, <1>5, <1>6, WorkflowStep DEF Menu!AddSubpart

LEMMA ReviewStep == Menu!MenuInv /\ Menu!ReviewStandard => Menu!MenuInv'
<1>. SUFFICES ASSUME Menu!MenuInv, Menu!ReviewStandard PROVE Menu!MenuInv'
  OBVIOUS
<1>1. screen = "subparts" /\ screen' = "review" /\ screen \in Menu!Steps /\ screen' \in Menu!Steps
  BY DEF Menu!ReviewStandard, Menu!Steps
<1>2. PICK updated \in Menu!add_standard_definitions(mine, draft.prepared) :
        draft' = [draft EXCEPT !.prepared = updated, !.shown = updated]
  BY Zenon DEF Menu!ReviewStandard
<1>3. draft' = [workflow |-> draft.workflow, menu |-> draft.menu, prepared |-> updated, shown |-> updated,
                agreed |-> draft.agreed, overwrite |-> draft.overwrite, writes |-> draft.writes]
  BY <1>1, <1>2, DraftOf, Zenon
<1>4. draft.workflow = "standard" /\ draft.menu \in Menu!Menus
  BY <1>1, DraftOf DEF Menu!DraftFits
<1>5. Menu!Fits(mine, updated) /\ mine' = mine
  BY <1>1, <1>2, DraftOf, MenuStandards DEF Menu!ReviewStandard
<1>6. Menu!DraftFits'
  BY <1>1, <1>3, <1>4 DEF Menu!DraftFits, Menu!Exporting, Menu!EditWorkflows, Menu!ImportWorkflows
<1>7. Menu!PreparedFits'
  <2>1. draft'.workflow = "standard" /\ draft'.prepared = updated /\ draft'.shown = updated
    BY <1>3, <1>4
  <2>2. Menu!Fits(mine', draft'.prepared)
    BY <1>5, <2>1
  <2>. QED
    BY <2>1, <2>2 DEF Menu!PreparedFits, Menu!EditWorkflows, Menu!ImportWorkflows
<1>8. Menu!WrittenFits'
  BY <1>1 DEF Menu!WrittenFits
<1>. QED
  BY <1>1, <1>6, <1>7, <1>8, WorkflowStep DEF Menu!ReviewStandard

LEMMA ReturnStep ==
  ASSUME Menu!MenuInv, screen \in Menu!Steps, Menu!Return, MenuFiles, Menu!IsFiniteLibrary(mine')
  PROVE  Menu!MenuInv'
BY DraftOf, ToMenu DEF Menu!Return

LEMMA ConfirmStep == Menu!MenuInv /\ Menu!Confirm => Menu!MenuInv'
<1>. SUFFICES ASSUME Menu!MenuInv, Menu!Confirm PROVE Menu!MenuInv'
  OBVIOUS
<1>1. screen \in Menu!Steps /\ screen' \in Menu!Steps
  BY DEF Menu!Confirm, Menu!Steps
<1>2. /\ draft = [workflow |-> draft.workflow, menu |-> draft.menu, prepared |-> draft.prepared, shown |-> draft.shown,
                  agreed |-> draft.agreed, overwrite |-> draft.overwrite, writes |-> draft.writes]
      /\ Menu!DraftFits /\ Menu!PreparedFits
  BY <1>1, DraftOf
<1>3. library' = library /\ mine' = mine /\ inbox' = inbox /\ disturbances' = disturbances
  BY DEF Menu!Confirm, Menu!Files, Menu!NoFault
<1>4. CASE screen = "review"
  <2>1. draft' = [workflow |-> draft.workflow, menu |-> draft.menu, prepared |-> draft.prepared, shown |-> draft.shown,
                  agreed |-> TRUE, overwrite |-> draft.overwrite, writes |-> draft.writes]
    BY <1>2, <1>4 DEF Menu!Confirm
  <2>2. screen' = IF draft.workflow = "import_library" /\ library # None THEN "overwrite_library" ELSE "carry_out"
    BY <1>4 DEF Menu!Confirm
  <2>3. Menu!DraftFits'
    BY <1>2, <1>4, <2>1, <2>2 DEF Menu!DraftFits, Menu!Exporting, Menu!EditWorkflows, Menu!ImportWorkflows
  <2>4. Menu!PreparedFits'
    <3>1. /\ draft'.workflow = draft.workflow /\ draft'.prepared = draft.prepared /\ draft'.shown = draft.shown
          /\ draft'.overwrite = draft.overwrite
      BY <2>1
    <3>2. draft.workflow \in Menu!EditWorkflows => Menu!Fits(mine', draft'.prepared) /\ draft'.shown = draft'.prepared
      BY <1>2, <1>3, <1>4, <3>1 DEF Menu!PreparedFits
    <3>3. draft.workflow \in Menu!ImportWorkflows => Menu!IsFiniteLibrary(draft'.prepared) /\ draft'.shown = draft'.prepared
      BY <1>2, <3>1 DEF Menu!PreparedFits
    <3>4. draft.workflow = "import_library" /\ disturbances = 0 =>
            /\ draft'.prepared = inbox'.content
            /\ ~ (screen' \in {"carry_out", "replace_library"} /\ library # None)
      BY <1>2, <1>3, <2>2, <3>1 DEF Menu!PreparedFits
    <3>5. draft.workflow = "import_profile" /\ disturbances = 0 => draft'.prepared \in Menu!WithProfile(mine', inbox', ~ draft'.overwrite)
      BY <1>2, <1>3, <1>4, <3>1 DEF Menu!PreparedFits
    <3>. QED
      BY <1>3, <3>1, <3>2, <3>3, <3>4, <3>5 DEF Menu!PreparedFits
  <2>5. Menu!WrittenFits'
    BY <2>2 DEF Menu!WrittenFits
  <2>. QED
    BY <1>1, <2>3, <2>4, <2>5, WorkflowStep DEF Menu!Confirm
<1>5. CASE screen \in {"overwrite_library", "overwrite_export"}
  <2>1. draft' = [workflow |-> draft.workflow, menu |-> draft.menu, prepared |-> draft.prepared, shown |-> draft.shown,
                  agreed |-> draft.agreed, overwrite |-> TRUE, writes |-> draft.writes]
    BY <1>2, <1>5 DEF Menu!Confirm
  <2>2. screen' = IF screen = "overwrite_export" THEN "review" ELSE "carry_out"
    BY <1>5 DEF Menu!Confirm
  <2>3. Menu!DraftFits'
    BY <1>2, <1>5, <2>1, <2>2 DEF Menu!DraftFits, Menu!Exporting, Menu!EditWorkflows, Menu!ImportWorkflows
  <2>4. /\ draft'.workflow = draft.workflow /\ draft'.prepared = draft.prepared /\ draft'.shown = draft.shown /\ draft'.overwrite
    BY <2>1
  <2>5. screen = "overwrite_export" => draft.workflow \in {"export_library", "export_profile"}
    BY <1>2 DEF Menu!DraftFits, Menu!Exporting
  <2>6. screen = "overwrite_library" => draft.workflow = "import_library"
    BY <1>2 DEF Menu!DraftFits
  <2>7. Menu!PreparedFits'
    <3>1. CASE screen = "overwrite_export"
      BY <2>4, <2>5, <3>1 DEF Menu!PreparedFits, Menu!EditWorkflows, Menu!ImportWorkflows
    <3>2. CASE screen = "overwrite_library"
      <4>1. Menu!IsFiniteLibrary(draft'.prepared) /\ draft'.shown = draft'.prepared
        BY <1>2, <2>4, <2>6, <3>2 DEF Menu!PreparedFits, Menu!ImportWorkflows
      <4>2. disturbances = 0 => draft'.prepared = inbox'.content
        BY <1>2, <1>3, <2>4, <2>6, <3>2 DEF Menu!PreparedFits
      <4>. QED
        BY <1>3, <2>4, <2>6, <3>2, <4>1, <4>2 DEF Menu!PreparedFits, Menu!EditWorkflows, Menu!ImportWorkflows
    <3>. QED
      BY <1>5, <3>1, <3>2
  <2>8. Menu!WrittenFits'
    BY <2>2 DEF Menu!WrittenFits
  <2>. QED
    BY <1>1, <2>3, <2>7, <2>8, WorkflowStep DEF Menu!Confirm
<1>. QED
  BY <1>4, <1>5 DEF Menu!Confirm

LEMMA CancelStep == Menu!MenuInv /\ Menu!Cancel => Menu!MenuInv'
<1>. SUFFICES ASSUME Menu!MenuInv, Menu!Cancel PROVE Menu!MenuInv'
  OBVIOUS
<1>1. screen \in Menu!Steps
  BY DEF Menu!Cancel, Menu!Steps
<1>2. MenuFiles
  BY FilesStay DEF Menu!Cancel, Menu!Files, Menu!NoFault
<1>3. Menu!IsFiniteLibrary(mine')
  BY <1>1, DraftOf DEF Menu!Cancel
<1>. QED
  BY <1>1, <1>2, <1>3, ReturnStep DEF Menu!Cancel

(* Between YES and the end of a workflow the draft keeps what was agreed on. *)
LEMMA AskStep ==
  ASSUME Menu!MenuInv, NEW step \in {"replace_export", "reload"}, Menu!Ask(step), MenuFiles, mine' = mine,
         screen \in Menu!Steps, draft.agreed,
         step = "replace_export" => Menu!Exporting, step = "reload" => draft.workflow = "install"
  PROVE  Menu!MenuInv'
<1>1. screen' = step /\ draft' = draft
  BY DEF Menu!Ask
<1>2. draft.workflow \in {"install", "export_library", "export_profile"}
  BY DEF Menu!Exporting
<1>3. Menu!DraftFits'
  BY <1>1, <1>2, DraftOf DEF Menu!DraftFits, Menu!Exporting, Menu!EditWorkflows, Menu!ImportWorkflows
<1>4. Menu!PreparedFits'
  BY <1>1, <1>2 DEF Menu!PreparedFits, Menu!EditWorkflows, Menu!ImportWorkflows
<1>5. Menu!WrittenFits'
  BY <1>1 DEF Menu!WrittenFits
<1>6. screen' \in Menu!Steps
  BY <1>1 DEF Menu!Steps
<1>7. Menu!IsFiniteLibrary(mine')
  BY DraftOf
<1>. QED
  BY <1>3, <1>4, <1>5, <1>6, <1>7 DEF Menu!MenuInv, MenuFiles

(* What a workflow is about to write. *)
LEMMA MenuWrites ==
  ASSUME Menu!MenuInv, screen = "carry_out", ~ Menu!Exporting, NEW w \in Menu!Written
  PROVE  /\ Menu!IsFiniteLibrary(w.library)
         /\ draft.workflow # "import_library" => Menu!Fits(mine, w.library)
         /\ draft.workflow \in Menu!EditWorkflows => w.library = draft.prepared
         /\ draft.workflow \in Menu!ImportWorkflows /\ disturbances = 0 => w.library = draft.prepared
         /\ library # None /\ disturbances = 0 => w.overwrite
<1>1. screen \in Menu!Steps
  BY DEF Menu!Steps
<1>2. draft.workflow \in {"standard", "profile", "members", "import_library", "import_profile", "install"}
  BY <1>1, DraftOf DEF Menu!EditWorkflows, Menu!ImportWorkflows, Menu!Exporting
<1>3. Menu!PreparedFits /\ Menu!IsFiniteLibrary(mine)
  BY <1>1, DraftOf
<1>4. CASE draft.workflow \in {"standard", "profile", "members"}
  <2>1. w = [library |-> draft.prepared, overwrite |-> TRUE]
    BY <1>4, Zenon DEF Menu!Written
  <2>. QED
    BY <1>3, <1>4, <2>1 DEF Menu!PreparedFits, Menu!EditWorkflows, Menu!ImportWorkflows, Menu!Fits
<1>5. CASE draft.workflow = "import_library"
  <2>1. /\ w = [library |-> inbox.content, overwrite |-> draft.overwrite] /\ Menu!Holding("library")
        /\ library = None \/ draft.overwrite
    BY <1>5 DEF Menu!Written
  <2>2. inbox \in Imports /\ inbox.kind = "library"
    BY <2>1 DEF Menu!Holding, Menu!MenuInv
  <2>3. Menu!IsFiniteLibrary(inbox.content)
    BY <2>2, LibrariesAssumption, SameLibraries, FiniteLibraries
  <2>. QED
    BY <1>3, <1>5, <2>1, <2>3 DEF Menu!PreparedFits, Menu!EditWorkflows, Menu!ImportWorkflows
<1>6. CASE draft.workflow = "import_profile"
  <2>1. PICK updated \in Menu!WithProfile(mine, inbox, ~ draft.overwrite) : w = [library |-> updated, overwrite |-> TRUE]
    BY <1>6 DEF Menu!Written
  <2>2. Menu!Fits(mine, updated)
    BY <1>3, <2>1, MenuEdits
  <2>3. ASSUME disturbances = 0 PROVE updated = draft.prepared
    <3>1. draft.prepared \in Menu!WithProfile(mine, inbox, ~ draft.overwrite)
      BY <1>3, <1>6, <2>3 DEF Menu!PreparedFits
    <3>2. \A a, b \in Menu!WithProfile(mine, inbox, ~ draft.overwrite) : a = b
      BY DEF Menu!WithProfile, Menu!add_standards_profile, Menu!replace_standards_profile, Menu!upsert_standards_profile, Menu!Checked
    <3>. QED
      BY <2>1, <3>1, <3>2
  <2>. QED
    BY <1>6, <2>1, <2>2, <2>3 DEF Menu!Fits, Menu!EditWorkflows
<1>7. CASE draft.workflow = "install"
  <2>1. PICK result \in Menu!Installed(mine, draft.prepared, FALSE) : w = [library |-> result.library, overwrite |-> library # None]
    BY <1>7, Zenon DEF Menu!Written
  <2>2. draft.prepared \in MenuPacks
    BY <1>1, <1>7, DraftOf DEF Menu!DraftFits
  <2>3. Menu!Fits(mine, result.library)
    BY <1>3, <2>2, MenuInstalls, Zenon
  <2>. QED
    BY <1>7, <2>1, <2>3, Zenon DEF Menu!Fits, Menu!EditWorkflows, Menu!ImportWorkflows
<1>. QED
  BY <1>2, <1>4, <1>5, <1>6, <1>7

LEMMA CarryOutStep == Menu!MenuInv /\ Menu!CarryOut => Menu!MenuInv'
<1>. SUFFICES ASSUME Menu!MenuInv, Menu!CarryOut PROVE Menu!MenuInv'
  OBVIOUS
<1>1. screen = "carry_out" /\ screen \in Menu!Steps
  BY Zenon DEF Menu!CarryOut, Menu!Steps
<1>2. /\ draft = [workflow |-> draft.workflow, menu |-> draft.menu, prepared |-> draft.prepared, shown |-> draft.shown,
                  agreed |-> draft.agreed, overwrite |-> draft.overwrite, writes |-> draft.writes]
      /\ Menu!DraftFits /\ Menu!PreparedFits /\ draft.agreed /\ Menu!IsFiniteLibrary(mine)
  BY <1>1, DraftOf DEF Menu!DraftFits
<1>3. library' = library /\ mine' = mine /\ inbox' = inbox /\ disturbances' = disturbances /\ MenuFiles
  BY FilesStay, Zenon DEF Menu!CarryOut, Menu!Files, Menu!NoFault
<1>4. CASE Menu!Return
  BY <1>1, <1>2, <1>3, <1>4, ReturnStep
<1>5. CASE Menu!Exporting /\ Menu!Ask("replace_export")
  BY <1>1, <1>2, <1>3, <1>5, AskStep
<1>6. CASE Menu!NothingToInstall /\ Menu!Ask("reload")
  BY <1>1, <1>2, <1>3, <1>6, AskStep DEF Menu!NothingToInstall
<1>7. ASSUME NEW w \in Menu!Written, ~ Menu!Exporting, screen' = "replace_library",
             draft' = [draft EXCEPT !.writes = w.library, !.overwrite = w.overwrite]
      PROVE  Menu!MenuInv'
  <2>1. draft' = [workflow |-> draft.workflow, menu |-> draft.menu, prepared |-> draft.prepared, shown |-> draft.shown,
                  agreed |-> draft.agreed, overwrite |-> w.overwrite, writes |-> w.library]
    BY <1>2, <1>7, Zenon
  <2>2. Menu!DraftFits'
    BY <1>1, <1>2, <1>7, <2>1, Zenon DEF Menu!DraftFits, Menu!Exporting, Menu!EditWorkflows, Menu!ImportWorkflows
  <2>3. /\ draft'.workflow = draft.workflow /\ draft'.prepared = draft.prepared /\ draft'.shown = draft.shown
        /\ draft'.overwrite = w.overwrite /\ draft'.writes = w.library
    BY <2>1
  <2>4. /\ Menu!IsFiniteLibrary(w.library)
        /\ draft.workflow # "import_library" => Menu!Fits(mine, w.library)
        /\ draft.workflow \in Menu!EditWorkflows => w.library = draft.prepared
        /\ draft.workflow \in Menu!ImportWorkflows /\ disturbances = 0 => w.library = draft.prepared
        /\ library # None /\ disturbances = 0 => w.overwrite
    BY <1>1, <1>7, MenuWrites
  <2>5. Menu!PreparedFits'
    <3>1. draft.workflow \in Menu!EditWorkflows => Menu!Fits(mine', draft'.prepared) /\ draft'.shown = draft'.prepared
      BY <1>1, <1>2, <1>3, <2>3 DEF Menu!PreparedFits
    <3>2. draft.workflow \in Menu!ImportWorkflows => Menu!IsFiniteLibrary(draft'.prepared) /\ draft'.shown = draft'.prepared
      BY <1>2, <2>3 DEF Menu!PreparedFits
    <3>3. draft.workflow = "import_library" /\ disturbances = 0 => draft'.prepared = inbox'.content
      BY <1>2, <1>3, <2>3 DEF Menu!PreparedFits
    <3>. QED
      BY <1>3, <1>7, <2>3, <2>4, <3>1, <3>2, <3>3 DEF Menu!PreparedFits
  <2>6. Menu!WrittenFits'
    <3>1. Menu!IsFiniteLibrary(draft'.writes) /\ (draft'.workflow # "import_library" => Menu!Fits(mine', draft'.writes))
      BY <1>3, <2>3, <2>4
    <3>2. (~ Menu!Exporting)'
      BY <1>7, <2>3 DEF Menu!Exporting
    <3>. QED
      BY <1>3, <2>3, <2>4, <3>1, <3>2 DEF Menu!WrittenFits
  <2>7. screen' \in Menu!Steps
    BY <1>7 DEF Menu!Steps
  <2>. QED
    BY <1>1, <2>2, <2>5, <2>6, <2>7, WorkflowStep, Zenon DEF Menu!CarryOut
<1>. QED
  BY <1>4, <1>5, <1>6, <1>7, Zenon DEF Menu!CarryOut

LEMMA ReplaceStep == Menu!MenuInv /\ Menu!Replace => Menu!MenuInv'
<1>. SUFFICES ASSUME Menu!MenuInv, Menu!Replace PROVE Menu!MenuInv'
  OBVIOUS
<1>1. screen = "replace_library" /\ screen \in Menu!Steps
  BY DEF Menu!Replace, Menu!Steps
<1>2. /\ draft.workflow \in Menu!EditWorkflows \cup Menu!ImportWorkflows \cup {"install", "export_library", "export_profile"}
      /\ Menu!DraftFits /\ Menu!PreparedFits /\ Menu!WrittenFits /\ draft.agreed /\ Menu!IsFiniteLibrary(mine)
  BY <1>1, DraftOf DEF Menu!DraftFits
<1>3. Menu!IsFiniteLibrary(draft.writes) /\ ~ Menu!Exporting
  BY <1>1, <1>2 DEF Menu!WrittenFits
<1>4. MenuFiles
  <2>1. library' = draft.writes /\ UNCHANGED <<inbox, disturbances>>
    BY DEF Menu!Replace, Menu!NoFault
  <2>. QED
    BY <1>3, <2>1 DEF MenuFiles, Menu!MenuInv
<1>5. CASE draft.workflow = "install"
  BY <1>1, <1>2, <1>4, <1>5, AskStep DEF Menu!Replace
<1>6. CASE draft.workflow # "install"
  <2>1. draft.workflow \in Menu!EditWorkflows \cup Menu!ImportWorkflows
    BY <1>2, <1>3, <1>6 DEF Menu!Exporting
  <2>2. Menu!IsFiniteLibrary(draft.prepared)
    BY <1>1, <1>2, <2>1 DEF Menu!PreparedFits, Menu!Fits
  <2>3. mine' = draft.prepared /\ Menu!Return
    BY <1>6 DEF Menu!Replace
  <2>. QED
    BY <1>1, <1>4, <2>2, <2>3, ReturnStep
<1>. QED
  BY <1>5, <1>6

LEMMA LoadedCopy == Menu!MenuInv => Menu!IsFiniteLibrary(Menu!Library)
<1>1. Menu!IsLibrary(Menu!EmptyLibrary)
  BY DEF Menu!IsLibrary, Menu!IsTable, Menu!ValidLibrary, Menu!EmptyLibrary
<1>2. IsFiniteSet(DOMAIN Menu!EmptyLibrary.profiles)
  <2>1. DOMAIN Menu!EmptyLibrary.profiles = {}
    BY DEF Menu!EmptyLibrary
  <2>. QED
    BY <2>1, FS_EmptySet
<1>. QED
  BY <1>1, <1>2, FiniteLibraries DEF Menu!MenuInv, Menu!Library

LEMMA WorkflowEnds ==
  ASSUME Menu!MenuInv, Menu!ReplaceExport \/ Menu!Reload \/ Menu!FailsToReplace
  PROVE  Menu!MenuInv'
<1>1. screen \in Menu!Steps
  BY DEF Menu!ReplaceExport, Menu!Reload, Menu!FailsToReplace, Menu!Steps
<1>2. Menu!IsFiniteLibrary(mine)
  BY <1>1, DraftOf
<1>3. MenuFiles
  BY FilesStay DEF Menu!ReplaceExport, Menu!Reload, Menu!FailsToReplace, Menu!Files, Menu!NoFault
<1>4. CASE Menu!ReplaceExport
  BY <1>1, <1>2, <1>3, <1>4, ReturnStep DEF Menu!ReplaceExport
<1>5. CASE Menu!Reload
  BY <1>1, <1>3, <1>5, LoadedCopy, ReturnStep DEF Menu!Reload
<1>6. CASE Menu!FailsToReplace
  BY <1>1, <1>2, <1>3, <1>6, ReturnStep, ToMenu DEF Menu!FailsToReplace
<1>. QED
  BY <1>4, <1>5, <1>6

LEMMA BetweenWorkflows ==
  ASSUME Menu!MenuInv, Menu!OpenSession \/ Menu!ChooseMenu \/ Menu!Back
  PROVE  Menu!MenuInv'
<1>1. MenuFiles
  BY FilesStay DEF Menu!OpenSession, Menu!ChooseMenu, Menu!Back, Menu!Files, Menu!NoFault
<1>2. CASE Menu!OpenSession
  BY <1>1, <1>2, LoadedCopy, ToMenu DEF Menu!OpenSession, Menu!Menus
<1>3. CASE Menu!ChooseMenu
  <2>1. screen # "closed" /\ screen' \in Menu!Menus /\ mine' = mine
    BY <1>3 DEF Menu!ChooseMenu, Menu!Menus, Menu!Within
  <2>. QED
    BY <1>1, <2>1, ToMenu DEF Menu!MenuInv
<1>4. CASE Menu!Back
  <2>1. screen # "closed"
    BY <1>4 DEF Menu!Back, Menu!Menus
  <2>2. screen' = "closed" \/ (screen' \in Menu!Menus /\ mine' = mine)
    BY <1>4 DEF Menu!Back
  <2>. QED
    BY <1>1, <2>1, <2>2, ToMenu DEF Menu!MenuInv
<1>. QED
  BY <1>2, <1>3, <1>4

(* What others do leaves the session as it is, and is a disturbance. *)
LEMMA OthersDisturb ==
  ASSUME Menu!MenuInv, Menu!CommandWrites \/ Menu!FilesChange
  PROVE  Menu!MenuInv'
<1>1. /\ disturbances \in Nat /\ disturbances' = disturbances + 1 /\ mine' = mine /\ screen' = screen /\ draft' = draft
      /\ inbox' \in Imports \cup {None}
  BY DEF Menu!CommandWrites, Menu!FilesChange, Menu!Fault, Menu!MenuInv
<1>2. library' # None => Menu!IsFiniteLibrary(library')
  <2>1. CASE Menu!CommandWrites
    <3>1. library' \in CommandsMake(Menu!Library)
      BY <2>1 DEF Menu!CommandWrites
    <3>. QED
      BY <3>1, LoadedCopy, CommandsMakeLibraries
  <2>2. CASE Menu!FilesChange
    BY <2>2 DEF Menu!FilesChange, Menu!MenuInv
  <2>. QED
    BY <2>1, <2>2
<1>3. CASE screen \notin Menu!Steps
  <2>1. MenuFiles
    BY <1>1, <1>2 DEF MenuFiles
  <2>. QED
    BY <1>1, <1>3, <2>1, ToMenu DEF Menu!MenuInv
<1>4. CASE screen \in Menu!Steps
  <2>1. Menu!DraftFits /\ Menu!PreparedFits /\ Menu!WrittenFits /\ Menu!IsFiniteLibrary(mine)
    BY <1>4, DraftOf
  <2>2. Menu!DraftFits'
    BY <1>1, <2>1 DEF Menu!DraftFits, Menu!Exporting
  <2>3. disturbances' # 0
    BY <1>1
  <2>4. Menu!PreparedFits'
    BY <1>1, <2>1, <2>3 DEF Menu!PreparedFits
  <2>5. Menu!WrittenFits'
    BY <1>1, <2>1, <2>3 DEF Menu!WrittenFits, Menu!Exporting
  <2>. QED
    BY <1>1, <1>2, <1>4, <2>1, <2>2, <2>4, <2>5 DEF Menu!MenuInv
<1>. QED
  BY <1>3, <1>4

LEMMA MenuInit == Menu!Init => Menu!MenuInv
BY DEF Menu!Init, Menu!MenuInv, Menu!Steps, Menu!Menus

LEMMA MenuStep == Menu!MenuInv /\ Menu!Next => Menu!MenuInv'
<1>. SUFFICES ASSUME Menu!MenuInv, Menu!Next PROVE Menu!MenuInv'
  OBVIOUS
<1>1. CASE Menu!OpenSession \/ Menu!ChooseMenu \/ Menu!Back
  BY <1>1, BetweenWorkflows
<1>2. CASE Menu!ReviewStandard \/ Menu!Confirm \/ Menu!Cancel \/ Menu!CarryOut \/ Menu!Replace
  BY <1>2, ReviewStep, ConfirmStep, CancelStep, CarryOutStep, ReplaceStep
<1>3. CASE Menu!ReplaceExport \/ Menu!Reload \/ Menu!FailsToReplace
  BY <1>3, WorkflowEnds
<1>4. CASE Menu!CommandWrites \/ Menu!FilesChange
  BY <1>4, OthersDisturb
<1>5. CASE \E parent \in MenuStandardIds : \E id \in SubpartsOf(parent) : Menu!AddSubpart(id)
  BY <1>5, SubpartStep
<1>6. CASE \E id \in MenuStandardIds : Menu!AddStandard(id)
  BY <1>6, MenuPrepares
<1>7. CASE \E p \in ProfileIds, ids \in SUBSET DOMAIN mine.standards : Menu!CreateProfile(p, ids) \/ Menu!EditProfile(p, ids)
  BY <1>7, MenuPrepares
<1>8. CASE \/ Menu!ImportLibrary \/ \E adding \in BOOLEAN : Menu!ImportProfile(adding)
           \/ \E workflow \in {"export_library", "export_profile"} : Menu!Export(workflow)
           \/ \E pack \in MenuPacks : Menu!InstallPack(pack)
  BY <1>8, MenuPrepares
<1>. QED
  BY <1>1, <1>2, <1>3, <1>4, <1>5, <1>6, <1>7, <1>8 DEF Menu!Next

LEMMA MenuCardinality == \A S : Menu!Cardinality(S) = Cardinality(S)
BY Zenon DEF Menu!Cardinality, Cardinality

(* Fitting edits change one profile at most, also when counted. *)
LEMMA FittingEdits ==
  ASSUME NEW l, Menu!IsFiniteLibrary(l), NEW edited, Menu!Fits(l, edited)
  PROVE  Cardinality(DOMAIN l.profiles) - Cardinality(Menu!Kept(l.profiles, edited.profiles)) \leq 1
<1>. DEFINE there == DOMAIN l.profiles
            kept == Menu!Kept(l.profiles, edited.profiles)
<1>1. IsFiniteSet(there) /\ kept \subseteq there /\ \A p, q \in there \ kept : p = q
  BY FiniteLibraries DEF Menu!Fits, Menu!Kept
<1>. HIDE DEF there, kept
<1>2. there \cap kept = kept /\ IsFiniteSet(kept)
  BY <1>1, FS_Subset
<1>3. Cardinality(there \ kept) = Cardinality(there) - Cardinality(kept)
  <2>1. Cardinality(there \ kept) = Cardinality(there) - Cardinality(there \cap kept)
    BY <1>1, FS_Difference, Zenon
  <2>. QED
    BY <1>2, <2>1
<1>4. Cardinality(there \ kept) \in {0, 1}
  <2>1. CASE there \ kept = {}
    BY <2>1, FS_EmptySet
  <2>2. CASE there \ kept # {}
    <3>1. PICK p : p \in there \ kept
      BY <2>2
    <3>2. there \ kept = {p}
      BY <1>1, <3>1
    <3>. QED
      BY <3>2, FS_Singleton, Zenon
  <2>. QED
    BY <2>1, <2>2
<1>5. Cardinality(there) \in Nat /\ Cardinality(kept) \in Nat
  BY <1>1, <1>2, FS_CardinalityType
<1>. QED
  BY <1>3, <1>4, <1>5 DEF there, kept

LEMMA MenuReplaces ==
  ASSUME Menu!MenuInv, Menu!Replace
  PROVE  Menu!ReplacesWhatWasAgreed /\ Menu!GoesOnWithTheLibrary
<1>1. screen = "replace_library" /\ screen \in Menu!Steps /\ library' = draft.writes /\ disturbances \in Nat
  BY DEF Menu!Replace, Menu!Steps, Menu!MenuInv
<1>2. /\ draft.workflow \in Menu!EditWorkflows \cup Menu!ImportWorkflows \cup {"install"}
      /\ Menu!DraftFits /\ Menu!PreparedFits /\ draft.agreed /\ Menu!IsFiniteLibrary(mine)
  BY <1>1, DraftOf DEF Menu!DraftFits, Menu!WrittenFits, Menu!Exporting
<1>3. /\ Menu!IsFiniteLibrary(draft.writes)
      /\ draft.workflow # "import_library" => Menu!Fits(mine, draft.writes)
      /\ draft.workflow \in Menu!EditWorkflows => draft.writes = draft.prepared
      /\ draft.workflow \in Menu!ImportWorkflows /\ disturbances = 0 => draft.writes = draft.prepared
      /\ library # None /\ disturbances = 0 => draft.overwrite
  BY <1>1, DraftOf DEF Menu!WrittenFits
<1>4. draft.workflow \in Menu!EditWorkflows \cup Menu!ImportWorkflows => draft.shown = draft.prepared
  BY <1>1, <1>2 DEF Menu!PreparedFits
<1>5. draft.workflow = "install" => draft.shown = None
  BY <1>2 DEF Menu!DraftFits
<1>6. Menu!ReplacesWhatWasAgreed
  <2>1. Menu!ValidLibrary(library')
    BY <1>1, <1>3 DEF Menu!IsFiniteLibrary, Menu!IsLibrary
  <2>2. draft.shown # None /\ library' # draft.shown => draft.workflow \in Menu!ImportWorkflows /\ disturbances > 0
    BY <1>1, <1>2, <1>3, <1>4, <1>5
  <2>3. library # None /\ ~ draft.overwrite => disturbances > 0
    BY <1>1, <1>3
  <2>4. ASSUME mine = Menu!Library, draft.workflow # "import_library"
        PROVE  /\ Menu!Holds(library', [Menu!Library EXCEPT !.profiles = << >>])
               /\ DOMAIN Menu!Library.profiles \subseteq DOMAIN library'.profiles
               /\ Menu!Cardinality(DOMAIN Menu!Library.profiles) - Menu!Cardinality(Menu!Kept(Menu!Library.profiles, library'.profiles)) \leq 1
    <3>1. Menu!Fits(Menu!Library, library') /\ Menu!IsFiniteLibrary(Menu!Library)
      BY <1>1, <1>2, <1>3, <2>4
    <3>2. PICK l, edited : l = Menu!Library /\ edited = library'
      OBVIOUS
    <3>3. Menu!Fits(l, edited) /\ Menu!IsFiniteLibrary(l)
      BY <3>1, <3>2
    <3>4. /\ Menu!Holds(edited, [l EXCEPT !.profiles = << >>])
          /\ DOMAIN l.profiles \subseteq DOMAIN edited.profiles
          /\ Menu!Cardinality(DOMAIN l.profiles) - Menu!Cardinality(Menu!Kept(l.profiles, edited.profiles)) \leq 1
      BY <3>3, FittingEdits, MenuCardinality DEF Menu!Fits
    <3>. QED
      BY <3>2, <3>4
  <2>. QED
    BY <1>2, <2>1, <2>2, <2>3, <2>4 DEF Menu!ReplacesWhatWasAgreed, Menu!ImportWorkflows
<1>7. Menu!GoesOnWithTheLibrary
  <2>1. CASE draft.workflow = "install"
    <3>1. screen' = "reload"
      BY <2>1 DEF Menu!Replace, Menu!Ask
    <3>. QED
      BY <3>1 DEF Menu!GoesOnWithTheLibrary, Menu!Menus
  <2>2. CASE draft.workflow # "install"
    <3>1. mine' = draft.prepared
      BY <2>2 DEF Menu!Replace
    <3>2. mine' = library' \/ (draft.workflow \in Menu!ImportWorkflows /\ disturbances > 0)
      BY <1>1, <1>2, <1>3, <2>2, <3>1
    <3>. QED
      BY <3>2 DEF Menu!GoesOnWithTheLibrary, Menu!ImportWorkflows
  <2>. QED
    BY <2>1, <2>2
<1>. QED
  BY <1>6, <1>7

(* Every other action leaves the library or the screen as it was, and ends a workflow as the property says. *)
LEMMA MenuActions == Menu!MenuInv /\ Menu!Next => Menu!ReplacesWhatWasAgreed /\ Menu!GoesOnWithTheLibrary
<1>. SUFFICES ASSUME Menu!MenuInv, Menu!Next PROVE Menu!ReplacesWhatWasAgreed /\ Menu!GoesOnWithTheLibrary
  OBVIOUS
<1>1. CASE Menu!Replace
  BY <1>1, MenuReplaces
<1>2. CASE Menu!CommandWrites \/ Menu!FilesChange
  BY <1>2 DEF Menu!CommandWrites, Menu!FilesChange, Menu!ReplacesWhatWasAgreed, Menu!GoesOnWithTheLibrary
<1>3. CASE Menu!Reload
  <2>1. library' = library /\ mine' = Menu!Library /\ Menu!Library' = Menu!Library
    BY <1>3 DEF Menu!Reload, Menu!Files, Menu!Library
  <2>. QED
    BY <2>1 DEF Menu!ReplacesWhatWasAgreed, Menu!GoesOnWithTheLibrary
<1>4. ASSUME library' = library, mine' = mine \/ screen \in Menu!Menus \cup {"closed"} \/ screen' \notin Menu!Menus
      PROVE  Menu!ReplacesWhatWasAgreed /\ Menu!GoesOnWithTheLibrary
  BY <1>4 DEF Menu!ReplacesWhatWasAgreed, Menu!GoesOnWithTheLibrary
<1>5. CASE Menu!OpenSession \/ Menu!ChooseMenu \/ Menu!Back \/ Menu!ReviewStandard \/ Menu!Confirm \/ Menu!Cancel \/ Menu!CarryOut
  BY <1>4, <1>5, Zenon DEF Menu!OpenSession, Menu!ChooseMenu, Menu!Back, Menu!ReviewStandard, Menu!Confirm, Menu!Cancel, Menu!CarryOut, Menu!Files
<1>6. CASE Menu!ReplaceExport \/ Menu!FailsToReplace
  BY <1>4, <1>6 DEF Menu!ReplaceExport, Menu!FailsToReplace, Menu!Files, Menu!Menus
<1>7. CASE \E parent \in MenuStandardIds : \E id \in SubpartsOf(parent) : Menu!AddSubpart(id)
  BY <1>4, <1>7 DEF Menu!AddSubpart, Menu!Files
<1>8. CASE screen \in Menu!Menus /\
        (\/ \E id \in MenuStandardIds : Menu!AddStandard(id)
         \/ \E p \in ProfileIds, ids \in SUBSET DOMAIN mine.standards : Menu!CreateProfile(p, ids) \/ Menu!EditProfile(p, ids)
         \/ Menu!ImportLibrary \/ \E adding \in BOOLEAN : Menu!ImportProfile(adding)
         \/ \E workflow \in {"export_library", "export_profile"} : Menu!Export(workflow)
         \/ \E pack \in MenuPacks : Menu!InstallPack(pack))
  BY <1>4, <1>8, Zenon DEF Menu!AddStandard, Menu!CreateProfile, Menu!EditProfile, Menu!Review, Menu!ImportLibrary, Menu!ImportProfile,
        Menu!Export, Menu!InstallPack, Menu!Prepare, Menu!Files
<1>. QED
  BY <1>1, <1>2, <1>3, <1>5, <1>6, <1>7, <1>8 DEF Menu!Next

-----------------------------------------------------------------------------
(* The usage ledger. *)

LEMMA LedgerInit == Ledger!Init => Ledger!LedgerInv
<1>. SUFFICES ASSUME Ledger!Init PROVE Ledger!LedgerInv
  OBVIOUS
<1>1. Ledger!AcknowledgedEventsStay
  BY DEF Ledger!Init, Ledger!AcknowledgedEventsStay
<1>. QED
  BY <1>1 DEF Ledger!Init, Ledger!LedgerInv

(* What stands alone in a line that is whole is read. *)
LEMMA StandingIsRead ==
  ASSUME (\A event \in acknowledged : Ledger!Standing(event))', lines' \in Seq(Seq(Ledger!Piece)) \cup {None}
  PROVE  Ledger!AcknowledgedEventsStay'
<1>1. ASSUME NEW event \in acknowledged' PROVE event \in Ledger!StoredEvents'
  <2>1. Ledger!Standing(event)'
    BY <1>1
  <2>2. PICK i \in DOMAIN Ledger!Lines' : Ledger!Lines'[i] = <<Ledger!Whole(event)>>
    BY <2>1 DEF Ledger!Standing
  <2>3. Ledger!Lines' = lines'
    BY <2>2 DEF Ledger!Lines
  <2>4. Len(lines'[i]) = 1 /\ ~ lines'[i][1].torn /\ lines'[i][1].event = event
    BY <2>2, <2>3 DEF Ledger!Whole
  <2>. QED
    BY <2>2, <2>3, <2>4 DEF Ledger!StoredEvents
<1>. QED
  BY <1>1 DEF Ledger!AcknowledgedEventsStay

(* Bytes at the end of the file spoil no line that is whole. *)
LEMMA LedgerGrows ==
  ASSUME Ledger!LedgerInv, NEW w \in Writers, opened[w], NEW piece \in Ledger!Piece, lines' = Ledger!Extended(w, piece)
  PROVE  /\ lines' \in Seq(Seq(Ledger!Piece)) /\ lines' # << >> /\ Ledger!Lines' = lines'
         /\ \A event \in Events : Ledger!Standing(event) => Ledger!Standing(event)'
         /\ terminated \/ separator[w] => lines'[Len(lines')] = <<piece>>
<1>1. lines \in Seq(Seq(Ledger!Piece)) /\ lines # None /\ Ledger!Lines = lines
  BY DEF Ledger!LedgerInv, Ledger!Lines
<1>2. CASE terminated \/ separator[w]
  <2>1. lines' = Append(lines, <<piece>>) /\ <<piece>> \in Seq(Ledger!Piece)
    BY <1>2 DEF Ledger!Extended
  <2>2. /\ lines' \in Seq(Seq(Ledger!Piece)) /\ Len(lines') = Len(lines) + 1 /\ lines'[Len(lines) + 1] = <<piece>>
        /\ \A i \in 1 .. Len(lines) : lines'[i] = lines[i]
    BY <1>1, <2>1, AppendProperties
  <2>3. Ledger!Lines' = lines' /\ lines' # << >> /\ Len(lines) \in Nat /\ DOMAIN lines = 1 .. Len(lines) /\ DOMAIN lines' = 1 .. Len(lines')
    BY <1>1, <2>2, WorkspaceFilesAssumption DEF Ledger!Lines, Ledger!Piece
  <2>4. ASSUME NEW event \in Events, Ledger!Standing(event) PROVE Ledger!Standing(event)'
    <3>1. PICK i \in 1 .. Len(lines) : lines[i] = <<Ledger!Whole(event)>>
      BY <1>1, <2>3, <2>4 DEF Ledger!Standing
    <3>2. i \in DOMAIN lines' /\ i # Len(lines') /\ lines'[i] = <<Ledger!Whole(event)>>
      BY <2>2, <2>3, <3>1
    <3>. QED
      BY <2>3, <3>2, Zenon DEF Ledger!Standing, Ledger!Whole
  <2>. QED
    BY <2>2, <2>3, <2>4
<1>3. CASE ~ (terminated \/ separator[w])
  <2>1. lines' = [lines EXCEPT ![Len(lines)] = Append(@, piece)]
    BY <1>3 DEF Ledger!Extended
  <2>2. Len(lines) \in Nat /\ Len(lines) # 0 /\ DOMAIN lines = 1 .. Len(lines)
    BY <1>1, <1>3, EmptySeq DEF Ledger!LedgerInv
  <2>3. Append(lines[Len(lines)], piece) \in Seq(Ledger!Piece)
    BY <1>1, <2>2, AppendProperties, ElementOfSeq
  <2>4. /\ lines' \in Seq(Seq(Ledger!Piece)) /\ Len(lines') = Len(lines)
        /\ \A i \in 1 .. Len(lines) : i # Len(lines) => lines'[i] = lines[i]
    <3>0. Len(lines) \in 1 .. Len(lines)
      BY <2>2
    <3>1. PICK last \in 1 .. Len(lines) : last = Len(lines)
      BY <3>0, Zenon
    <3>2. PICK longer \in Seq(Ledger!Piece) : longer = Append(lines[Len(lines)], piece)
      BY <2>3, Zenon
    <3>3. lines' = [lines EXCEPT ![last] = longer]
      BY <2>1, <3>1, <3>2
    <3>4. /\ [lines EXCEPT ![last] = longer] \in Seq(Seq(Ledger!Piece))
          /\ Len([lines EXCEPT ![last] = longer]) = Len(lines)
          /\ \A i \in 1 .. Len(lines) : [lines EXCEPT ![last] = longer][i] = IF i = last THEN longer ELSE lines[i]
      BY <1>1, ExceptSeq
    <3>. QED
      BY <3>1, <3>3, <3>4
  <2>5. Ledger!Lines' = lines' /\ lines' # << >> /\ DOMAIN lines' = 1 .. Len(lines')
    <3>1. lines' # << >>
      BY <2>2, <2>4, EmptySeq, Zenon
    <3>2. lines' # None
      BY <2>4, WorkspaceFilesAssumption DEF Ledger!Piece
    <3>3. DOMAIN lines' = 1 .. Len(lines')
      BY <2>4, LenProperties
    <3>. QED
      BY <3>1, <3>2, <3>3 DEF Ledger!Lines
  <2>6. ASSUME NEW event \in Events, Ledger!Standing(event) PROVE Ledger!Standing(event)'
    <3>1. PICK i \in 1 .. Len(lines) : lines[i] = <<Ledger!Whole(event)>> /\ i # Len(lines)
      BY <1>1, <1>3, <2>2, <2>6, Zenon DEF Ledger!Standing
    <3>2. i \in DOMAIN lines' /\ i # Len(lines') /\ lines'[i] = <<Ledger!Whole(event)>>
      BY <2>4, <2>5, <3>1, Zenon
    <3>. QED
      BY <2>5, <3>2, Zenon DEF Ledger!Standing, Ledger!Whole
  <2>. QED
    BY <1>3, <2>4, <2>5, <2>6, Zenon
<1>. QED
  BY <1>2, <1>3

LEMMA LedgerStep == Ledger!LedgerInv /\ Ledger!Next => Ledger!LedgerInv'
<1>. SUFFICES ASSUME Ledger!LedgerInv, Ledger!Next PROVE Ledger!LedgerInv'
  OBVIOUS
<1>. PICK w \in Writers :
       \/ \E event \in Events : Ledger!Open(w, event)
       \/ Ledger!WriteLine(w) \/ Ledger!WriteBreaks(w)
       \/ \E events \in Rewrites, overwriting \in BOOLEAN : Ledger!Rewrite(w, events, overwriting)
  BY DEF Ledger!Next
<1>0. /\ lines \in Seq(Seq(Ledger!Piece)) \cup {None} /\ terminated \in BOOLEAN
      /\ Ledger!Lines \in Seq(Seq(Ledger!Piece)) /\ Ledger!Lines # None
      /\ None \notin Seq(Seq(Ledger!Piece)) /\ << >> \in Seq(Seq(Ledger!Piece))
  BY EmptySeq, WorkspaceFilesAssumption, Zenon DEF Ledger!LedgerInv, Ledger!Lines, Ledger!Piece
(* What holds of the processes follows from what holds of each. *)
<1>1. ASSUME lines' \in Seq(Seq(Ledger!Piece)) \cup {None}, terminated' \in BOOLEAN,
             pc' \in [Writers -> {"idle", "append"}], appending' \in [Writers -> Events \cup {None}],
             separator' \in [Writers -> BOOLEAN], opened' \in [Writers -> BOOLEAN],
             ~ terminated' => Ledger!Lines' # << >>,
             \A v \in Writers :
               /\ pc'[v] = "append" => appending'[v] \in Events
               /\ opened'[v] => lines' # None /\ pc'[v] = "append"
               /\ pc'[v] = "append" /\ v \notin raced' => opened'[v] /\ (separator'[v] \/ terminated'),
             \A event \in acknowledged' : event \in Events /\ Ledger!Standing(event)'
      PROVE  Ledger!LedgerInv'
  BY <1>1, StandingIsRead DEF Ledger!LedgerInv
<1>2. ASSUME NEW event \in Events, Ledger!Open(w, event) PROVE Ledger!LedgerInv'
  <2>1. /\ lines' = Ledger!Lines /\ Ledger!Lines' = Ledger!Lines /\ UNCHANGED <<terminated, acknowledged>>
    BY <1>0, <1>2 DEF Ledger!Open, Ledger!Lines
  <2>2. /\ pc' \in [Writers -> {"idle", "append"}] /\ appending' \in [Writers -> Events \cup {None}]
        /\ separator' \in [Writers -> BOOLEAN] /\ opened' \in [Writers -> BOOLEAN]
        /\ pc'[w] = "append" /\ appending'[w] = event /\ opened'[w] /\ separator'[w] = ~ terminated
        /\ \A v \in Writers \ {w} : /\ pc'[v] = pc[v] /\ appending'[v] = appending[v]
                                    /\ opened'[v] = opened[v] /\ separator'[v] = separator[v] /\ (v \in raced => v \in raced')
    BY <1>0, <1>2 DEF Ledger!Open, Ledger!Goto, Ledger!LedgerInv
  <2>3. \A v \in Writers :
               /\ pc'[v] = "append" => appending'[v] \in Events
               /\ opened'[v] => lines' # None /\ pc'[v] = "append"
               /\ pc'[v] = "append" /\ v \notin raced' => opened'[v] /\ (separator'[v] \/ terminated')
    BY <1>0, <2>1, <2>2, Zenon DEF Ledger!LedgerInv
  <2>4. \A e \in acknowledged' : e \in Events /\ Ledger!Standing(e)'
    BY <2>1 DEF Ledger!LedgerInv, Ledger!Standing, Ledger!Whole
  <2>5. ~ terminated' => Ledger!Lines' # << >>
    BY <2>1 DEF Ledger!LedgerInv
  <2>. QED
    BY <1>0, <1>1, <2>1, <2>2, <2>3, <2>4, <2>5
(* A process leaves, with a newline at the end or with others warned. *)
<1>3. ASSUME Ledger!Close(w), lines' \in Seq(Seq(Ledger!Piece)) \cup {None}, terminated' \in BOOLEAN,
             lines = lines' \/ lines' # None, (lines # lines' \/ terminated # terminated') /\ ~ terminated' => Ledger!Lines' # << >>,
             \A v \in Writers \ {w} : v \in raced => v \in raced',
             \A v \in Writers \ {w} : opened[v] => terminated' \/ v \in raced' \/ terminated' = terminated,
             \A event \in acknowledged' : event \in Events /\ Ledger!Standing(event)'
      PROVE  Ledger!LedgerInv'
  <2>1. /\ pc' \in [Writers -> {"idle", "append"}] /\ appending' \in [Writers -> Events \cup {None}]
        /\ separator' \in [Writers -> BOOLEAN] /\ opened' \in [Writers -> BOOLEAN]
        /\ pc'[w] = "idle" /\ ~ opened'[w]
        /\ \A v \in Writers \ {w} : /\ pc'[v] = pc[v] /\ appending'[v] = appending[v]
                                    /\ opened'[v] = opened[v] /\ separator'[v] = separator[v]
    BY <1>3 DEF Ledger!Close, Ledger!Goto, Ledger!LedgerInv
  <2>2. \A v \in Writers :
               /\ pc'[v] = "append" => appending'[v] \in Events
               /\ opened'[v] => lines' # None /\ pc'[v] = "append"
               /\ pc'[v] = "append" /\ v \notin raced' => opened'[v] /\ (separator'[v] \/ terminated')
    BY <1>3, <2>1 DEF Ledger!LedgerInv
  <2>3. ~ terminated' => Ledger!Lines' # << >>
    BY <1>3 DEF Ledger!LedgerInv, Ledger!Lines
  <2>. QED
    BY <1>1, <1>3, <2>1, <2>2, <2>3
<1>4. CASE Ledger!WriteLine(w)
  <2>0. appending[w] \in Events
    BY <1>4 DEF Ledger!WriteLine, Ledger!LedgerInv
  <2>1. PICK event \in Events : event = appending[w] /\ Ledger!Whole(event) \in Ledger!Piece
    BY <2>0 DEF Ledger!Whole, Ledger!Piece
  <2>2. CASE opened[w]
    <3>1. /\ lines' \in Seq(Seq(Ledger!Piece)) /\ lines' # << >> /\ Ledger!Lines' = lines' /\ terminated' = TRUE
          /\ \A e \in Events : Ledger!Standing(e) => Ledger!Standing(e)'
          /\ terminated \/ separator[w] => lines'[Len(lines')] = <<Ledger!Whole(event)>>
      BY <1>4, <2>1, <2>2, LedgerGrows DEF Ledger!WriteLine
    <3>2. w \notin raced => Ledger!Standing(event)'
      <4>1. SUFFICES ASSUME w \notin raced PROVE Ledger!Standing(event)'
        OBVIOUS
      <4>2. lines'[Len(lines')] = <<Ledger!Whole(event)>>
        BY <1>4, <3>1, <4>1 DEF Ledger!LedgerInv, Ledger!WriteLine
      <4>3. Len(lines') \in DOMAIN lines'
        BY <3>1, EmptySeq
      <4>. QED
        BY <3>1, <4>2, <4>3 DEF Ledger!Standing, Ledger!Whole
    <3>3. \A e \in acknowledged' : e \in Events /\ Ledger!Standing(e)'
      <4>1. ASSUME NEW e \in acknowledged' PROVE e \in acknowledged \/ (e = event /\ w \notin raced)
        BY <1>4, <2>1, <4>1 DEF Ledger!WriteLine
      <4>2. ASSUME NEW e \in acknowledged PROVE e \in Events /\ Ledger!Standing(e)
        BY DEF Ledger!LedgerInv
      <4>. QED
        BY <3>1, <3>2, <4>1, <4>2
    <3>. QED
      BY <1>0, <1>3, <1>4, <3>1, <3>3 DEF Ledger!WriteLine
  <2>3. CASE ~ opened[w]
    <3>1. w \in raced /\ UNCHANGED <<lines, terminated, acknowledged>>
      BY <1>4, <2>3 DEF Ledger!WriteLine, Ledger!LedgerInv
    <3>2. \A e \in acknowledged' : e \in Events /\ Ledger!Standing(e)'
      BY <3>1, Zenon DEF Ledger!LedgerInv, Ledger!Standing, Ledger!Lines, Ledger!Whole
    <3>. QED
      BY <1>0, <1>3, <1>4, <3>1, <3>2 DEF Ledger!WriteLine
  <2>. QED
    BY <2>2, <2>3
<1>5. CASE Ledger!WriteBreaks(w)
  <2>0. appending[w] \in Events
    BY <1>5 DEF Ledger!WriteBreaks, Ledger!LedgerInv
  <2>1. PICK event \in Events : event = appending[w] /\ {Ledger!Whole(event), Ledger!Torn(event)} \subseteq Ledger!Piece
    BY <2>0 DEF Ledger!Whole, Ledger!Torn, Ledger!Piece
  <2>2. /\ Ledger!Close(w) /\ UNCHANGED acknowledged
        /\ \A v \in Writers \ {w} : (v \in raced => v \in raced') /\ (opened[v] => v \in raced')
    BY <1>5 DEF Ledger!WriteBreaks, Ledger!OthersOpen
  <2>3. ASSUME NEW e \in acknowledged' PROVE e \in Events /\ Ledger!Standing(e)
    BY <2>2 DEF Ledger!LedgerInv
  <2>4. CASE UNCHANGED <<lines, terminated>>
    <3>1. \A e \in acknowledged' : e \in Events /\ Ledger!Standing(e)'
      BY <2>3, <2>4, Zenon DEF Ledger!Standing, Ledger!Lines, Ledger!Whole
    <3>. QED
      BY <1>0, <1>3, <2>2, <2>4, <3>1
  <2>5. CASE opened[w] /\ (\E piece \in {Ledger!Torn(event), Ledger!Whole(event)} : lines' = Ledger!Extended(w, piece)) /\ terminated' = FALSE
    <3>1. /\ lines' \in Seq(Seq(Ledger!Piece)) /\ lines' # << >> /\ Ledger!Lines' = lines'
          /\ \A e \in Events : Ledger!Standing(e) => Ledger!Standing(e)'
      BY <2>1, <2>5, LedgerGrows
    <3>. QED
      BY <1>0, <1>3, <2>2, <2>3, <2>5, <3>1, Zenon
  <2>6. CASE opened[w] /\ separator[w] /\ UNCHANGED lines /\ terminated' = TRUE
    <3>1. \A e \in acknowledged' : e \in Events /\ Ledger!Standing(e)'
      BY <2>3, <2>6, Zenon DEF Ledger!Standing, Ledger!Lines, Ledger!Whole
    <3>. QED
      BY <1>0, <1>3, <2>2, <2>6, <3>1
  <2>. QED
    BY <1>5, <2>1, <2>4, <2>5, <2>6, Zenon DEF Ledger!WriteBreaks
<1>6. ASSUME NEW events \in Rewrites, NEW overwriting \in BOOLEAN, Ledger!Rewrite(w, events, overwriting)
      PROVE  Ledger!LedgerInv'
  <2>1. events \in Seq(Events) /\ Len(events) \in Nat /\ DOMAIN events = 1 .. Len(events)
        /\ \A i \in DOMAIN events : events[i] \in Events
    <3>1. events \in Seq(Events)
      BY WorkspaceFilesAssumption
    <3>. QED
      BY <3>1, LenProperties, ElementOfSeq
  <2>2. /\ lines' = [i \in 1 .. Len(events) |-> <<Ledger!Whole(events[i])>>] /\ terminated' = TRUE
        /\ acknowledged' = {events[i] : i \in 1 .. Len(events)}
        /\ opened' = [v \in Writers |-> FALSE] /\ UNCHANGED <<pc, appending, separator>>
    BY <1>6, <2>1 DEF Ledger!Rewrite
  <2>3. \A i \in 1 .. Len(events) : <<Ledger!Whole(events[i])>> \in Seq(Ledger!Piece)
    <3>1. \A i \in 1 .. Len(events) : Ledger!Whole(events[i]) \in Ledger!Piece
      BY <2>1 DEF Ledger!Whole, Ledger!Piece
    <3>. QED
      BY <3>1
  <2>4. lines' \in Seq(Seq(Ledger!Piece)) /\ Ledger!Lines' = lines' /\ lines' # None /\ DOMAIN lines' = 1 .. Len(events)
    <3>1. lines' \in [1 .. Len(events) -> Seq(Ledger!Piece)]
      BY <2>2, <2>3
    <3>2. lines' \in Seq(Seq(Ledger!Piece))
      BY <2>1, <3>1, IsASeq
    <3>. QED
      BY <1>0, <2>2, <3>2, Zenon DEF Ledger!Lines
  <2>5. \A e \in acknowledged' : e \in Events /\ Ledger!Standing(e)'
    BY <2>1, <2>2, <2>4, Zenon DEF Ledger!Standing, Ledger!Whole
  <2>6. \A v \in Writers : pc'[v] = "append" => appending'[v] \in Events /\ v \in raced' /\ ~ opened'[v]
    <3>1. ASSUME NEW v \in Writers, pc[v] = "append" PROVE v \in raced'
      BY <1>6, <3>1 DEF Ledger!Rewrite, Ledger!OthersOpen, Ledger!LedgerInv
    <3>. QED
      BY <2>2, <3>1 DEF Ledger!LedgerInv
  <2>7. /\ pc' \in [Writers -> {"idle", "append"}] /\ appending' \in [Writers -> Events \cup {None}]
        /\ separator' \in [Writers -> BOOLEAN] /\ opened' \in [Writers -> BOOLEAN]
    BY <2>2 DEF Ledger!LedgerInv
  <2>8. \A v \in Writers :
               /\ pc'[v] = "append" => appending'[v] \in Events
               /\ opened'[v] => lines' # None /\ pc'[v] = "append"
               /\ pc'[v] = "append" /\ v \notin raced' => opened'[v] /\ (separator'[v] \/ terminated')
    BY <2>2, <2>6
  <2>. QED
    BY <1>1, <2>2, <2>4, <2>5, <2>7, <2>8
<1>. QED
  BY <1>2, <1>4, <1>5, <1>6
=============================================================================
