----------------------------- MODULE RegistryLocks -----------------------------
(***************************************************************************)
(* What an operator sees of the lock files of the registry and of whatever *)
(* else lies in their directories (registry_audit.py): the scan of the     *)
(* namespaces, the IDs of the locks, the filters of the audit and guarded  *)
(* clearing. How locks are taken and cleared while writers are at work is  *)
(* the matter of the stores.                                               *)
(*                                                                         *)
(* A path is a sequence of names; its first one stands for a namespace:    *)
(*                                                                         *)
(*   core          registry/.locks                                         *)
(*   period        settings/academic_periods                               *)
(*   registration  registry/work                                           *)
(*   publication   registry/.locks/publications                            *)
(***************************************************************************)
EXTENDS Integers, Sequences, FiniteSets, SequencesExt

CONSTANTS
  Years, Identifiers, Lowercase, PublicationKinds, \* the names that are valid, by what they name
  LockFile,      \* the name of the lock file of each record set
  ClassYears,    \* the school year of the classes whose metadata can be read
  Artifacts,     \* what may be found in the namespaces: [path, sort], sort \in {"file", "directory", "other"}
  MaxArtifacts,  \* bound on them
  None

VARIABLE entries   \* what is there

vars == entries

Init == entries = {}

(* A writer, a crash or a file manager leaves something behind, or takes it away. *)
Appears(a) ==
  /\ Cardinality(entries) < MaxArtifacts
  /\ \A e \in entries : e.path # a.path
  /\ \A e \in entries : IsStrictPrefix(e.path, a.path) => e.sort = "directory"
  /\ \A e \in entries : IsStrictPrefix(a.path, e.path) => a.sort = "directory"
  /\ entries' = entries \cup {a}
Vanishes(a) == a \in entries /\ entries' = entries \ {a}

Next == \E a \in Artifacts : Appears(a) \/ Vanishes(a)
Spec == Init /\ [][Next]_vars

-----------------------------------------------------------------------------
(* The directory tree: parents are there and are directories. *)
Paths == UNION {{SubSeq(e.path, 1, n) : n \in 1 .. Len(e.path)} : e \in entries}
Sort(p) == IF \E e \in entries : e.path = p THEN (CHOOSE e \in entries : e.path = p).sort ELSE "directory"

(* Mutant of Levels: the module's directory may have any identifier for a name. *)
LevelsOfAnyCase ==
  [period |-> <<Years>>,
   registration |-> <<Identifiers, Identifiers, Identifiers>>,
   publication |-> <<Identifiers, Lowercase, Identifiers, PublicationKinds>>]

(* The directories between a namespace and its locks: the names each level may have. *)
Levels ==
  [period |-> <<Years>>,
   registration |-> <<Identifiers, Lowercase, Identifiers>>,
   publication |-> <<Identifiers, Lowercase, Identifiers, PublicationKinds>>]

Kinds == DOMAIN Levels

(* The scans go down where each name is valid, and report what else they meet on the way. *)
Passable(kind, p) ==
  /\ p[1] = kind /\ Len(p) \leq 1 + Len(Levels[kind])
  /\ \A n \in 2 .. Len(p) : Sort(SubSeq(p, 1, n)) = "directory" /\ p[n] \in Levels[kind][n - 1]
Reached(p) == p[1] \in Kinds /\ Passable(p[1], p)
Met == {p \in Paths : Len(p) > 1 /\ Reached(Front(p)) /\ ~ Reached(p)}
Leaves == {p \in Met : Len(p) = 2 + Len(Levels[p[1]])}
Refused == Met \ Leaves

Known == {"current.json", "revisions"}
RecordSetOf(name) == {s \in DOMAIN LockFile : LockFile[s] = name}

(* A lock is [id, path]; its ID names it by its kind and the names below. *)
CatalogLock == <<"core", "catalog.lock">>
Candidates ==
  {[id |-> <<"catalog">>, path |-> p] : p \in Paths \cap {CatalogLock}}
    \cup {[id |-> Front(p), path |-> p] : p \in {q \in Leaves : q[1] # "publication" /\ Last(q) = ".write.lock"}}
    \cup UNION {{[id |-> Append(Front(p), s), path |-> p] : s \in RecordSetOf(Last(p))} :
                  p \in {q \in Leaves : q[1] = "publication" /\ Sort(q) = "file"}}

(* _observe_lock: only a regular file is a lock. *)
Observed == {c \in Candidates : Sort(c.path) = "file"}

Finding(severity, p) == [severity |-> severity, path |-> p]
Errors ==
  LET locks == {c.path : c \in Observed}
  IN Refused
       \cup {p \in Leaves \ locks : p[1] = "publication" \/ Last(p) \notin Known}
       \cup {p \in Paths \ locks : Len(p) = 2 /\ p[1] = "core"}

(* _scan_locks: the findings of domain "locks". *)
Findings == {Finding("error", p) : p \in Errors} \cup {Finding("warning", c.path) : c \in Observed}

(* list_registry_locks: {} where it raises. *)
list_registry_locks == IF Errors # {} THEN {} ELSE {Observed}

-----------------------------------------------------------------------------
(* _lock_identity and _lock_path: {} where they raise. *)
ValidId(id) ==
  \/ id = <<"catalog">>
  \/ id[1] = "period" /\ Len(id) = 2 /\ id[2] \in Years
  \/ id[1] = "registration" /\ Len(id) = 4 /\ id[2] \in Identifiers /\ id[3] \in Lowercase /\ id[4] \in Identifiers
  \/ /\ id[1] = "publication" /\ Len(id) = 6 /\ id[2] \in Identifiers /\ id[3] \in Lowercase /\ id[4] \in Identifiers
     /\ id[5] \in PublicationKinds /\ id[6] \in DOMAIN LockFile
LockPath(id) ==
  IF ~ ValidId(id) THEN {}
  ELSE {CASE id[1] = "catalog" -> CatalogLock
          [] id[1] = "publication" -> Append(Front(id), LockFile[id[6]])
          [] OTHER -> Append(id, ".write.lock")}

(* get_registry_lock and _guarded_lock_observation, for a lock nobody changes meanwhile. *)
get_registry_lock(id) == {[id |-> id, path |-> p] : p \in {q \in LockPath(id) \cap Paths : Sort(q) = "file"}}

(* clear_registry_lock with the right digest and force: what is left. *)
clear_registry_lock(id) == {{e \in entries : e.path # lock.path} : lock \in get_registry_lock(id)}

-----------------------------------------------------------------------------
(* RegistryAuditOptions: [year, class_id, module_id, work_id, publication]. *)
Unfiltered(o) == \A name \in DOMAIN o : o[name] = None
YearOf(class) == IF class \in DOMAIN ClassYears THEN ClassYears[class] ELSE None
OfWork(o, class, module, work) ==
  /\ o.class_id \in {None, class} /\ o.module_id \in {None, module} /\ o.work_id \in {None, work}
  /\ o.year # None => YearOf(class) = o.year

(* _filter_locks and _narrow_findings, for the domain "locks": what a filtered audit counts and reports. *)
Counted(o, lock) ==
  \/ Unfiltered(o)
  \/ lock.id[1] = "period" /\ o.year \in {None, lock.id[2]} /\ Unfiltered([o EXCEPT !.year = None])
  \/ lock.id[1] \in {"registration", "publication"} /\ o.publication = None /\ OfWork(o, lock.id[2], lock.id[3], lock.id[4])
Reported(o, p) ==
  /\ p[1] = "period" /\ o.year # None => p[2] = o.year
  /\ (p[1] = "registration" /\ Len(p) \geq 4) \/ (p[1] = "publication" /\ Len(p) \geq 5) => OfWork(o, p[2], p[3], p[4])

-----------------------------------------------------------------------------
(***************************************************************************)
(* A lock file a writer can leave behind is observed under one ID, which   *)
(* finds and clears that file and nothing else; what is observed, an       *)
(* operator can clear; and nothing else in the namespaces goes unnoticed,  *)
(* neither by itself nor in a directory the scan did not enter. Even where *)
(* the list of the locks is refused because of it, each lock can be shown. *)
(***************************************************************************)
Ids ==
  {<<"catalog">>} \cup {<<"period", y>> : y \in Years}
    \cup {<<"registration", c, m, w>> : c, w \in Identifiers, m \in Lowercase}
    \cup {<<"publication", c, m, w, k, s>> :
            c, w \in Identifiers, m \in Lowercase, k \in PublicationKinds, s \in DOMAIN LockFile}

EveryLockIsFound ==
  LET observed == Observed
  IN /\ \A id \in Ids : \A p \in LockPath(id) \cap Paths :
          Sort(p) = "file" =>
            /\ {c \in observed : c.path = p} = {[id |-> id, path |-> p]}
            /\ get_registry_lock(id) = {[id |-> id, path |-> p]}
     /\ \A c \in observed :
          LockPath(c.id) = {c.path} /\ clear_registry_lock(c.id) = {{e \in entries : e.path # c.path}}
     /\ \A locks \in list_registry_locks : \A id \in Ids : get_registry_lock(id) \subseteq locks

NothingIsOmitted ==
  LET found == {f.path : f \in Findings}
  IN \A e \in entries :
       \/ \E p \in found : IsPrefix(p, e.path)
       \/ Reached(e.path)
       \/ e.path[1] \in {"period", "registration"} /\ \E n \in DOMAIN e.path : e.path[n] \in Known

(***************************************************************************)
(* A filtered audit keeps the finding of every lock it counts, and leaves  *)
(* out nothing but what lies in the directory of another year or work.     *)
(***************************************************************************)
Filters ==
  [year : Years \cup {None}, class_id : Identifiers \cup {None}, module_id : Lowercase \cup {None},
   work_id : Identifiers \cup {None}, publication : {None, "pub"}]

FiltersKeepTheirOwn ==
  LET observed == Observed
      found == {f.path : f \in Findings}
  IN \A o \in Filters :
       /\ \A c \in observed : Counted(o, c) => Reported(o, c.path)
       /\ \A p \in found : ~ Reported(o, p) =>
            \/ p[1] = "period" /\ p[2] # o.year
            \/ p[1] \in {"registration", "publication"} /\ ~ OfWork(o, p[2], p[3], p[4])

LocksAreAccountedFor == EveryLockIsFound /\ NothingIsOmitted /\ FiltersKeepTheirOwn
=============================================================================
