-------------------------------- MODULE CatalogStore --------------------------------
(***************************************************************************)
(* The derived catalog registry/catalog.sqlite and its lock, rebuilt,      *)
(* removed and audited by Workers while other processes go on writing the  *)
(* canonical files it is made of. The writers appear by what their calls   *)
(* do to the files (RegistrationStore, CalendarStore and PublicationStore  *)
(* show how): a revision, publication or withdrawal is created, filled and *)
(* then settled or taken back, and is pending until then, for ever when    *)
(* its writer crashed; a pointer moves to the revision just filled; class  *)
(* metadata is replaced at will, back and forth too.                       *)
(*                                                                         *)
(* A call reads one file at a time. A settled revision, publication or     *)
(* withdrawal never changes again, so reading it commutes with every step  *)
(* of the others and is merged into the next read of a file that may.      *)
(***************************************************************************)
EXTENDS AcademicCatalog, Sequences

CONSTANTS
  Workers,       \* processes that rebuild, remove and audit
  InitialStores, \* [files, pending] to begin with
  ClassContents, \* contents of class metadata
  MaxRevision, MaxDisturbances,
  MaxEffort,     \* bounds changes of the files, which count one, and calls, which count two
  Nobody         \* no lock file

ASSUME CatalogBoundsAssumption == {MaxRevision, MaxEffort, MaxDisturbances} \subseteq Nat

(* Where canonical files are. *)
BasePaths ==
  (Histories \X Nat) \cup ({"publications", "withdrawals"} \X Publications)
Pointers == {Pointer(h) : h \in Histories}

(***************************************************************************)
(* The content of a file is the instant at which it was written: 1 for     *)
(* those that are there to begin with. What is pending is neither a        *)
(* pointer nor class metadata.                                             *)
(***************************************************************************)
ASSUME StoresAssumption ==
  /\ Histories \subseteq {"periods", "registrations"}
  /\ Torn \notin Nat /\ Nobody \notin Workers
  /\ \A store \in InitialStores :
       /\ DOMAIN store.files \subseteq BasePaths \cup {Class}
       /\ store.pending \subseteq DOMAIN store.files \ (Pointers \cup {Class})
       /\ \A path \in DOMAIN store.files \ {Class} :
            IF path \in Pointers THEN store.files[path] \in Nat ELSE store.files[path] \in {1, Torn}

VARIABLES
  past,     \* every state the canonical files have had, the last one is theirs now
  catalog,  \* None, or [sources, from, at, serial]: built from past[from] on, installed at past[at]
  lock,     \* .locks/catalog.lock: the worker that created it, or Nobody
  pc, call, \* of each worker: where it is, and what it has collected
  report,   \* of each worker: the answer of its last call, an audit
  calls, disturbances, \* counted against the bounds
  cleared   \* a lock has been removed by another hand

vars == <<past, catalog, lock, pc, call, report, calls, disturbances, cleared>>
bounds == <<calls, disturbances, cleared>>

NoFiles == [path \in {} |-> None]
NoCall == [op |-> "none", number |-> 0, begin |-> 0, quiet |-> TRUE, stored |-> None, step |-> 1,
           listed |-> {}, read |-> NoFiles]
NoReport == [answer |-> "none", stored |-> None, begin |-> 0, end |-> 0, quiet |-> TRUE]

Now == past[Len(past)]
Files == Now.files
Selected(files, h) == IF Pointer(h) \in DOMAIN files THEN files[Pointer(h)] ELSE 0

(* A catalog takes in class metadata when something belongs to a class. *)
Sources(files) == [path \in {q \in DOMAIN files : q # Class \/ HasWork(files)} |-> files[path]]

Init ==
  /\ \E store \in InitialStores :
       /\ past = <<store>>
       /\ catalog \in {None} \cup
            IF _load_projection(store.files)
            THEN {[sources |-> Sources(store.files), from |-> 1, at |-> 1, serial |-> 0]} ELSE {}
  /\ lock = Nobody
  /\ pc = [w \in Workers |-> "idle"]
  /\ call = [w \in Workers |-> NoCall]
  /\ report = [w \in Workers |-> NoReport]
  /\ calls = 0 /\ disturbances = 0 /\ cleared = FALSE

-----------------------------------------------------------------------------
(* The writers of canonical files. Each change of the files adds a state to past. *)

Effort(more) == Len(past) - 1 + 2 * calls + more <= MaxEffort

Becomes(files, pending) ==
  /\ Effort(1)
  /\ past' = Append(past, [files |-> files, pending |-> pending])
  /\ UNCHANGED <<catalog, lock, pc, call, report, bounds>>

Put(path, content) == [q \in DOMAIN Files \cup {path} |-> IF q = path THEN content ELSE Files[q]]

Create(path) == path \notin DOMAIN Files /\ Becomes(Put(path, Torn), Now.pending \cup {path})

(* write_academic_work_registration, write_academic_period_calendar *)
CreateRevision(h) == Selected(Files, h) < MaxRevision /\ Create(<<h, Selected(Files, h) + 1>>)

(* write_publication_record, under the lock of its series *)
CreatePublication(p) ==
  LET settled == Published(Files) \ Ids([q \in Now.pending |-> None], "publications")
  IN /\ Record[p].registration # None => Record[p].registration <= Selected(Files, "registrations")
     /\ \A q \in SeriesOf(Files, p) : Record[q].revision < Record[p].revision
     /\ IF Record[p].supersedes = None THEN SeriesOf(Files, p) = {}
        ELSE Record[p].supersedes \in settled \ Superseded(Published(Files))
     /\ Create(<<"publications", p>>)

(* write_publication_withdrawal *)
CreateWithdrawal(p) ==
  /\ p \in Published(Files) /\ <<"publications", p>> \notin Now.pending
  /\ Create(<<"withdrawals", p>>)

(* What is written tells this writing from every other one. *)
Fill(path) ==
  /\ path \in Now.pending /\ Files[path] = Torn
  /\ Becomes(Put(path, Len(past) + 1), Now.pending)

TakeBack(path) ==
  /\ path \in Now.pending
  /\ Becomes([q \in DOMAIN Files \ {path} |-> Files[q]], Now.pending \ {path})

(* A verified publication or withdrawal. It changes no file. *)
Settle(path) ==
  /\ path \in Now.pending /\ Files[path] # Torn /\ path[1] \notin Histories
  /\ past' = [past EXCEPT ![Len(past)] = [files |-> Files, pending |-> Now.pending \ {path}]]
  /\ UNCHANGED <<catalog, lock, pc, call, report, bounds>>

MovePointer(h) ==
  LET path == <<h, Selected(Files, h) + 1>>
  IN /\ path \in Now.pending /\ Files[path] # Torn
     /\ Becomes(Put(Pointer(h), path[2]), Now.pending \ {path})

(* write_class_metadata, or another hand: the content may be one that does not load. *)
ReplaceClass(content) ==
  /\ (Class \in DOMAIN Files => Files[Class] # content)
  /\ Becomes(Put(Class, content), Now.pending)

-----------------------------------------------------------------------------
(* The calls. *)

Canonical == UNCHANGED past
Continue(w, phase, collected) ==
  /\ pc' = [pc EXCEPT ![w] = phase]
  /\ call' = [call EXCEPT ![w] = collected]
Reads == UNCHANGED <<past, catalog, lock, report, bounds>>

(* Any error: a builder goes on to remove its lock, an audit calls the catalog invalid. *)
Answer(w, answer) ==
  /\ Continue(w, "idle", NoCall)
  /\ report' = [report EXCEPT ![w] = [answer |-> answer, stored |-> call[w].stored, begin |-> call[w].begin,
                                      end |-> Len(past), quiet |-> call[w].quiet /\ catalog = call[w].stored]]
  /\ UNCHANGED <<past, catalog, lock, bounds>>
Stop(w) ==
  IF call[w].op = "audit" THEN Answer(w, "invalid")
  ELSE Continue(w, "unlock", call[w]) /\ Reads

Begin(w, op, phase, stored) ==
  /\ pc[w] = "idle" /\ Effort(2)
  /\ calls' = calls + 1
  /\ Continue(w, phase, [NoCall EXCEPT !.op = op, !.number = calls + 1, !.begin = Len(past), !.stored = stored])
  /\ report' = [report EXCEPT ![w] = NoReport]
  /\ UNCHANGED <<past, catalog, disturbances, cleared>>

(* Mutant of rebuild_academic_catalog: a lock file that is there is taken for one's own. *)
rebuild_anyway(w) == Begin(w, "build", "list", None) /\ lock' = w

(* lock.open("x") comes first: when the file is there the call ends in a conflict and has done nothing. *)
rebuild_academic_catalog(w) == lock = Nobody /\ Begin(w, "build", "list", None) /\ lock' = w

(* No catalog, nothing to remove; then the same lock. *)
remove_academic_catalog(w) == catalog # None /\ Begin(w, "remove", "lock", None) /\ UNCHANGED lock

(* _scan_catalog takes the fingerprint of the catalog and loads its metadata. *)
_scan_catalog(w) == catalog # None /\ Begin(w, "audit", "list", catalog) /\ UNCHANGED lock

AcquireLock(w) ==
  /\ pc[w] = "lock"
  /\ IF lock = Nobody THEN lock' = w /\ Continue(w, "unlink", call[w])
     ELSE Continue(w, "idle", NoCall) /\ UNCHANGED lock
  /\ UNCHANGED <<past, catalog, report, bounds>>

(***************************************************************************)
(* _discover_base_paths goes through the collections in this order; a      *)
(* history has a pointer exactly when it has revisions.                    *)
(***************************************************************************)
Listing ==
  LET Of(h) == IF h \in Histories THEN <<<<"revisions", h>>, <<"pointer", h>>>> ELSE <<>>
  IN Of("periods") \o Of("registrations") \o <<<<"collection", "publications">>, <<"collection", "withdrawals">>>>

Entries(step) ==
  CASE step[1] = "revisions" -> {<<step[2], n>> : n \in Revisions(Files, step[2])}
    [] step[1] = "pointer" -> {Pointer(step[2])} \cap DOMAIN Files
    [] step[1] = "collection" -> {step[2]} \X Ids(Files, step[2])

HalfHistory(step, listed) ==
  step[1] = "pointer" /\ (Pointer(step[2]) \in DOMAIN Files <=> {path \in listed : path[1] = step[2]} = {})

_discover_base_paths(w) ==
  /\ pc[w] = "list"
  /\ LET step == Listing[call[w].step]
         last == call[w].step = Len(Listing)
         found == [call[w] EXCEPT !.step = @ + 1, !.listed = @ \cup Entries(step)]
     IN IF HalfHistory(step, call[w].listed) THEN Stop(w)
        ELSE Continue(w, IF last THEN "read" ELSE "list", found) /\ Reads

(* _read_sources takes the files by their relative paths: "classes/", "registry/", "settings/". *)
Rank(path) ==
  CASE path[1] = "class" -> 0 [] path[1] = "publications" -> 1 [] path[1] = "withdrawals" -> 2
    [] path[1] = "registrations" -> IF path[2] = 0 THEN 3 ELSE 4
    [] path[1] = "periods" -> IF path[2] = 0 THEN 5 ELSE 6
FirstOf(paths) == {path \in paths : \A q \in paths : Rank(path) <= Rank(q)}

Immutable(path) ==
  path \in DOMAIN Files \ Now.pending /\ path # Class /\ path \notin {Pointer(h) : h \in Histories}

(* What has been read, and these files as they are now. *)
WithRead(read, paths) == [path \in DOMAIN read \cup paths |-> IF path \in DOMAIN read THEN read[path] ELSE Files[path]]

ReadFiles(w) ==
  LET unread == call[w].listed \ DOMAIN call[w].read
      settled == {path \in unread : Immutable(path)}
      Take(paths) == [call[w] EXCEPT !.read = WithRead(@, paths)]
  IN /\ pc[w] = "read"
     /\ IF unread = settled THEN Continue(w, "class", Take(settled)) /\ Reads
        ELSE \E path \in FirstOf(unread \ settled) :
               IF path \notin DOMAIN Files THEN Stop(w)
               ELSE Continue(w, "read", Take(settled \cup {path})) /\ Reads

(* The rest of _load_projection: the base files make sense, and the class metadata is read when there is any, and loads. *)
ReadClass(w) ==
  LET base == call[w].read
      taken == WithRead(base, IF HasWork(base) THEN {Class} \cap DOMAIN Files ELSE {})
  IN /\ pc[w] = "class"
     /\ IF ~ Projectable(base) \/ ~ ClassLoads(taken) THEN Stop(w)
        ELSE /\ Continue(w, IF call[w].op = "build" THEN "again" ELSE "compare",
                         [call[w] EXCEPT !.read = taken, !.step = 1, !.listed = {}])
             /\ Reads

(* The candidate is built; all its sources are read again, one that differs or is gone is a conflict. *)
ReadAgain(w) ==
  LET unread == DOMAIN call[w].read \ call[w].listed
      settled == {path \in unread : Immutable(path)}
      Differs(path) == path \notin DOMAIN Files \/ Files[path] # call[w].read[path]
  IN /\ pc[w] = "again"
     /\ IF \E path \in settled : Differs(path) THEN Stop(w)
        ELSE IF unread = settled THEN Continue(w, "relist", [call[w] EXCEPT !.listed = {}]) /\ Reads
        ELSE \E path \in FirstOf(unread \ settled) :
               IF Differs(path) THEN Stop(w)
               ELSE Continue(w, "again", [call[w] EXCEPT !.listed = @ \cup settled \cup {path}]) /\ Reads

(* Mutant of ListAgain: the files are not listed a second time. *)
ListAgainAnyway(w) == pc[w] = "relist" /\ Continue(w, "present", call[w]) /\ Reads

(* The second _discover_base_paths has to find the same files. *)
ListAgain(w) ==
  /\ pc[w] = "relist"
  /\ LET step == Listing[call[w].step]
         last == call[w].step = Len(Listing)
         found == [call[w] EXCEPT !.step = @ + 1, !.listed = @ \cup Entries(step)]
     IN IF HalfHistory(step, call[w].listed) \/ (last /\ found.listed # DOMAIN call[w].read \ {Class}) THEN Stop(w)
        ELSE Continue(w, IF last THEN "present" ELSE "relist", found) /\ Reads

(* missing_class_state_changed *)
CheckMissingClass(w) ==
  /\ pc[w] = "present"
  /\ IF HasWork(call[w].read) /\ Class \in DOMAIN Files \ DOMAIN call[w].read THEN Stop(w)
     ELSE Continue(w, "replace", call[w]) /\ Reads

(* os.replace. The verification that follows reads the catalog and changes nothing. *)
Replace(w) ==
  /\ pc[w] = "replace"
  /\ catalog' = [sources |-> call[w].read, from |-> call[w].begin, at |-> Len(past), serial |-> call[w].number]
  /\ Continue(w, "unlock", call[w])
  /\ UNCHANGED <<past, lock, report, bounds>>

(* Removing a catalog that another call has removed raises; either way the lock goes next. *)
Unlink(w) ==
  /\ pc[w] = "unlink"
  /\ catalog' = None
  /\ Continue(w, "unlock", call[w])
  /\ UNCHANGED <<past, lock, report, bounds>>

(* The lock is removed by its path, whoever has created it. *)
Unlock(w) ==
  /\ pc[w] = "unlock"
  /\ lock' = Nobody
  /\ Continue(w, "idle", NoCall)
  /\ UNCHANGED <<past, catalog, report, bounds>>

(* Mutant of Compare: the same paths are enough. *)
CompareByName(w) ==
  /\ pc[w] = "compare"
  /\ IF catalog # None /\ DOMAIN call[w].read = DOMAIN catalog.sources /\ catalog = call[w].stored
     THEN Answer(w, "ready") ELSE Answer(w, "invalid")

(***************************************************************************)
(* The audit compares the projection with the inventory of the catalog and *)
(* with its metadata, and the catalog with the fingerprint of the start:   *)
(* one step, as a catalog that changes in between is invalid anyway.       *)
(***************************************************************************)
Compare(w) ==
  /\ pc[w] = "compare"
  /\ IF call[w].read = call[w].stored.sources /\ catalog = call[w].stored
     THEN Answer(w, "ready") ELSE Answer(w, "invalid")

-----------------------------------------------------------------------------
Disturbed == disturbances < MaxDisturbances /\ disturbances' = disturbances + 1 /\ UNCHANGED calls
InCriticalSection(w) == call[w].op \in {"build", "remove"} /\ pc[w] # "lock"

(* A file cannot be read, the candidate not be built or installed, the catalog not be removed. *)
OperationFails(w) ==
  /\ pc[w] \notin {"idle", "lock", "unlock"}
  /\ Disturbed
  /\ IF call[w].op = "audit"
     THEN /\ Continue(w, "idle", NoCall)
          /\ report' = [report EXCEPT ![w] = [NoReport EXCEPT !.answer = "invalid", !.quiet = FALSE]]
     ELSE Continue(w, "unlock", call[w]) /\ UNCHANGED report
  /\ UNCHANGED <<past, catalog, lock, cleared>>

(* The process ends, or cannot remove its lock: the lock stays. *)
Crash(w) ==
  /\ pc[w] # "idle"
  /\ Disturbed
  /\ Continue(w, "idle", NoCall)
  /\ UNCHANGED <<past, catalog, lock, report, cleared>>

(* clear_registry_lock of "catalog" *)
ClearLock ==
  /\ lock # Nobody
  /\ Disturbed
  /\ lock' = Nobody
  /\ cleared' = (cleared \/ InCriticalSection(lock))
  /\ UNCHANGED <<past, catalog, pc, call, report>>

Step(w) ==
  \/ rebuild_academic_catalog(w) \/ remove_academic_catalog(w) \/ _scan_catalog(w)
  \/ AcquireLock(w) \/ _discover_base_paths(w) \/ ReadFiles(w) \/ ReadClass(w)
  \/ ReadAgain(w) \/ ListAgain(w) \/ CheckMissingClass(w) \/ Replace(w)
  \/ Unlink(w) \/ Unlock(w) \/ Compare(w)

Write ==
  \/ \E h \in Histories : CreateRevision(h) \/ MovePointer(h)
  \/ \E p \in Publications : CreatePublication(p) \/ CreateWithdrawal(p)
  \/ \E path \in Now.pending : Fill(path) \/ TakeBack(path) \/ Settle(path)
  \/ \E content \in ClassContents : ReplaceClass(content)

Next ==
  \/ Write
  \/ \E w \in Workers : Step(w) \/ OperationFails(w) \/ Crash(w)
  \/ ClearLock

Spec == Init /\ [][Next]_vars

-----------------------------------------------------------------------------
(* Sources are the files of a state, whatever they say of files then pending. *)
Agree(sources, files, pending) ==
  \A path \in (DOMAIN sources \cup DOMAIN files) \ pending :
    path \in DOMAIN sources \cap DOMAIN files /\ sources[path] = files[path]
BaseOf(files) == [path \in DOMAIN files \ {Class} |-> files[path]]
Reflects(sources, state) ==
  /\ Agree(BaseOf(sources), BaseOf(state.files), state.pending)
  /\ IF Class \in DOMAIN sources THEN Class \in DOMAIN state.files /\ sources[Class] = state.files[Class]
     ELSE HasWork(sources) => Class \notin DOMAIN state.files

(***************************************************************************)
(* An installed catalog is made of files as they stood together at some    *)
(* instant between the start of its rebuild and its installation, although *)
(* the rebuild has read them one by one and without any lock of theirs.    *)
(***************************************************************************)
InstalledIsRecent ==
  catalog # None => \E k \in catalog.from .. catalog.at : Reflects(catalog.sources, past[k])

(***************************************************************************)
(* A catalog is not replaced by one whose rebuild had begun before it was  *)
(* installed, unless the lock was removed under a rebuild.                 *)
(***************************************************************************)
CatalogNeverGoesBack ==
  [][catalog # None /\ catalog' # catalog /\ catalog' # None /\ ~ cleared => catalog'.from >= catalog.at]_vars

(***************************************************************************)
(* The audit calls a catalog ready only when its records and histories are *)
(* what the store held together at an instant of the audit, and the class  *)
(* metadata what it held at one; and an audit that nothing disturbs calls  *)
(* no catalog invalid that has all it should have.                         *)
(***************************************************************************)
AuditIsRight ==
  \A w \in Workers :
    LET answer == report[w]
        sources == answer.stored.sources
        During == answer.begin .. answer.end
    IN /\ answer.answer = "ready" =>
            /\ \E k \in During : Agree(BaseOf(sources), BaseOf(past[k].files), past[k].pending)
            /\ Class \in DOMAIN sources => \E k \in During : Class \in DOMAIN past[k].files
                                                              /\ past[k].files[Class] = sources[Class]
       /\ answer.answer = "invalid" /\ answer.quiet /\ answer.begin = answer.end =>
            sources # Sources(past[answer.begin].files)
=============================================================================
