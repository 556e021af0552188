--------------------------- MODULE RegistrationStore ---------------------------
(***************************************************************************)
(* The Academic Work Registration of ONE work: the directory               *)
(*                                                                         *)
(*     registrations/<class>/<module>/<work>/                              *)
(*         .write.lock    created with open("x")                           *)
(*         revisions/N.json    created with open("x"), never rewritten     *)
(*         current.json    written beside itself and os.replace'd          *)
(*                                                                         *)
(* shared by independent processes (Writers) that call                     *)
(* registry_services.register_academic_work and                            *)
(* update_academic_work_registration.  One action is one file operation of *)
(* a call: everything between two of them is private to the process.       *)
(* Processes crash between any two operations, an operation may fail with  *)
(* an OSError, and an operator may remove the lock file                    *)
(* (registry_audit.clear_registry_lock).                                   *)
(*                                                                         *)
(* A call reads the pointer and the revision it names in one step: what    *)
(* the pointer names is complete and never changes (SelectedHistory and    *)
(* HistoryIsImmutable below), so the second read adds nothing.             *)
(***************************************************************************)
EXTENDS Integers, FiniteSets

CONSTANTS
  Writers,        \* the processes that call the services
  Metadata,       \* values of _registration_metadata: everything but the revision and the stamps
  Stamps,         \* values of the service clock
  MaxRevision,    \* bound on registration_revision
  MaxFaults,      \* bound on failing file operations
  MaxCrashes,     \* bound on crashes
  GuardedClearing,\* TRUE: locks are cleared only after the procedure of the recovery guide
  Nobody,         \* no lock file
  NoRegistration  \* Python's None

ASSUME ConstantsAssumption ==
  /\ Stamps \subseteq Nat
  /\ MaxRevision \in Nat \ {0}
  /\ MaxFaults \in Nat
  /\ MaxCrashes \in Nat
  /\ GuardedClearing \in BOOLEAN
  /\ Nobody \notin Writers

Revisions == 1 .. MaxRevision

Registration ==
  [revision : Revisions, metadata : Metadata, created_at : Stamps, updated_at : Stamps]

ASSUME NoRegistrationAssumption == NoRegistration \notin Registration

(***************************************************************************)
(* A revision path holds nothing, a file whose content is not yet (or will *)
(* never be) valid JSON, or one complete registration.                     *)
(***************************************************************************)
Absent == [status |-> "absent", content |-> NoRegistration]
Torn == [status |-> "torn", content |-> NoRegistration]
Complete(registration) == [status |-> "complete", content |-> registration]

RevisionFile == {Absent, Torn} \cup {Complete(registration) : registration \in Registration}

VARIABLES
  lock,      \* the writer whose .write.lock file is there, or Nobody
  revision,  \* revision[r]: the file revisions/r.json
  current,   \* the revision current.json names, 0 without the file
  pc,        \* the next file operation of each writer's call
  candidate, \* the registration the call wants to write
  seen,      \* the pointer read under the lock
  cause,     \* the storage error the writer is about to raise
  persisted, \* what _raise_registration_write_state loaded
  outcome,   \* what the last call of a writer returned or raised
  trace,     \* history variable: what the call itself left in the directory
  faults,    \* failing operations so far
  crashes    \* crashes so far

store == <<lock, revision, current>>
call == <<pc, candidate, seen, cause, persisted, outcome>>
vars == <<store, call, trace, faults, crashes>>

InCriticalSection ==
  {"validate", "scan", "create", "fill", "verify", "publish", "confirm", "release"}
Phases ==
  {"idle", "list", "acquire", "reload", "reconcile", "classify", "select"} \cup InCriticalSection

Causes == {"none", "conflict", "integrity", "write_error", "read_error"}

(***************************************************************************)
(* "created", "updated" and "existing" are dispositions; the rest are      *)
(* exceptions.  "partial_*" is RegistryServicePartialSuccessError with     *)
(* current_selected True, False and None; "read_error" is the storage      *)
(* module's own ReadError, which no service handler catches.               *)
(***************************************************************************)
Selections == {"partial_selected", "partial_unselected", "partial_uncertain"}
Kinds ==
  {"none", "created", "updated", "existing", "not_found", "conflict", "integrity",
   "write_error", "read_error"} \cup Selections

Outcome == [kind : Kinds, registration : Registration \cup {NoRegistration}]
NoOutcome == [kind |-> "none", registration |-> NoRegistration]

-----------------------------------------------------------------------------
(* Reading the directory. *)

Selected == IF current = 0 THEN NoRegistration ELSE revision[current].content
Listed == {r \in Revisions : revision[r] # Absent}
SomeTorn == \E r \in Revisions : revision[r] = Torn
Expected(w) == candidate[w].revision - 1

(* Mutant: the clock's word is taken. *)
LaterByClock(now, floor) == now

(* max(now, current.updated_at): the service clock may have gone back. *)
Later(now, floor) == IF now < floor THEN floor ELSE now

-----------------------------------------------------------------------------
Init ==
  /\ lock = Nobody
  /\ revision = [r \in Revisions |-> Absent]
  /\ current = 0
  /\ pc = [w \in Writers |-> "idle"]
  /\ candidate = [w \in Writers |-> NoRegistration]
  /\ seen = [w \in Writers |-> 0]
  /\ cause = [w \in Writers |-> "none"]
  /\ persisted = [w \in Writers |-> NoRegistration]
  /\ outcome = [w \in Writers |-> NoOutcome]
  /\ trace = [w \in Writers |-> "nothing"]
  /\ faults = 0
  /\ crashes = 0

(* The call of w ends; what it held in memory is gone. *)
Return(w, kind, registration) ==
  /\ pc' = [pc EXCEPT ![w] = "idle"]
  /\ candidate' = [candidate EXCEPT ![w] = NoRegistration]
  /\ seen' = [seen EXCEPT ![w] = 0]
  /\ cause' = [cause EXCEPT ![w] = "none"]
  /\ persisted' = [persisted EXCEPT ![w] = NoRegistration]
  /\ outcome' = [outcome EXCEPT ![w] = [kind |-> kind, registration |-> registration]]

Goto(w, phase) ==
  /\ pc' = [pc EXCEPT ![w] = phase]
  /\ UNCHANGED <<candidate, seen, cause, persisted, outcome>>

(* An exception on its way to `phase`. *)
Raise(w, error, phase) ==
  /\ pc' = [pc EXCEPT ![w] = phase]
  /\ cause' = [cause EXCEPT ![w] = error]
  /\ UNCHANGED <<candidate, seen, persisted, outcome>>

NoFault == UNCHANGED <<faults, crashes>>
Fault == faults < MaxFaults /\ faults' = faults + 1 /\ UNCHANGED crashes

(* A call goes on with a candidate built from what it has just read. *)
Prepare(w, registration) ==
  /\ pc' = [pc EXCEPT ![w] = "list"]
  /\ candidate' = [candidate EXCEPT ![w] = registration]
  /\ outcome' = [outcome EXCEPT ![w] = NoOutcome]
  /\ UNCHANGED <<seen, cause, persisted>>

-----------------------------------------------------------------------------
(* The services up to the strict writer. *)

Register(w, metadata) ==
  /\ pc[w] = "idle"
  /\ \/ /\ current # 0
        /\ IF Selected.metadata = metadata
           THEN Return(w, "existing", Selected)
           ELSE Return(w, "conflict", NoRegistration)
     \/ /\ current = 0
        /\ \E now \in Stamps :
             Prepare(w, [revision |-> 1, metadata |-> metadata,
                         created_at |-> now, updated_at |-> now])
  /\ trace' = [trace EXCEPT ![w] = "nothing"]
  /\ UNCHANGED store /\ NoFault

Update(w, metadata, expected) ==
  /\ pc[w] = "idle"
  /\ \/ /\ current = 0
        /\ Return(w, "not_found", NoRegistration)
     \/ /\ current # 0
        /\ Selected.metadata = metadata /\ current >= expected
        /\ Return(w, "existing", Selected)
     \/ /\ current # 0
        /\ IF current > expected THEN Selected.metadata # metadata ELSE current < expected
        /\ Return(w, "conflict", NoRegistration)
     \/ /\ current = expected /\ current \in 1 .. MaxRevision - 1
        /\ Selected.metadata # metadata
        /\ \E now \in Stamps :
             Prepare(w, [revision |-> current + 1, metadata |-> metadata,
                         created_at |-> Selected.created_at,
                         updated_at |-> Later(now, Selected.updated_at)])
  /\ trace' = [trace EXCEPT ![w] = "nothing"]
  /\ UNCHANGED store /\ NoFault

(***************************************************************************)
(* The look at the directory before the strict writer is called, without   *)
(* the lock.  register_academic_work accepts no revision at all,           *)
(* update_academic_work_registration only wants the next one free.         *)
(***************************************************************************)
Occupied(w) == IF candidate[w].revision = 1 THEN Listed # {} ELSE candidate[w].revision \in Listed

ListRevisions(w) ==
  /\ pc[w] = "list"
  /\ IF SomeTorn \/ Occupied(w)
     THEN Return(w, "integrity", NoRegistration)
     ELSE Goto(w, "acquire")
  /\ UNCHANGED <<store, trace>> /\ NoFault

-----------------------------------------------------------------------------
(* write_academic_work_registration: from the lock to the pointer. *)

(* Mutant: the lock file is opened with "w" instead of "x". *)
AcquireLockAnyway(w) ==
  /\ pc[w] = "acquire"
  /\ lock' = w
  /\ Goto(w, "validate")
  /\ UNCHANGED <<revision, current, trace>> /\ NoFault

AcquireLock(w) ==
  /\ pc[w] = "acquire"
  /\ \/ /\ lock = Nobody
        /\ lock' = w
        /\ Goto(w, "validate")
     \/ /\ lock # Nobody
        /\ UNCHANGED lock
        /\ Raise(w, "conflict", "reconcile")
  /\ UNCHANGED <<revision, current, trace>> /\ NoFault

ReadPointer(w) ==
  /\ pc[w] = "validate"
  /\ pc' = [pc EXCEPT ![w] = "scan"]
  /\ seen' = [seen EXCEPT ![w] = current]
  /\ UNCHANGED <<candidate, cause, persisted, outcome, store, trace>> /\ NoFault

(* Mutant: the selected revision counts as one beyond the pointer. *)
WriteStateErrorOffByOne(w) ==
  IF SomeTorn THEN "read_error"
  ELSE IF Expected(w) = 0
       THEN IF seen[w] # 0 THEN "conflict" ELSE IF Listed # {} THEN "integrity" ELSE "none"
  ELSE IF seen[w] # Expected(w) \/ candidate[w].revision \in Listed THEN "conflict"
  ELSE IF \E r \in Listed : r >= seen[w] THEN "integrity"
  ELSE "none"

(***************************************************************************)
(* _validate_write_state after the pointer: every listed revision is       *)
(* loaded first.  The transition check cannot fail here: the candidate was *)
(* built from the revision `seen` names.                                   *)
(***************************************************************************)
WriteStateError(w) ==
  IF SomeTorn THEN "read_error"
  ELSE IF Expected(w) = 0
       THEN IF seen[w] # 0 THEN "conflict" ELSE IF Listed # {} THEN "integrity" ELSE "none"
  ELSE IF seen[w] # Expected(w) THEN "conflict"
  ELSE IF candidate[w].revision \in Listed THEN "conflict"
  ELSE IF \E r \in Listed : r > seen[w] THEN "integrity"
  ELSE "none"

ScanRevisions(w) ==
  /\ pc[w] = "scan"
  /\ IF WriteStateError(w) = "none"
     THEN Goto(w, "create")
     ELSE Raise(w, WriteStateError(w), "release")
  /\ UNCHANGED <<store, trace>> /\ NoFault

(* Mutant: an existing revision file is truncated and written again. *)
CreateRevisionOverwriting(w) ==
  /\ pc[w] = "create"
  /\ revision' = [revision EXCEPT ![candidate[w].revision] = Torn]
  /\ trace' = [trace EXCEPT ![w] = "orphan"]
  /\ Goto(w, "fill")
  /\ UNCHANGED <<lock, current>> /\ NoFault

(* Mutant: an identical revision that is already there is taken over. *)
CreateRevisionAdopting(w) ==
  /\ pc[w] = "create"
  /\ \/ /\ revision[candidate[w].revision] = Absent
        /\ revision' = [revision EXCEPT ![candidate[w].revision] = Torn]
        /\ trace' = [trace EXCEPT ![w] = "orphan"]
        /\ Goto(w, "fill")
     \/ /\ revision[candidate[w].revision] = Complete(candidate[w])
        /\ UNCHANGED <<revision, trace>>
        /\ Goto(w, "publish")
     \/ /\ revision[candidate[w].revision] \notin {Absent, Complete(candidate[w])}
        /\ UNCHANGED <<revision, trace>>
        /\ Raise(w, "conflict", "release")
  /\ UNCHANGED <<lock, current>> /\ NoFault

(* open("x"): the name appears, the content does not. *)
CreateRevision(w) ==
  /\ pc[w] = "create"
  /\ \/ /\ revision[candidate[w].revision] = Absent
        /\ revision' = [revision EXCEPT ![candidate[w].revision] = Torn]
        /\ trace' = [trace EXCEPT ![w] = "orphan"]
        /\ Goto(w, "fill")
     \/ /\ revision[candidate[w].revision] # Absent
        /\ UNCHANGED <<revision, trace>>
        /\ Raise(w, "conflict", "release")
  /\ UNCHANGED <<lock, current>> /\ NoFault

FillRevision(w) ==
  /\ pc[w] = "fill"
  /\ revision' = [revision EXCEPT ![candidate[w].revision] = Complete(candidate[w])]
  /\ Goto(w, "verify")
  /\ UNCHANGED <<lock, current, trace>> /\ NoFault

(* Discard what this call created. *)
Rollback(w) ==
  /\ revision' = [revision EXCEPT ![candidate[w].revision] = Absent]
  /\ trace' = [trace EXCEPT ![w] = "nothing"]

(* Mutant: the lock goes once the revision is durable, before the pointer. *)
VerifyRevisionUnlocking(w) ==
  /\ pc[w] = "verify"
  /\ Goto(w, "publish") /\ lock' = Nobody
  /\ UNCHANGED <<revision, current, trace>> /\ NoFault

VerifyRevision(w) ==
  /\ pc[w] = "verify"
  /\ IF revision[candidate[w].revision] = Complete(candidate[w])
     THEN Goto(w, "publish") /\ UNCHANGED <<revision, trace>>
     ELSE Rollback(w) /\ Raise(w, "write_error", "release")
  /\ UNCHANGED <<lock, current>> /\ NoFault

PublishPointer(w) ==
  /\ pc[w] = "publish"
  /\ current' = candidate[w].revision
  /\ trace' = [trace EXCEPT ![w] = "committed"]
  /\ Goto(w, "confirm")
  /\ UNCHANGED <<lock, revision>> /\ NoFault

ConfirmPointer(w) ==
  /\ pc[w] = "confirm"
  /\ IF Selected = candidate[w]
     THEN Goto(w, "release")
     ELSE Raise(w, "integrity", "release")
  /\ UNCHANGED <<store, trace>> /\ NoFault

(* Where _write_registration_candidate goes on once the writer is through. *)
AfterWriter(w) ==
  CASE cause[w] = "none" -> Goto(w, "reload")
    [] cause[w] = "conflict" -> Goto(w, "reconcile")
    [] cause[w] \in {"integrity", "write_error"} -> Goto(w, "classify")
    [] cause[w] = "read_error" -> Return(w, "read_error", NoRegistration)

(***************************************************************************)
(* finally: _remove_file(lock_path) unlinks whatever lock file is there,   *)
(* also one that another writer created after this one's was cleared.      *)
(***************************************************************************)
ReleaseLock(w) ==
  /\ pc[w] = "release"
  /\ lock' = Nobody
  /\ AfterWriter(w)
  /\ UNCHANGED <<revision, current, trace>> /\ NoFault

-----------------------------------------------------------------------------
(* The services after the strict writer. *)

ReloadSelected(w) ==
  /\ pc[w] = "reload"
  /\ IF Selected = candidate[w]
     THEN Return(w, IF Expected(w) = 0 THEN "created" ELSE "updated", Selected)
     ELSE Return(w, "partial_unselected", candidate[w])
  /\ UNCHANGED <<store, trace>> /\ NoFault

(* Mutant: somebody else's identical selection is reported as this call's. *)
ReconcileConflictAsOwn(w) ==
  /\ pc[w] = "reconcile"
  /\ IF current # 0 /\ Selected.metadata = candidate[w].metadata
     THEN Return(w, "updated", Selected)
     ELSE Goto(w, "classify")
  /\ UNCHANGED <<store, trace>> /\ NoFault

(* After a conflict an identical selection by somebody else is success. *)
ReconcileConflict(w) ==
  /\ pc[w] = "reconcile"
  /\ IF current # 0 /\ Selected.metadata = candidate[w].metadata
     THEN Return(w, "existing", Selected)
     ELSE Goto(w, "classify")
  /\ UNCHANGED <<store, trace>> /\ NoFault

(* Mutant: a write error is passed on without a look at the directory. *)
ClassifyCandidateBlindly(w) ==
  /\ pc[w] = "classify"
  /\ LET file == revision[candidate[w].revision]
     IN \/ (file = Absent \/ cause[w] = "write_error") /\ Return(w, cause[w], NoRegistration)
        \/ file = Torn /\ cause[w] # "write_error" /\ Return(w, "integrity", NoRegistration)
        \/ /\ file \notin {Absent, Torn} /\ cause[w] # "write_error"
           /\ pc' = [pc EXCEPT ![w] = "select"]
           /\ persisted' = [persisted EXCEPT ![w] = file.content]
           /\ UNCHANGED <<candidate, seen, cause, outcome>>
  /\ UNCHANGED <<store, trace>> /\ NoFault

(* _raise_registration_write_state: the candidate's path ... *)
ClassifyCandidate(w) ==
  /\ pc[w] = "classify"
  /\ LET file == revision[candidate[w].revision]
     IN \/ file = Absent /\ Return(w, cause[w], NoRegistration)
        \/ file = Torn /\ Return(w, "integrity", NoRegistration)
        \/ /\ file \notin {Absent, Torn}
           /\ pc' = [pc EXCEPT ![w] = "select"]
           /\ persisted' = [persisted EXCEPT ![w] = file.content]
           /\ UNCHANGED <<candidate, seen, cause, outcome>>
  /\ UNCHANGED <<store, trace>> /\ NoFault

(* Mutant: a durable candidate is taken to be the selected one. *)
ClassifySelectionByFile(w) ==
  /\ pc[w] = "select"
  /\ IF persisted[w] # candidate[w]
     THEN Return(w, IF Selected = persisted[w] THEN "conflict" ELSE "integrity", NoRegistration)
     ELSE Return(w, "partial_selected", candidate[w])
  /\ UNCHANGED <<store, trace>> /\ NoFault

(* ... and what is selected. *)
ClassifySelection(w) ==
  /\ pc[w] = "select"
  /\ IF persisted[w] # candidate[w]
     THEN Return(w, IF Selected = persisted[w] THEN "conflict" ELSE "integrity", NoRegistration)
     ELSE Return(w, IF Selected = candidate[w] THEN "partial_selected" ELSE "partial_unselected",
                 candidate[w])
  /\ UNCHANGED <<store, trace>> /\ NoFault

-----------------------------------------------------------------------------
(* File operations that fail with an OSError. *)

FirstReadFails(w) ==
  /\ pc[w] \in {"idle", "list"}
  /\ Return(w, "write_error", NoRegistration)
  /\ trace' = [trace EXCEPT ![w] = "nothing"]
  /\ UNCHANGED store /\ Fault

(* No producer work root, no registration directory, or no lock file. *)
AcquireFails(w) ==
  /\ pc[w] = "acquire"
  /\ Raise(w, "write_error", "classify")
  /\ UNCHANGED <<store, trace>> /\ Fault

StateReadFails(w) ==
  /\ pc[w] \in {"validate", "scan"}
  /\ Raise(w, "read_error", "release")
  /\ UNCHANGED <<store, trace>> /\ Fault

(* Mutant: the path is cleaned up even if open("x") never created it. *)
RevisionWriteFailsRemoving(w) ==
  /\ pc[w] \in {"create", "fill", "verify"} /\ Rollback(w)
  /\ Raise(w, "write_error", "release")
  /\ UNCHANGED <<lock, current>> /\ Fault

(* open, write or read back; what the call created is removed again ... *)
RevisionWriteFails(w) ==
  /\ \/ pc[w] = "create" /\ UNCHANGED <<revision, trace>>
     \/ pc[w] \in {"fill", "verify"} /\ Rollback(w)
  /\ Raise(w, "write_error", "release")
  /\ UNCHANGED <<lock, current>> /\ Fault

(* ... unless the removal, whose error _remove_file swallows, fails too. *)
RollbackFails(w) ==
  /\ pc[w] \in {"fill", "verify"}
  /\ Raise(w, "write_error", "release")
  /\ faults + 2 <= MaxFaults /\ faults' = faults + 2
  /\ UNCHANGED <<store, trace, crashes>>

PublishFails(w) ==
  /\ pc[w] = "publish"
  /\ Raise(w, "write_error", "release")
  /\ UNCHANGED <<store, trace>> /\ Fault

ConfirmFails(w) ==
  /\ pc[w] = "confirm"
  /\ Raise(w, "integrity", "release")
  /\ UNCHANGED <<store, trace>> /\ Fault

(* _remove_file swallows the error: the lock file stays. *)
ReleaseFails(w) ==
  /\ pc[w] = "release"
  /\ AfterWriter(w)
  /\ UNCHANGED <<store, trace>> /\ Fault

LastReadFails(w) ==
  /\ \/ pc[w] = "reload" /\ Return(w, "partial_uncertain", candidate[w])
     \/ pc[w] = "reconcile" /\ Return(w, "write_error", NoRegistration)
     \/ pc[w] = "classify" /\ Return(w, "integrity", NoRegistration)
     \/ /\ pc[w] = "select"
        /\ IF persisted[w] # candidate[w]
           THEN Return(w, "integrity", NoRegistration)
           ELSE Return(w, "partial_uncertain", candidate[w])
  /\ UNCHANGED <<store, trace>> /\ Fault

-----------------------------------------------------------------------------
(* The process dies; files stay as they are, its lock file too. *)
Crash(w) ==
  /\ pc[w] # "idle"
  /\ crashes < MaxCrashes /\ crashes' = crashes + 1
  /\ Return(w, "none", NoRegistration)
  /\ UNCHANGED <<store, trace, faults>>

Active(w) == pc[w] \in InCriticalSection

(***************************************************************************)
(* registry_audit.clear_registry_lock with --force.  Every lock file of a  *)
(* registration is empty, so the expected SHA-256 is always the same and   *)
(* selects any lock that happens to be there; only the recovery guide asks *)
(* for evidence "that no active writer uses it".                           *)
(***************************************************************************)
ClearLock ==
  /\ lock # Nobody
  /\ GuardedClearing => ~ Active(lock)
  /\ lock' = Nobody
  /\ UNCHANGED <<revision, current, call, trace, faults, crashes>>

Step(w) ==
  \/ ListRevisions(w) \/ AcquireLock(w) \/ ReadPointer(w) \/ ScanRevisions(w)
  \/ CreateRevision(w) \/ FillRevision(w) \/ VerifyRevision(w) \/ PublishPointer(w)
  \/ ConfirmPointer(w) \/ ReleaseLock(w) \/ ReloadSelected(w) \/ ReconcileConflict(w)
  \/ ClassifyCandidate(w) \/ ClassifySelection(w)

FileError(w) ==
  \/ FirstReadFails(w) \/ AcquireFails(w) \/ StateReadFails(w) \/ RevisionWriteFails(w)
  \/ RollbackFails(w) \/ PublishFails(w) \/ ConfirmFails(w) \/ ReleaseFails(w)
  \/ LastReadFails(w)

Next ==
  \/ \E w \in Writers :
       \/ \E metadata \in Metadata : Register(w, metadata)
       \/ \E metadata \in Metadata, expected \in Revisions : Update(w, metadata, expected)
       \/ Step(w)
       \/ FileError(w)
       \/ Crash(w)
  \/ ClearLock

Spec == Init /\ [][Next]_vars

-----------------------------------------------------------------------------
(* Type correctness: every variable of the store and of the calls stays in its declared domain. *)
TypeOK ==
  /\ lock \in Writers \cup {Nobody}
  /\ revision \in [Revisions -> RevisionFile]
  /\ current \in 0 .. MaxRevision
  /\ pc \in [Writers -> Phases]
  /\ candidate \in [Writers -> Registration \cup {NoRegistration}]
  /\ seen \in [Writers -> 0 .. MaxRevision]
  /\ cause \in [Writers -> Causes]
  /\ persisted \in [Writers -> Registration \cup {NoRegistration}]
  /\ outcome \in [Writers -> Outcome]
  /\ trace \in [Writers -> {"nothing", "orphan", "committed"}]
  /\ faults \in 0 .. MaxFaults
  /\ crashes \in 0 .. MaxCrashes

(* A writer between open("x") and os.replace of its own revision. *)
Owner(w) == pc[w] \in {"fill", "verify", "publish"}

(* What the pointer can reach: complete revisions, each at the path of its own number. *)
ReachableComplete ==
  \A r \in 1 .. current :
    \E registration \in Registration :
      revision[r] = Complete(registration) /\ registration.revision = r

(***************************************************************************)
(* Revision r + 1 was made from revision r: no accepted update was based   *)
(* on a registration that was no longer the selected one.                  *)
(***************************************************************************)
Chained ==
  \A r \in 1 .. current - 1 :
    /\ revision[r + 1].content.created_at = revision[r].content.created_at
    /\ revision[r + 1].content.updated_at >= revision[r].content.updated_at

(***************************************************************************)
(* current.json always names a complete revision, with a complete and      *)
(* properly chained history below it, whatever crashed, failed, or lost    *)
(* its lock on the way (load_current_academic_work_registration never      *)
(* raises for the store's own doing).                                      *)
(***************************************************************************)
SelectedHistory == ReachableComplete /\ Chained

(***************************************************************************)
(* Beyond the pointer there is at most one revision file, directly above   *)
(* it: a crash leaves one orphan, never a series of them, and two writers  *)
(* never both have an unselected revision.  This does not rest on the      *)
(* lock: open("x") on revisions/N.json alone decides between two updates.  *)
(***************************************************************************)
OneUnselectedRevision ==
  /\ \A r \in Listed : r <= current + 1
  /\ \A v, w \in Writers : Owner(v) /\ Owner(w) => v = w

(***************************************************************************)
(* A call answered with "created", "updated", "existing" or a partial      *)
(* success that says "selected" names a registration that is in the        *)
(* selected history for good.                                              *)
(***************************************************************************)
InSelectedHistory(registration) ==
  \E r \in 1 .. current : revision[r] = Complete(registration)

AcknowledgedIsDurable ==
  \A w \in Writers :
    outcome[w].kind \in {"created", "updated", "existing", "partial_selected"} =>
      InSelectedHistory(outcome[w].registration)

(***************************************************************************)
(* A call that failed with a plain error (not Integrity, not partial       *)
(* success) left no revision of its own: neither selected nor an orphan.   *)
(* The caller may repeat it.  Every path of the error reconciliation in    *)
(* _write_registration_candidate has to keep this.                         *)
(***************************************************************************)
PlainFailureLeftNothing ==
  \A w \in Writers :
    outcome[w].kind \in {"not_found", "conflict", "write_error", "read_error"} =>
      trace[w] = "nothing"

(***************************************************************************)
(* A selected revision is never replaced or removed.                       *)
(***************************************************************************)
HistoryIsImmutable ==
  [][\A r \in Revisions : r <= current => revision'[r] = revision[r]]_vars

(***************************************************************************)
(* The pointer only moves to the next revision, and only by the writer     *)
(* that created that revision in the same call: an orphan is never         *)
(* promoted ("never promote or delete an orphan automatically").           *)
(***************************************************************************)
OrphanNeverPromoted ==
  [][current' # current =>
       /\ current' = current + 1
       /\ \E w \in Writers :
            Owner(w) /\ trace[w] = "orphan" /\ candidate[w].revision = current']_vars

(***************************************************************************)
(* Under the recovery guide's procedure (clear a lock only when its writer *)
(* is gone) at most one call is between taking and removing the lock, and  *)
(* the lock file there is its own.                                         *)
(***************************************************************************)
MutualExclusion ==
  \A w \in Writers : Active(w) => lock = w

(***************************************************************************)
(* Under the same procedure the check made under the lock blames an orphan *)
(* or a torn revision only when its writer is gone: a call that stops with *)
(* Integrity at this point has found something to repair, not a colleague  *)
(* at work.                                                                *)
(***************************************************************************)
LockedScanFindsRealOrphans ==
  [][\A w \in Writers :
       pc[w] = "scan" /\ WriteStateError(w) \in {"integrity", "read_error"} =>
         ~ \E v \in Writers : Owner(v)]_vars

(* A revision above the pointer that no live call will select or remove. *)
Orphaned == \E r \in Listed : r > current /\ \A w \in Writers : ~ Owner(w)

(* A call made with what is selected now and with something else to say. *)
FreshCall(w) ==
  \E metadata \in Metadata :
    \/ current = 0 /\ Register(w, metadata)
    \/ current # 0 /\ Selected.metadata # metadata /\ Update(w, metadata, current)

(***************************************************************************)
(* A process that was given a call runs it (nothing in it waits), an       *)
(* operator gets round to clearing the locks of dead writers, and every    *)
(* process keeps coming back with a fresh call.  Crashes, failing          *)
(* operations and stale calls may happen but need not.                     *)
(***************************************************************************)
Fairness ==
  /\ WF_vars(ClearLock)
  /\ \A w \in Writers : WF_vars(Step(w)) /\ SF_vars(FreshCall(w))

FairSpec == Spec /\ Fairness

(***************************************************************************)
(* Calls that reject one another never do so for ever: the history grows   *)
(* up to the bound unless an orphan revision, which only a reviewed repair *)
(* may remove, stands in its way.                                          *)
(***************************************************************************)
HistoryGrows == <>(current = MaxRevision \/ Orphaned)

-----------------------------------------------------------------------------
(***************************************************************************)
(* Claims of the repository that the code does not keep.                   *)
(***************************************************************************)

(***************************************************************************)
(* Whatever goes wrong in a call, the caller sees a RegistryServiceError   *)
(* ("Base error for producer-facing registry services"): a read error of   *)
(* the storage module never reaches it.                                    *)
(***************************************************************************)
OnlyServiceErrors == \A w \in Writers : outcome[w].kind # "read_error"

(***************************************************************************)
(* When update_academic_work_registration reports that "the next           *)
(* registration revision already exists as an orphan; repair is required"  *)
(* there is an orphan to repair.                                           *)
(***************************************************************************)
ReportedOrphanIsOrphan ==
  [][\A w \in Writers :
       pc[w] = "list" /\ candidate[w].revision > 1 /\ ~ SomeTorn /\ outcome'[w].kind = "integrity" =>
         Orphaned]_vars
=============================================================================
