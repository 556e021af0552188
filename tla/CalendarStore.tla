------------------------------ MODULE CalendarStore ------------------------------
(***************************************************************************)
(* The Academic Period Calendar of one school year                         *)
(*                                                                         *)
(*     .write.lock   revisions/<n>.json   current.json                     *)
(*                                                                         *)
(* as write_academic_period_calendar changes it and                        *)
(* resolve_academic_period_ref reads it, several processes at a time.      *)
(* There is no service in front of the store: the caller chooses the       *)
(* revision number, and may leave a gap, so that two writers need not      *)
(* meet at one path and only the lock keeps the revisions in order.        *)
(***************************************************************************)
EXTENDS AcademicPeriods, FiniteSets

CONSTANTS
  Writers,         \* the processes
  Calendars,       \* created_at, updated_at and periods of the calendars callers try
  MaxRevision,     \* bound on calendar_revision
  MaxDisturbances, \* bound on failing file operations and crashes together
  Nobody,          \* no lock file
  None             \* Python's None

(* Timestamps are numbers; the other values are only told apart. *)
ASSUME ConstantsAssumption ==
  /\ MaxRevision \in Nat /\ MaxDisturbances \in Nat
  /\ Nobody \notin Writers /\ None \notin Nat
  /\ \A calendar \in Calendars : calendar.updated_at \in Nat

VARIABLES
  lock,       \* the writer whose .write.lock is there, or Nobody
  revision,   \* the revision files
  current,    \* the revision current.json names, or None
  pc,         \* the next file operation of each process
  candidate,  \* the calendar it writes
  expected,   \* expected_current_revision, or the pointer a reader has read
  outcome,    \* what its last call returned or raised
  disturbances

store == <<lock, revision, current>>
call == <<pc, candidate, expected, outcome>>
vars == <<store, call, disturbances>>

Revisions == 1 .. MaxRevision
Absent == [status |-> "absent", content |-> None]
Torn == [status |-> "torn", content |-> None]
Complete(calendar) == [status |-> "complete", content |-> calendar]
Exists(r) == revision[r] # Absent
Selected == revision[current].content

Init ==
  /\ lock = Nobody
  /\ revision = [r \in Revisions |-> Absent]
  /\ current = None
  /\ pc = [w \in Writers |-> "idle"]
  /\ candidate = [w \in Writers |-> None]
  /\ expected = [w \in Writers |-> None]
  /\ outcome = [w \in Writers |-> "none"]
  /\ disturbances = 0

Goto(w, phase) == pc' = [pc EXCEPT ![w] = phase] /\ UNCHANGED <<candidate, expected, outcome>>

Return(w, kind) ==
  /\ pc' = [pc EXCEPT ![w] = "idle"]
  /\ candidate' = [candidate EXCEPT ![w] = None]
  /\ expected' = [expected EXCEPT ![w] = None]
  /\ outcome' = [outcome EXCEPT ![w] = kind]

(* An exception inside the try block: the lock is still to be released. *)
Raise(w, kind) ==
  /\ pc' = [pc EXCEPT ![w] = "release"]
  /\ outcome' = [outcome EXCEPT ![w] = kind]
  /\ UNCHANGED <<candidate, expected>>

NoFault == UNCHANGED disturbances
Fault == disturbances < MaxDisturbances /\ disturbances' = disturbances + 1

-----------------------------------------------------------------------------
(* write_academic_period_calendar *)

(***************************************************************************)
(* A calendar that does not validate raises before anything is touched: no *)
(* step.  What callers expect to be current is, or there is nothing yet as *)
(* far as they know; it may be stale by the time it is compared.           *)
(***************************************************************************)
Write(w, calendar, r, previous) ==
  /\ pc[w] = "idle"
  /\ previous \in {current, None}
  /\ ValidCalendar(calendar)
  /\ previous = None => r = 1
  /\ pc' = [pc EXCEPT ![w] = "acquire"]
  /\ candidate' = [candidate EXCEPT ![w] =
       [calendar_revision |-> r, created_at |-> calendar.created_at,
        updated_at |-> calendar.updated_at, periods |-> calendar.periods]]
  /\ expected' = [expected EXCEPT ![w] = previous]
  /\ outcome' = [outcome EXCEPT ![w] = "none"]
  /\ UNCHANGED store /\ NoFault

(* Mutant of AcquireLock: the lock file is opened for writing, whoever's it is. *)
AcquireLockAnyway(w) ==
  /\ pc[w] = "acquire"
  /\ lock' = w /\ Goto(w, "state")
  /\ UNCHANGED <<revision, current>> /\ NoFault

AcquireLock(w) ==
  /\ pc[w] = "acquire"
  /\ \/ lock = Nobody /\ lock' = w /\ Goto(w, "state")
     \/ lock # Nobody /\ UNCHANGED lock /\ Return(w, "conflict")
  /\ UNCHANGED <<revision, current>> /\ NoFault

Listable == \A r \in Revisions : revision[r] # Torn

(* Mutant of StateError: the orphan check asks for the candidate's own path only. *)
StateErrorIgnoringOrphans(w) ==
  CASE ~ Listable -> "read_error"
    [] Listable /\ current # expected[w] -> "conflict"
    [] Listable /\ current = expected[w] ->
         IF current # None /\ ~ ValidTransition(Selected, candidate[w]) THEN "invalid"
         ELSE IF Exists(candidate[w].calendar_revision) THEN "conflict" ELSE "none"

(* Mutant of StateError: the transition is not validated. *)
StateErrorWithoutTransition(w) ==
  CASE ~ Listable -> "read_error"
    [] Listable /\ current # expected[w] -> "conflict"
    [] Listable /\ current = expected[w] ->
         IF \E r \in Revisions : Exists(r) /\ (current = None \/ r > current) THEN "integrity" ELSE "none"

(* _validate_write_state with its exceptions in the order of the code. *)
StateError(w) ==
  LET own == candidate[w]
  IN CASE ~ Listable -> "read_error"
       [] Listable /\ expected[w] = None ->
            IF current # None THEN "conflict"
            ELSE IF \E r \in Revisions : Exists(r) THEN "integrity" ELSE "none"
       [] Listable /\ expected[w] # None ->
            IF current # expected[w] THEN "conflict"
            ELSE IF ~ ValidTransition(Selected, own) THEN "invalid"
            ELSE IF Exists(own.calendar_revision) THEN "conflict"
            ELSE IF \E r \in Revisions : r > current /\ Exists(r) THEN "integrity" ELSE "none"

ValidateWriteState(w) ==
  /\ pc[w] = "state"
  /\ IF StateError(w) = "none" THEN Goto(w, "create") ELSE Raise(w, StateError(w))
  /\ UNCHANGED store /\ NoFault

CreateRevision(w) ==
  /\ pc[w] = "create"
  /\ LET r == candidate[w].calendar_revision
     IN \/ ~ Exists(r) /\ revision' = [revision EXCEPT ![r] = Torn] /\ Goto(w, "fill")
        \/ Exists(r) /\ UNCHANGED revision /\ Raise(w, "conflict")
  /\ UNCHANGED <<lock, current>> /\ NoFault

(* Mutant of FillRevision: the file after the expected revision, as if numbers were never skipped. *)
FillRevisionAtNext(w) ==
  /\ pc[w] = "fill"
  /\ revision' = [revision EXCEPT ![IF expected[w] = None THEN 1 ELSE expected[w] + 1] = Complete(candidate[w])]
  /\ Goto(w, "verify")
  /\ UNCHANGED <<lock, current>> /\ NoFault

FillRevision(w) ==
  /\ pc[w] = "fill"
  /\ revision' = [revision EXCEPT ![candidate[w].calendar_revision] = Complete(candidate[w])]
  /\ Goto(w, "verify")
  /\ UNCHANGED <<lock, current>> /\ NoFault

RemoveRevision(w) == revision' = [revision EXCEPT ![candidate[w].calendar_revision] = Absent]

VerifyRevision(w) ==
  /\ pc[w] = "verify"
  /\ IF revision[candidate[w].calendar_revision] = Complete(candidate[w])
     THEN Goto(w, "publish") /\ UNCHANGED revision
     ELSE Raise(w, "write_error") /\ RemoveRevision(w)
  /\ UNCHANGED <<lock, current>> /\ NoFault

PublishPointer(w) ==
  /\ pc[w] = "publish"
  /\ current' = candidate[w].calendar_revision
  /\ Goto(w, "confirm")
  /\ UNCHANGED <<lock, revision>> /\ NoFault

ConfirmPointer(w) ==
  /\ pc[w] = "confirm"
  /\ Raise(w, IF Selected = candidate[w] THEN "selected" ELSE "integrity")
  /\ UNCHANGED store /\ NoFault

(* The finally block removes whatever lock file is there. *)
ReleaseLock(w) ==
  /\ pc[w] = "release"
  /\ lock' = Nobody
  /\ Return(w, outcome[w])
  /\ UNCHANGED <<revision, current>> /\ NoFault

-----------------------------------------------------------------------------
(* resolve_academic_period_ref with the current calendar: the pointer, then its revision. *)

Resolve(w) ==
  /\ pc[w] = "idle"
  /\ current # None
  /\ pc' = [pc EXCEPT ![w] = "load"]
  /\ expected' = [expected EXCEPT ![w] = current]
  /\ outcome' = [outcome EXCEPT ![w] = "none"]
  /\ UNCHANGED <<candidate, store>> /\ NoFault

LoadResolved(w) ==
  /\ pc[w] = "load"
  /\ Return(w, CASE revision[expected[w]].status = "complete" -> "resolved"
                 [] revision[expected[w]] = Torn -> "read_error"
                 [] OTHER -> "broken_pointer")
  /\ UNCHANGED store /\ NoFault

-----------------------------------------------------------------------------
(* File operations that fail, crashes, and the operator. *)

AcquireFails(w) ==
  /\ pc[w] = "acquire"
  /\ Return(w, "write_error")
  /\ UNCHANGED store /\ Fault

StateReadFails(w) ==
  /\ pc[w] = "state"
  /\ Raise(w, "read_error")
  /\ UNCHANGED store /\ Fault

(* What was created is removed, or stays when the removal fails too. *)
WriteFails(w) ==
  /\ pc[w] \in {"create", "fill", "verify"}
  /\ Raise(w, "write_error")
  /\ \/ UNCHANGED revision
     \/ pc[w] # "create" /\ RemoveRevision(w)
  /\ UNCHANGED <<lock, current>> /\ Fault

PublishFails(w) ==
  /\ pc[w] = "publish"
  /\ Raise(w, "write_error")
  /\ UNCHANGED store /\ Fault

(* Mutant of ConfirmFails: a pointer that cannot be confirmed is rolled back. *)
ConfirmFailsRemoving(w) ==
  /\ pc[w] = "confirm"
  /\ Raise(w, "integrity")
  /\ RemoveRevision(w)
  /\ UNCHANGED <<lock, current>> /\ Fault

ConfirmFails(w) ==
  /\ pc[w] = "confirm"
  /\ Raise(w, "integrity")
  /\ UNCHANGED store /\ Fault

ReleaseFails(w) ==
  /\ pc[w] = "release"
  /\ Return(w, outcome[w])
  /\ UNCHANGED store /\ Fault

Crash(w) ==
  /\ pc[w] # "idle"
  /\ Return(w, "none")
  /\ UNCHANGED store /\ Fault

InCriticalSection == {"state", "create", "fill", "verify", "publish", "confirm", "release"}

(* clear_registry_lock after the procedure of the recovery guide: its writer is gone. *)
ClearLock ==
  /\ lock # Nobody
  /\ pc[lock] \notin InCriticalSection
  /\ lock' = Nobody
  /\ UNCHANGED <<revision, current, call>> /\ NoFault

Step(w) ==
  \/ AcquireLock(w) \/ ValidateWriteState(w) \/ CreateRevision(w) \/ FillRevision(w)
  \/ VerifyRevision(w) \/ PublishPointer(w) \/ ConfirmPointer(w) \/ ReleaseLock(w) \/ LoadResolved(w)

FileError(w) ==
  \/ AcquireFails(w) \/ StateReadFails(w) \/ WriteFails(w) \/ PublishFails(w)
  \/ ConfirmFails(w) \/ ReleaseFails(w)

Next ==
  \/ \E w \in Writers :
       \/ \E calendar \in Calendars, r \in Revisions, previous \in Revisions \cup {None} :
            Write(w, calendar, r, previous)
       \/ Resolve(w) \/ Step(w) \/ FileError(w) \/ Crash(w)
  \/ ClearLock

Spec == Init /\ [][Next]_vars

-----------------------------------------------------------------------------
(* The calendar files that callers can write. *)
Documents ==
  [calendar_revision : Revisions, created_at : {c.created_at : c \in Calendars},
   updated_at : {c.updated_at : c \in Calendars}, periods : {c.periods : c \in Calendars}]

(* The types.  A complete file holds a calendar with the number of its path. *)
TypeOK ==
  /\ lock \in Writers \cup {Nobody}
  /\ current \in Revisions \cup {None}
  /\ DOMAIN revision = Revisions
  /\ \A r \in Revisions :
       /\ revision[r] \in {Absent, Torn, Complete(revision[r].content)}
       /\ revision[r].status = "complete" =>
            revision[r].content \in Documents /\ revision[r].content.calendar_revision = r
  /\ pc \in [Writers -> {"idle", "acquire", "load"} \cup InCriticalSection]
  /\ candidate \in [Writers -> Documents \cup {None}]
  /\ expected \in [Writers -> Revisions \cup {None}]
  /\ DOMAIN outcome = Writers
  /\ disturbances \in 0 .. MaxDisturbances

(***************************************************************************)
(* The revisions up to the pointer form one history: each is complete, and *)
(* follows the one before it, whatever the gap, by a valid transition.     *)
(***************************************************************************)
HistoryIsChained ==
  current # None =>
    /\ Exists(current)
    /\ \A r \in 1 .. current : revision[r] # Torn
    /\ \A a, b \in {r \in 1 .. current : Exists(r)} :
         a < b => ValidTransition(revision[a].content, revision[b].content)

(***************************************************************************)
(* A reference to a period of the selected calendar resolves in every      *)
(* calendar selected later, to a period of the same type.                  *)
(***************************************************************************)
ReferenceStep ==
  current # None =>
    /\ current' # None
    /\ \A p \in Selected.periods :
         \E q \in Selected'.periods : p.period_id = q.period_id /\ p.period_type = q.period_type

ReferencesStayResolvable == [][ReferenceStep]_vars

(***************************************************************************)
(* Something went wrong, a crash or a failing file operation, before       *)
(* anybody can meet an unselected revision that no running call owns.      *)
(***************************************************************************)
OrphanNeedsDisturbance ==
  (\E r \in Revisions :
     /\ Exists(r)
     /\ current = None \/ r > current
     /\ \A w \in Writers :
          pc[w] \in {"fill", "verify", "publish"} => candidate[w].calendar_revision # r)
  => disturbances > 0

(* A reader that finds a pointer finds the calendar it names, however late it looks. *)
ReadersFindCalendar == \A w \in Writers : outcome[w] # "broken_pointer"

(* A calendar that gets selected is a forest of periods on which the queries agree. *)
SelectedCalendarsAnswer ==
  \A w \in Writers : pc[w] = "confirm" => QueriesAgree(candidate[w].periods)
=============================================================================
