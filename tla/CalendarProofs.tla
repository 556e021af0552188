----------------------------- MODULE CalendarProofs -----------------------------
(***************************************************************************)
(* Theorems about CalendarStore: the inductive invariant and the           *)
(* properties it implies, for any number of processes, calendars,          *)
(* revisions and disturbances.                                             *)
(***************************************************************************)
EXTENDS CalendarInvariant, TLAPS

-----------------------------------------------------------------------------
(* Transitions and histories. *)

(* Files and documents, as the provers need them. *)
LEMMA DocumentFacts ==
  ASSUME NEW x \in Documents
  PROVE  /\ x.calendar_revision \in Nat /\ x.calendar_revision >= 1
         /\ x.calendar_revision \in Revisions
         /\ x.updated_at \in Nat
BY ConstantsAssumption DEF Documents, Revisions

(* A calendar may follow whatever the calendar it follows may follow. *)
LEMMA TransitionIsTransitive ==
  ASSUME NEW x \in Documents, NEW y \in Documents, NEW z \in Documents,
         ValidTransition(x, y), ValidTransition(y, z)
  PROVE  ValidTransition(x, z)
<1>1. \A p \in x.periods :
        \E q \in z.periods : q.period_id = p.period_id /\ q.period_type = p.period_type
  BY DEF ValidTransition
<1>. QED
  BY <1>1, DocumentFacts DEF ValidTransition

(* The selected history consists of complete files. *)
LEMMA HistoryIsComplete ==
  ASSUME TypeOK, HistoryIsChained, current # None, NEW r \in 1 .. current, Exists(r)
  PROVE  /\ r \in Revisions
         /\ revision[r] = Complete(revision[r].content)
         /\ revision[r].content \in Documents
<1>1. r \in Revisions
  BY ConstantsAssumption DEF TypeOK, Revisions
<1>2. revision[r] # Torn /\ revision[r] # Absent
  BY DEF HistoryIsChained, Exists
<1>3. revision[r] = Complete(revision[r].content)
  BY <1>1, <1>2 DEF TypeOK
<1>4. Complete(revision[r].content).status = "complete"
  BY DEF Complete
<1>. QED
  BY <1>1, <1>3, <1>4 DEF TypeOK

-----------------------------------------------------------------------------
(* Steps by kind. *)

(* Only the call of w moves. *)
OnlyCall(w) ==
  \A v \in Writers \ {w} :
    pc'[v] = pc[v] /\ candidate'[v] = candidate[v] /\ expected'[v] = expected[v] /\ outcome'[v] = outcome[v]

LEMMA CallMoves ==
  ASSUME TypeOK, NEW w \in Writers
  PROVE  /\ \A phase : Goto(w, phase) =>
              /\ OnlyCall(w) /\ pc'[w] = phase
              /\ candidate' = candidate /\ expected' = expected /\ outcome' = outcome
         /\ \A kind : Raise(w, kind) =>
              /\ OnlyCall(w) /\ pc'[w] = "release" /\ outcome'[w] = kind
              /\ candidate' = candidate /\ expected' = expected
         /\ \A kind : Return(w, kind) =>
              OnlyCall(w) /\ pc'[w] = "idle" /\ outcome'[w] = kind
BY DEF TypeOK, Goto, Raise, Return, OnlyCall

(* The types of what a call moves to. *)
LEMMA CallTypes ==
  ASSUME TypeOK, NEW w \in Writers,
         UNCHANGED disturbances \/ Fault,
         \/ \E phase \in {"idle", "acquire", "load"} \cup InCriticalSection : Goto(w, phase)
         \/ \E kind : Raise(w, kind)
         \/ \E kind : Return(w, kind)
  PROVE  /\ pc' \in [Writers -> {"idle", "acquire", "load"} \cup InCriticalSection]
         /\ candidate' \in [Writers -> Documents \cup {None}]
         /\ expected' \in [Writers -> Revisions \cup {None}]
         /\ DOMAIN outcome' = Writers
         /\ disturbances' \in 0 .. MaxDisturbances
         /\ UNCHANGED disturbances \/ disturbances' > 0
<1>1. disturbances' \in 0 .. MaxDisturbances /\ (UNCHANGED disturbances \/ disturbances' > 0)
  BY ConstantsAssumption DEF TypeOK, Fault
<1>2. CASE \E phase \in {"idle", "acquire", "load"} \cup InCriticalSection : Goto(w, phase)
  BY <1>1, <1>2 DEF TypeOK, Goto
<1>3. CASE \E kind : Raise(w, kind)
  BY <1>1, <1>3 DEF TypeOK, Raise, InCriticalSection
<1>4. CASE \E kind : Return(w, kind)
  BY <1>1, <1>4 DEF TypeOK, Return
<1>. QED
  BY <1>2, <1>3, <1>4

(* A step of a call that touches no file. *)
LEMMA QuietStep ==
  ASSUME CalendarInv, NEW w \in Writers, UNCHANGED store, OnlyCall(w), TypeOK', CallInv(w)',
         outcome'[w] # "broken_pointer",
         pc'[w] \in InCriticalSection => pc[w] \in InCriticalSection,
         \/ disturbances' > 0
         \/ disturbances' = disturbances /\ (Owns(w) => Owns(w)' /\ candidate'[w] = candidate[w])
  PROVE  CalendarInv'
<1>. USE DEF CalendarInv, store
<1>1. HistoryIsChained'
  BY DEF HistoryIsChained, Exists
<1>2. ReadersFindCalendar'
  BY DEF ReadersFindCalendar, OnlyCall
<1>3. MutualExclusion'
  BY DEF MutualExclusion, OnlyCall
<1>4. ASSUME NEW v \in Writers PROVE CallInv(v)'
  <2>1. CASE v = w
    BY <2>1
  <2>2. CASE v # w
    BY <2>2 DEF OnlyCall, CallInv, RequestFits, Continues, FileFits, ReadsHistory, Owns, Own, Exists,
      Unselected, Selected
  <2>. QED
    BY <2>1, <2>2
<1>5. OrphanNeedsDisturbance'
  <2>1. CASE disturbances' > 0
    BY <2>1 DEF OrphanNeedsDisturbance
  <2>2. CASE disturbances' = disturbances /\ (Owns(w) => Owns(w)' /\ candidate'[w] = candidate[w])
    <3>1. \A v \in Writers : Owns(v) => Owns(v)' /\ candidate'[v] = candidate[v]
      BY <2>2 DEF OnlyCall, Owns
    <3>. QED
      BY <2>2, <3>1 DEF OrphanNeedsDisturbance, Owns, Exists
  <2>. QED
    BY <2>1, <2>2
<1>. QED
  BY <1>1, <1>2, <1>3, <1>4, <1>5

-----------------------------------------------------------------------------
(* The steps that touch no file. *)

LEMMA InitialInv == Init => CalendarInv
<1>. SUFFICES ASSUME Init
              PROVE  CalendarInv
  OBVIOUS
<1>1. TypeOK
  BY ConstantsAssumption DEF Init, TypeOK, Absent
<1>2. ~ \E r \in Revisions : Exists(r)
  BY DEF Init, Exists
<1>. QED
  BY <1>1, <1>2 DEF Init, CalendarInv, HistoryIsChained, OrphanNeedsDisturbance, ReadersFindCalendar,
    MutualExclusion, InCriticalSection, CallInv, RequestFits, Continues, FileFits, ReadsHistory

(* A call that is idle or waits for the lock has nothing to keep. *)
LEMMA RestingCall ==
  ASSUME NEW w \in Writers, pc[w] = "idle"
  PROVE  CallInv(w)
BY DEF CallInv, RequestFits, Continues, FileFits, ReadsHistory

LEMMA WriteInv ==
  ASSUME CalendarInv, NEW w \in Writers, NEW calendar \in Calendars, NEW r \in Revisions,
         NEW previous \in Revisions \cup {None}, Write(w, calendar, r, previous)
  PROVE  CalendarInv'
<1>. DEFINE request == [calendar_revision |-> r, created_at |-> calendar.created_at,
                        updated_at |-> calendar.updated_at, periods |-> calendar.periods]
<1>1. request \in Documents
  BY DEF Documents
<1>2. /\ pc' = [pc EXCEPT ![w] = "acquire"] /\ candidate' = [candidate EXCEPT ![w] = request]
      /\ expected' = [expected EXCEPT ![w] = previous] /\ outcome' = [outcome EXCEPT ![w] = "none"]
      /\ disturbances' = disturbances /\ UNCHANGED store /\ pc[w] = "idle"
      /\ previous = None => r = 1
  BY DEF Write, NoFault
<1>. HIDE DEF request
<1>3. TypeOK'
  BY <1>1, <1>2 DEF CalendarInv, TypeOK, store
<1>4. /\ OnlyCall(w) /\ pc'[w] = "acquire" /\ candidate'[w] = request /\ expected'[w] = previous
      /\ outcome'[w] = "none"
  BY <1>2 DEF CalendarInv, TypeOK, OnlyCall
<1>5. request.calendar_revision = r
  BY DEF request
<1>6. CallInv(w)'
  BY <1>1, <1>2, <1>4, <1>5 DEF CallInv, RequestFits, Continues, FileFits, ReadsHistory, Own
<1>. QED
  BY <1>2, <1>3, <1>4, <1>6, QuietStep DEF InCriticalSection, Owns

(* What _validate_write_state answers. *)
LEMMA StateErrors ==
  ASSUME NEW w \in Writers
  PROVE  /\ StateError(w) # "broken_pointer"
         /\ StateError(w) = "none" =>
              /\ \A r \in Revisions : revision[r] # Torn
              /\ current = expected[w]
              /\ current # None => ValidTransition(Selected, candidate[w])
              /\ \A r \in Revisions : ~ Unselected(r)
<1>1. CASE ~ Listable
  BY <1>1 DEF StateError
<1>2. CASE Listable /\ expected[w] = None
  <2>1. StateError(w) = IF current # None THEN "conflict"
                        ELSE IF \E r \in Revisions : Exists(r) THEN "integrity" ELSE "none"
    BY <1>2 DEF StateError
  <2>. QED
    BY <1>2, <2>1 DEF Listable, Unselected
<1>3. CASE Listable /\ expected[w] # None
  <2>1. StateError(w) =
          IF current # expected[w] THEN "conflict"
          ELSE IF ~ ValidTransition(Selected, candidate[w]) THEN "invalid"
          ELSE IF Exists(Own(w)) THEN "conflict"
          ELSE IF \E r \in Revisions : r > current /\ Exists(r) THEN "integrity" ELSE "none"
    BY <1>3 DEF StateError, Own
  <2>. QED
    BY <1>3, <2>1 DEF Listable, Unselected
<1>. QED
  BY <1>1, <1>2, <1>3

LEMMA ValidateWriteStateInv ==
  ASSUME CalendarInv, NEW w \in Writers, ValidateWriteState(w)
  PROVE  CalendarInv'
<1>1. /\ pc[w] = "state" /\ UNCHANGED store /\ UNCHANGED disturbances
      /\ Goto(w, "create") \/ Raise(w, StateError(w))
      /\ Goto(w, "create") => StateError(w) = "none"
  <2>1. pc'[w] = "create" => StateError(w) = "none"
    BY CallMoves DEF ValidateWriteState, CalendarInv
  <2>. QED
    BY <2>1, CallMoves DEF ValidateWriteState, NoFault, CalendarInv
<1>2. TypeOK'
  BY <1>1, CallTypes DEF CalendarInv, TypeOK, store, InCriticalSection
<1>3. CASE Goto(w, "create")
  <2>1. OnlyCall(w) /\ pc'[w] = "create" /\ candidate' = candidate /\ expected' = expected /\ outcome' = outcome
    BY <1>3, CallMoves DEF CalendarInv
  <2>2. CallInv(w)'
    BY <1>1, <1>3, <2>1, StateErrors DEF CalendarInv, CallInv, RequestFits, Continues, FileFits, ReadsHistory, Own,
      store, Selected, Unselected, Exists
  <2>. QED
    BY <1>1, <1>2, <2>1, <2>2, QuietStep DEF InCriticalSection, Owns, CalendarInv, ReadersFindCalendar
<1>4. CASE Raise(w, StateError(w))
  <2>1. OnlyCall(w) /\ pc'[w] = "release" /\ candidate' = candidate /\ expected' = expected
        /\ outcome'[w] = StateError(w)
    BY <1>4, CallMoves DEF CalendarInv
  <2>2. CallInv(w)'
    BY <1>1, <2>1 DEF CalendarInv, CallInv, RequestFits, Continues, FileFits, ReadsHistory, Own
  <2>. QED
    BY <1>1, <1>2, <2>1, <2>2, StateErrors, QuietStep DEF InCriticalSection, Owns
<1>. QED
  BY <1>1, <1>3, <1>4

(* A call that raises or returns where it has nothing to keep. *)
LEMMA RaisingStep ==
  ASSUME CalendarInv, NEW w \in Writers, UNCHANGED store, UNCHANGED disturbances \/ Fault,
         NEW kind, kind # "broken_pointer", Raise(w, kind), pc[w] \in InCriticalSection,
         UNCHANGED disturbances => ~ Owns(w)
  PROVE  CalendarInv'
<1>1. TypeOK'
  BY CallTypes DEF CalendarInv, TypeOK, store
<1>2. OnlyCall(w) /\ pc'[w] = "release" /\ candidate' = candidate /\ expected' = expected /\ outcome'[w] = kind
  BY CallMoves DEF CalendarInv
<1>3. CallInv(w)'
  BY <1>2 DEF CalendarInv, CallInv, RequestFits, Continues, FileFits, ReadsHistory, Own, InCriticalSection
<1>4. UNCHANGED disturbances \/ disturbances' > 0
  BY CallTypes DEF CalendarInv
<1>. QED
  BY <1>1, <1>2, <1>3, <1>4, QuietStep

LEMMA ReturningStep ==
  ASSUME CalendarInv, NEW w \in Writers, UNCHANGED store, UNCHANGED disturbances \/ Fault,
         NEW kind, kind # "broken_pointer", Return(w, kind),
         UNCHANGED disturbances => ~ Owns(w)
  PROVE  CalendarInv'
<1>1. TypeOK'
  BY CallTypes DEF CalendarInv, TypeOK, store
<1>2. OnlyCall(w) /\ pc'[w] = "idle" /\ outcome'[w] = kind
  BY CallMoves DEF CalendarInv
<1>3. CallInv(w)'
  BY <1>2 DEF CallInv, RequestFits, Continues, FileFits, ReadsHistory
<1>4. UNCHANGED disturbances \/ disturbances' > 0
  BY CallTypes DEF CalendarInv
<1>. QED
  BY <1>1, <1>2, <1>3, <1>4, QuietStep DEF InCriticalSection

LEMMA ConfirmPointerInv ==
  ASSUME CalendarInv, NEW w \in Writers, ConfirmPointer(w)
  PROVE  CalendarInv'
<1>1. PICK kind \in {"selected", "integrity"} : Raise(w, kind)
  BY DEF ConfirmPointer
<1>. QED
  BY <1>1, RaisingStep DEF ConfirmPointer, InCriticalSection, NoFault, Owns

LEMMA ResolveInv ==
  ASSUME CalendarInv, NEW w \in Writers, Resolve(w)
  PROVE  CalendarInv'
<1>1. /\ pc' = [pc EXCEPT ![w] = "load"] /\ expected' = [expected EXCEPT ![w] = current]
      /\ outcome' = [outcome EXCEPT ![w] = "none"] /\ candidate' = candidate
      /\ UNCHANGED store /\ disturbances' = disturbances /\ current # None /\ pc[w] = "idle"
  BY DEF Resolve, NoFault
<1>2. TypeOK'
  BY <1>1 DEF CalendarInv, TypeOK, store
<1>3. OnlyCall(w) /\ pc'[w] = "load" /\ expected'[w] = current /\ outcome'[w] = "none"
  BY <1>1 DEF CalendarInv, TypeOK, OnlyCall
<1>4. current \in Nat /\ Exists(current)
  BY <1>1 DEF CalendarInv, TypeOK, Revisions, HistoryIsChained
<1>5. CallInv(w)'
  BY <1>1, <1>3, <1>4 DEF CallInv, RequestFits, Continues, FileFits, ReadsHistory, store, Exists
<1>. QED
  BY <1>1, <1>2, <1>3, <1>5, QuietStep DEF InCriticalSection, Owns

LEMMA LoadResolvedInv ==
  ASSUME CalendarInv, NEW w \in Writers, LoadResolved(w)
  PROVE  CalendarInv'
<1>1. pc[w] = "load" /\ UNCHANGED store /\ UNCHANGED disturbances
  BY DEF LoadResolved, NoFault
<1>2. current # None /\ expected[w] \in 1 .. current /\ Exists(expected[w])
  BY <1>1 DEF CalendarInv, CallInv, ReadsHistory, TypeOK, Revisions
<1>3. revision[expected[w]] = Complete(revision[expected[w]].content)
  BY <1>2, HistoryIsComplete DEF CalendarInv
<1>4. revision[expected[w]].status = "complete" /\ revision[expected[w]] # Torn
  BY <1>3 DEF Complete, Torn
<1>5. Return(w, "resolved")
  BY <1>4 DEF LoadResolved
<1>. QED
  BY <1>1, <1>5, ReturningStep DEF Owns

(* Failures that touch no file. *)
LEMMA PlainFaultInv ==
  ASSUME CalendarInv, NEW w \in Writers,
         \/ AcquireFails(w) \/ StateReadFails(w) \/ PublishFails(w) \/ ConfirmFails(w)
         \/ ReleaseFails(w) \/ Crash(w)
  PROVE  CalendarInv'
<1>1. disturbances' # disturbances
  BY DEF AcquireFails, StateReadFails, PublishFails, ConfirmFails, ReleaseFails, Crash, Fault, CalendarInv, TypeOK
<1>2. CASE AcquireFails(w) \/ Crash(w)
  <2>1. PICK kind \in {"write_error", "none"} : Return(w, kind)
    BY <1>2 DEF AcquireFails, Crash
  <2>. QED
    BY <1>1, <1>2, <2>1, ReturningStep DEF AcquireFails, Crash
<1>3. CASE ReleaseFails(w)
  BY <1>1, <1>3, ReturningStep DEF ReleaseFails, CalendarInv, ReadersFindCalendar
<1>4. CASE StateReadFails(w) \/ PublishFails(w) \/ ConfirmFails(w)
  <2>1. PICK kind \in {"write_error", "read_error", "integrity"} : Raise(w, kind)
    BY <1>4 DEF StateReadFails, PublishFails, ConfirmFails
  <2>. QED
    BY <1>1, <1>4, <2>1, RaisingStep DEF StateReadFails, PublishFails, ConfirmFails, InCriticalSection
<1>. QED
  BY <1>2, <1>3, <1>4

-----------------------------------------------------------------------------
(* The lock. *)

LEMMA HolderIsAlone ==
  ASSUME MutualExclusion, NEW v \in Writers, NEW w \in Writers,
         pc[v] \in InCriticalSection, pc[w] \in InCriticalSection
  PROVE  v = w
BY DEF MutualExclusion

(* What does not depend on the lock stays when only the lock and w's call move, which owns no file. *)
LEMMA LockStep ==
  ASSUME CalendarInv, UNCHANGED <<revision, current, disturbances>>, TypeOK', MutualExclusion',
         \A v \in Writers : Owns(v) => Owns(v)' /\ candidate'[v] = candidate[v],
         \A v \in Writers : CallInv(v)' /\ outcome'[v] # "broken_pointer"
  PROVE  CalendarInv'
<1>1. HistoryIsChained'
  BY DEF CalendarInv, HistoryIsChained, Exists
<1>2. OrphanNeedsDisturbance'
  BY DEF CalendarInv, OrphanNeedsDisturbance, Owns, Exists
<1>. QED
  BY <1>1, <1>2 DEF CalendarInv, ReadersFindCalendar

LEMMA OtherCalls ==
  ASSUME CalendarInv, NEW w \in Writers, NEW v \in Writers, v # w, OnlyCall(w), UNCHANGED <<revision, current>>
  PROVE  CallInv(v)' /\ outcome'[v] # "broken_pointer"
BY DEF CalendarInv, OnlyCall, CallInv, RequestFits, Continues, FileFits, ReadsHistory, Owns, Own, Exists,
  Unselected, Selected, ReadersFindCalendar

LEMMA AcquireLockInv ==
  ASSUME CalendarInv, NEW w \in Writers, AcquireLock(w)
  PROVE  CalendarInv'
<1>1. CASE lock = Nobody /\ lock' = w /\ Goto(w, "state")
  <2>1. pc[w] = "acquire" /\ UNCHANGED <<revision, current, disturbances>>
    BY DEF AcquireLock, NoFault
  <2>2. OnlyCall(w) /\ pc'[w] = "state" /\ candidate' = candidate /\ expected' = expected /\ outcome' = outcome
    BY <1>1, CallMoves DEF CalendarInv
  <2>3. TypeOK'
    BY <1>1, <2>1, CallTypes DEF CalendarInv, TypeOK, InCriticalSection
  <2>4. \A v \in Writers : pc[v] \notin InCriticalSection
    BY <1>1, ConstantsAssumption DEF CalendarInv, MutualExclusion
  <2>5. MutualExclusion'
    BY <1>1, <2>2, <2>4 DEF MutualExclusion, OnlyCall
  <2>6. CallInv(w)' /\ outcome'[w] # "broken_pointer"
    BY <2>1, <2>2 DEF CalendarInv, CallInv, RequestFits, Continues, FileFits, ReadsHistory, Own, ReadersFindCalendar
  <2>7. \A v \in Writers : ~ Owns(v)
    BY <2>4 DEF Owns, InCriticalSection
  <2>8. \A v \in Writers : CallInv(v)' /\ outcome'[v] # "broken_pointer"
    BY <2>1, <2>2, <2>6, OtherCalls
  <2>. QED
    BY <2>1, <2>3, <2>5, <2>7, <2>8, LockStep
<1>2. CASE lock # Nobody /\ UNCHANGED lock /\ Return(w, "conflict")
  BY <1>2, ReturningStep DEF AcquireLock, store, NoFault, Owns
<1>. QED
  BY <1>1, <1>2 DEF AcquireLock

LEMMA ReleaseLockInv ==
  ASSUME CalendarInv, NEW w \in Writers, ReleaseLock(w)
  PROVE  CalendarInv'
<1>1. pc[w] = "release" /\ lock' = Nobody /\ UNCHANGED <<revision, current, disturbances>> /\ Return(w, outcome[w])
  BY DEF ReleaseLock, NoFault
<1>2. OnlyCall(w) /\ pc'[w] = "idle" /\ outcome'[w] = outcome[w]
  BY <1>1, CallMoves DEF CalendarInv
<1>3. TypeOK'
  BY <1>1, CallTypes DEF CalendarInv, TypeOK
<1>4. \A v \in Writers : v # w => pc[v] \notin InCriticalSection
  BY <1>1, HolderIsAlone DEF CalendarInv, InCriticalSection
<1>5. MutualExclusion'
  BY <1>2, <1>4 DEF MutualExclusion, OnlyCall, InCriticalSection
<1>6. CallInv(w)' /\ outcome'[w] # "broken_pointer"
  BY <1>2 DEF CalendarInv, CallInv, RequestFits, Continues, FileFits, ReadsHistory, ReadersFindCalendar
<1>7. \A v \in Writers : ~ Owns(v)
  BY <1>1, <1>4 DEF Owns, InCriticalSection
<1>8. \A v \in Writers : CallInv(v)' /\ outcome'[v] # "broken_pointer"
  BY <1>1, <1>2, <1>6, OtherCalls
<1>. QED
  BY <1>1, <1>3, <1>5, <1>7, <1>8, LockStep

LEMMA ClearLockInv ==
  ASSUME CalendarInv, ClearLock
  PROVE  CalendarInv'
<1>1. /\ lock \in Writers /\ pc[lock] \notin InCriticalSection /\ lock' = Nobody
      /\ UNCHANGED <<revision, current, disturbances>>
      /\ pc' = pc /\ candidate' = candidate /\ expected' = expected /\ outcome' = outcome
  BY DEF ClearLock, CalendarInv, TypeOK, call, NoFault
<1>2. TypeOK'
  BY <1>1 DEF CalendarInv, TypeOK
<1>3. MutualExclusion'
  BY <1>1 DEF CalendarInv, MutualExclusion
<1>4. \A v \in Writers : CallInv(v)' /\ outcome'[v] # "broken_pointer"
  BY <1>1 DEF CalendarInv, CallInv, RequestFits, Continues, FileFits, ReadsHistory, Owns, Own, Exists,
    Unselected, Selected, ReadersFindCalendar
<1>. QED
  BY <1>1, <1>2, <1>3, <1>4, LockStep DEF Owns

-----------------------------------------------------------------------------
(* The steps of the lock's holder that change files. *)

(* The history stays when the files up to the pointer do. *)
LEMMA HistoryStays ==
  ASSUME TypeOK, HistoryIsChained, UNCHANGED current,
         current # None => \A r \in 1 .. current : revision'[r] = revision[r]
  PROVE  HistoryIsChained'
<1>1. CASE current = None
  BY <1>1 DEF HistoryIsChained
<1>2. CASE current # None
  <2>1. current \in 1 .. current
    BY <1>2 DEF TypeOK, Revisions
  <2>2. \A r \in 1 .. current : revision'[r] = revision[r]
    BY <1>2
  <2>3. {r \in 1 .. current : Exists(r)'} = {r \in 1 .. current : Exists(r)}
    BY <2>2 DEF Exists
  <2>4. Exists(current)' /\ \A r \in 1 .. current : revision'[r] # Torn
    BY <1>2, <2>1, <2>2 DEF HistoryIsChained, Exists
  <2>5. \A a, b \in {r \in 1 .. current : Exists(r)} :
          a < b => ValidTransition(revision'[a].content, revision'[b].content)
    BY <1>2, <2>2 DEF HistoryIsChained
  <2>. QED
    BY <2>3, <2>4, <2>5 DEF HistoryIsChained
<1>. QED
  BY <1>1, <1>2

LEMMA HolderStep ==
  ASSUME CalendarInv, NEW w \in Writers, pc[w] \in InCriticalSection, OnlyCall(w), UNCHANGED lock,
         TypeOK', HistoryIsChained', OrphanNeedsDisturbance', CallInv(w)', outcome'[w] # "broken_pointer",
         current # None =>
           /\ current' # None /\ current <= current'
           /\ \A r \in 1 .. current : Exists(r) => Exists(r)'
  PROVE  CalendarInv'
<1>1. \A v \in Writers : v # w => pc[v] \notin InCriticalSection
  BY HolderIsAlone DEF CalendarInv
<1>2. MutualExclusion'
  BY <1>1 DEF CalendarInv, MutualExclusion, OnlyCall
<1>3. ReadersFindCalendar'
  BY DEF CalendarInv, ReadersFindCalendar, OnlyCall
<1>4. ASSUME NEW v \in Writers, v # w PROVE CallInv(v)'
  <2>1. pc'[v] = pc[v] /\ candidate'[v] = candidate[v] /\ expected'[v] = expected[v]
    BY <1>4 DEF OnlyCall
  <2>2. RequestFits(v)' /\ Continues(v)' /\ FileFits(v)'
    BY <1>1, <1>4, <2>1 DEF CalendarInv, CallInv, RequestFits, Continues, FileFits, Own, InCriticalSection
  <2>3. ASSUME pc[v] = "load"
        PROVE  /\ expected[v] # None /\ current' # None
               /\ expected[v] <= current' /\ Exists(expected[v])'
    <3>1. /\ expected[v] # None /\ current # None
          /\ expected[v] <= current /\ Exists(expected[v])
      BY <2>3 DEF CalendarInv, CallInv, ReadsHistory
    <3>2. expected[v] \in Nat /\ expected[v] >= 1 /\ current \in Nat /\ current' \in Nat
      BY <3>1 DEF CalendarInv, TypeOK, Revisions
    <3>3. \A r \in 1 .. current : Exists(r) => revision'[r] # Absent
      BY <3>1 DEF Exists
    <3>. QED
      BY <2>1, <3>1, <3>2, <3>3 DEF Exists
  <2>4. ReadsHistory(v)'
    BY <2>1, <2>3 DEF ReadsHistory, Exists
  <2>. QED
    BY <2>2, <2>4 DEF CallInv
<1>. QED
  BY <1>2, <1>3, <1>4 DEF CalendarInv

(* The path of a call that validated lies above the pointer. *)
LEMMA OwnIsAbove ==
  ASSUME CalendarInv, NEW w \in Writers, pc[w] \in {"create", "fill", "verify", "publish"}
  PROVE  /\ candidate[w] \in Documents /\ Own(w) \in Revisions
         /\ current # None => current \in Nat /\ Own(w) > current
<1>1. candidate[w] \in Documents
  BY DEF CalendarInv, CallInv, RequestFits
<1>2. Own(w) \in Revisions
  BY <1>1, DocumentFacts DEF Own
<1>3. ASSUME current # None
      PROVE  current \in Nat /\ Own(w) > current
  <2>1. current \in 1 .. current /\ current \in Nat
    BY <1>3 DEF CalendarInv, TypeOK, Revisions
  <2>2. Exists(current)
    BY <1>3 DEF CalendarInv, HistoryIsChained
  <2>3. revision[current] = Complete(Selected)
    BY <1>3, <2>1, <2>2, HistoryIsComplete DEF CalendarInv, Selected
  <2>4. current \in Revisions
    BY <1>3 DEF CalendarInv, TypeOK
  <2>5. Selected.calendar_revision = current
    BY <2>3, <2>4 DEF CalendarInv, TypeOK, Complete, Selected
  <2>. QED
    BY <1>3, <2>1, <2>5 DEF CalendarInv, CallInv, Continues, ValidTransition, Own
<1>. QED
  BY <1>1, <1>2, <1>3

(* Such a step on the call's own file disturbs no selected one. *)
LEMMA OwnFileStep ==
  ASSUME CalendarInv, NEW w \in Writers, pc[w] \in {"create", "fill", "verify", "publish"},
         NEW file, UNCHANGED current, revision' = [revision EXCEPT ![Own(w)] = file]
  PROVE  /\ HistoryIsChained'
         /\ revision'[Own(w)] = file
         /\ \A r \in Revisions : r # Own(w) => revision'[r] = revision[r]
         /\ current # None =>
              /\ current' # None /\ current <= current'
              /\ \A r \in 1 .. current : Exists(r) => Exists(r)'
              /\ Selected' = Selected
<1>1. /\ revision'[Own(w)] = file
      /\ \A r \in Revisions : r # Own(w) => revision'[r] = revision[r]
  BY OwnIsAbove DEF CalendarInv, TypeOK
<1>2. current # None => current \in Revisions /\ \A r \in 1 .. current : revision'[r] = revision[r]
  BY <1>1, OwnIsAbove DEF CalendarInv, TypeOK, Revisions
<1>3. current # None => current <= current
  BY <1>2 DEF Revisions
<1>4. HistoryIsChained'
  BY <1>2, HistoryStays DEF CalendarInv
<1>5. ASSUME current # None
      PROVE  /\ \A r \in 1 .. current : Exists(r) => Exists(r)'
             /\ Selected' = Selected
  <2>1. current \in 1 .. current
    BY <1>2, <1>5 DEF Revisions
  <2>. QED
    BY <1>2, <1>5, <2>1 DEF Exists, Selected
<1>. QED
  BY <1>1, <1>3, <1>4, <1>5

(* The only unselected file there may be is the holder's own. *)
LEMMA HolderHasNoOrphan ==
  ASSUME NEW w \in Writers, Continues(w)', Owns(w)' \/ pc'[w] = "create"
  PROVE  OrphanNeedsDisturbance'
BY DEF Continues, Owns, Own, Unselected, OrphanNeedsDisturbance, Exists

LEMMA CreateRevisionInv ==
  ASSUME CalendarInv, NEW w \in Writers, CreateRevision(w)
  PROVE  CalendarInv'
<1>1. pc[w] = "create" /\ UNCHANGED <<lock, current, disturbances>>
  BY DEF CreateRevision, NoFault
<1>2. ~ Exists(Own(w))
  BY <1>1, OwnIsAbove DEF CalendarInv, CallInv, Continues, Unselected, Owns
<1>3. revision' = [revision EXCEPT ![Own(w)] = Torn] /\ Goto(w, "fill")
  BY <1>2 DEF CreateRevision, Own
<1>4. OnlyCall(w) /\ pc'[w] = "fill" /\ candidate' = candidate /\ expected' = expected /\ outcome' = outcome
  BY <1>3, CallMoves DEF CalendarInv
<1>5. /\ HistoryIsChained'
      /\ revision'[Own(w)] = Torn
      /\ \A r \in Revisions : r # Own(w) => revision'[r] = revision[r]
      /\ current # None =>
           /\ current' # None /\ current <= current'
           /\ \A r \in 1 .. current : Exists(r) => Exists(r)'
           /\ Selected' = Selected
  BY <1>1, <1>3, OwnFileStep
<1>6. TypeOK'
  BY <1>1, <1>3, <1>5, CallTypes DEF CalendarInv, TypeOK, InCriticalSection, Torn
<1>7. CallInv(w)'
  <2>1. \A r \in Revisions : Unselected(r)' => r = Own(w)
    BY <1>1, <1>5 DEF Unselected, Exists, CalendarInv, CallInv, Continues, Owns
  <2>2. current = expected[w] /\ (current # None => ValidTransition(Selected, candidate[w]))
    BY <1>1 DEF CalendarInv, CallInv, Continues
  <2>3. Continues(w)'
    BY <1>1, <1>4, <1>5, <2>1, <2>2 DEF Continues, Owns, Own, Unselected, Exists
  <2>. QED
    BY <1>1, <1>4, <1>5, <2>3 DEF CalendarInv, CallInv, RequestFits, FileFits, ReadsHistory, Own
<1>8. OrphanNeedsDisturbance'
  BY <1>4, <1>7, HolderHasNoOrphan DEF CallInv, Owns
<1>. QED
  BY <1>1, <1>4, <1>5, <1>6, <1>7, <1>8, HolderStep DEF InCriticalSection, CalendarInv, ReadersFindCalendar

LEMMA FillRevisionInv ==
  ASSUME CalendarInv, NEW w \in Writers, FillRevision(w)
  PROVE  CalendarInv'
<1>1. /\ pc[w] = "fill" /\ UNCHANGED <<lock, current, disturbances>> /\ Goto(w, "verify")
      /\ revision' = [revision EXCEPT ![Own(w)] = Complete(candidate[w])]
  BY DEF FillRevision, NoFault, Own
<1>2. OnlyCall(w) /\ pc'[w] = "verify" /\ candidate' = candidate /\ expected' = expected /\ outcome' = outcome
  BY <1>1, CallMoves DEF CalendarInv
<1>3. /\ HistoryIsChained'
      /\ revision'[Own(w)] = Complete(candidate[w])
      /\ \A r \in Revisions : r # Own(w) => revision'[r] = revision[r]
      /\ current # None =>
           /\ current' # None /\ current <= current'
           /\ \A r \in 1 .. current : Exists(r) => Exists(r)'
           /\ Selected' = Selected
  BY <1>1, OwnFileStep
<1>4. candidate[w] \in Documents /\ Own(w) \in Revisions
  BY <1>1, OwnIsAbove
<1>5. TypeOK'
  <2>1. \A r \in Revisions :
          /\ revision'[r] \in {Absent, Torn, Complete(revision'[r].content)}
          /\ revision'[r].status = "complete" =>
               revision'[r].content \in Documents /\ revision'[r].content.calendar_revision = r
    BY <1>3, <1>4 DEF CalendarInv, TypeOK, Complete, Own
  <2>. QED
    BY <1>1, <2>1, CallTypes DEF CalendarInv, TypeOK, InCriticalSection
<1>6. CallInv(w)'
  <2>1. \A r \in Revisions : Unselected(r)' => r = Own(w)
    BY <1>1, <1>3 DEF Unselected, Exists, CalendarInv, CallInv, Continues, Owns
  <2>2. current = expected[w] /\ (current # None => ValidTransition(Selected, candidate[w]))
    BY <1>1 DEF CalendarInv, CallInv, Continues
  <2>3. Continues(w)'
    BY <1>1, <1>2, <1>3, <2>1, <2>2 DEF Continues, Owns, Own, Unselected, Exists
  <2>. QED
    BY <1>1, <1>2, <1>3, <2>3 DEF CalendarInv, CallInv, RequestFits, FileFits, ReadsHistory, Own
<1>7. OrphanNeedsDisturbance'
  BY <1>2, <1>6, HolderHasNoOrphan DEF CallInv, Owns
<1>. QED
  BY <1>1, <1>2, <1>3, <1>5, <1>6, <1>7, HolderStep DEF InCriticalSection, CalendarInv, ReadersFindCalendar

LEMMA VerifyRevisionInv ==
  ASSUME CalendarInv, NEW w \in Writers, VerifyRevision(w)
  PROVE  CalendarInv'
<1>1. pc[w] = "verify" /\ revision[Own(w)] = Complete(candidate[w])
  BY DEF VerifyRevision, CalendarInv, CallInv, FileFits
<1>2. Goto(w, "publish") /\ UNCHANGED store /\ UNCHANGED disturbances
  BY <1>1 DEF VerifyRevision, NoFault, Own, store
<1>3. OnlyCall(w) /\ pc'[w] = "publish" /\ candidate' = candidate /\ expected' = expected /\ outcome' = outcome
  BY <1>2, CallMoves DEF CalendarInv
<1>4. TypeOK'
  BY <1>2, CallTypes DEF CalendarInv, TypeOK, store, InCriticalSection
<1>5. CallInv(w)'
  BY <1>1, <1>2, <1>3 DEF CalendarInv, CallInv, RequestFits, Continues, FileFits, ReadsHistory, Own, Owns,
    store, Selected, Unselected, Exists
<1>. QED
  BY <1>1, <1>2, <1>3, <1>4, <1>5, QuietStep DEF InCriticalSection, Owns, CalendarInv, ReadersFindCalendar

(***************************************************************************)
(* The pointer passes over a gap: what is between the old revision and the *)
(* new one does not exist, and what is below follows up to the old one.    *)
(***************************************************************************)
LEMMA PublishedHistory ==
  ASSUME CalendarInv, NEW w \in Writers, PublishPointer(w)
  PROVE  HistoryIsChained' /\ \A r \in Revisions : ~ Unselected(r)'
<1>1. pc[w] = "publish" /\ UNCHANGED revision /\ current' = Own(w)
  BY DEF PublishPointer, Own
<1>2. candidate[w] \in Documents /\ Own(w) \in Revisions /\ Own(w) \in Nat
      /\ (current # None => current \in Nat /\ Own(w) > current)
  BY <1>1, OwnIsAbove DEF Revisions
<1>3. Own(w) # None
  BY <1>2, ConstantsAssumption
<1>4. /\ \A r \in Revisions : Unselected(r) => r = Own(w)
      /\ current # None => ValidTransition(Selected, candidate[w])
  BY <1>1 DEF CalendarInv, CallInv, Continues
<1>5. revision[Own(w)] = Complete(candidate[w])
  BY <1>1 DEF CalendarInv, CallInv, FileFits
<1>6. Exists(Own(w)) /\ revision[Own(w)] # Torn /\ revision[Own(w)].content = candidate[w]
  BY <1>5 DEF Complete, Absent, Torn, Exists
<1>7. \A r \in Revisions : ~ Unselected(r)'
  BY <1>1, <1>2, <1>3, <1>4 DEF Unselected, Exists, Revisions
<1>8. ASSUME NEW r \in 1 .. Own(w), Exists(r), r # Own(w)
      PROVE  current # None /\ r \in 1 .. current
  <2>1. r \in Revisions /\ r \in Nat /\ r >= 1
    BY <1>2, ConstantsAssumption DEF Revisions
  <2>2. ~ Unselected(r)
    BY <1>4, <1>8, <2>1
  <2>. QED
    BY <1>2, <1>8, <2>1, <2>2 DEF Unselected
<1>9. \A r \in 1 .. Own(w) : revision[r] # Torn
  <2>. SUFFICES ASSUME NEW r \in 1 .. Own(w), Exists(r), r # Own(w)
                PROVE  revision[r] # Torn
    BY <1>6 DEF Absent, Torn, Exists
  <2>. QED
    BY <1>8 DEF CalendarInv, HistoryIsChained
<1>10. ASSUME NEW a \in 1 .. Own(w), NEW b \in 1 .. Own(w), Exists(a), Exists(b), a < b
       PROVE  ValidTransition(revision[a].content, revision[b].content)
  <2>1. a # Own(w)
    BY <1>2, <1>10
  <2>2. current # None /\ a \in 1 .. current
    BY <1>8, <1>10, <2>1
  <2>3. CASE b # Own(w)
    <3>1. b \in 1 .. current
      BY <1>8, <1>10, <2>3
    <3>. QED
      BY <1>10, <2>2, <3>1 DEF CalendarInv, HistoryIsChained
  <2>4. CASE b = Own(w)
    <3>1. ValidTransition(Selected, candidate[w])
      BY <1>4, <2>2
    <3>2. CASE a = current
      BY <1>6, <2>4, <3>1, <3>2 DEF Selected
    <3>3. CASE a # current
      <4>1. current \in 1 .. current /\ Exists(current) /\ a < current
        BY <1>2, <2>2, <3>3 DEF CalendarInv, HistoryIsChained, TypeOK, Revisions
      <4>2. ValidTransition(revision[a].content, Selected)
        BY <1>10, <2>2, <4>1 DEF CalendarInv, HistoryIsChained, Selected
      <4>3. revision[a].content \in Documents /\ Selected \in Documents
        BY <1>10, <2>2, <4>1, HistoryIsComplete DEF CalendarInv, Selected
      <4>. QED
        BY <1>2, <1>6, <2>4, <3>1, <4>2, <4>3, TransitionIsTransitive
    <3>. QED
      BY <3>2, <3>3
  <2>. QED
    BY <2>3, <2>4
<1>11. HistoryIsChained'
  <2>1. \A r \in 1 .. Own(w) : revision'[r] # Torn
    BY <1>1, <1>9
  <2>2. \A a, b \in {r \in 1 .. Own(w) : Exists(r)'} :
          a < b => ValidTransition(revision'[a].content, revision'[b].content)
    BY <1>1, <1>10 DEF Exists
  <2>. QED
    BY <1>1, <1>6, <2>1, <2>2 DEF HistoryIsChained, Exists
<1>. QED
  BY <1>7, <1>11

LEMMA PublishPointerInv ==
  ASSUME CalendarInv, NEW w \in Writers, PublishPointer(w)
  PROVE  CalendarInv'
<1>1. /\ pc[w] = "publish" /\ UNCHANGED <<lock, revision, disturbances>> /\ Goto(w, "confirm")
      /\ current' = Own(w)
  BY DEF PublishPointer, NoFault, Own
<1>2. OnlyCall(w) /\ pc'[w] = "confirm" /\ candidate' = candidate /\ expected' = expected /\ outcome' = outcome
  BY <1>1, CallMoves DEF CalendarInv
<1>3. Own(w) \in Revisions /\ Own(w) # None /\ (current # None => current <= Own(w))
  BY <1>1, OwnIsAbove, ConstantsAssumption DEF Revisions
<1>4. TypeOK'
  BY <1>1, <1>3, CallTypes DEF CalendarInv, TypeOK, InCriticalSection
<1>5. CallInv(w)'
  BY <1>1, <1>2 DEF CalendarInv, CallInv, RequestFits, Continues, FileFits, ReadsHistory, Own
<1>6. OrphanNeedsDisturbance'
  BY PublishedHistory DEF OrphanNeedsDisturbance, Unselected, Exists
<1>. QED
  BY <1>1, <1>2, <1>3, <1>4, <1>5, <1>6, PublishedHistory, HolderStep
  DEF InCriticalSection, CalendarInv, ReadersFindCalendar, Exists

LEMMA WriteFailsInv ==
  ASSUME CalendarInv, NEW w \in Writers, WriteFails(w)
  PROVE  CalendarInv'
<1>1. /\ pc[w] \in {"create", "fill", "verify"} /\ UNCHANGED <<lock, current>> /\ Raise(w, "write_error")
      /\ Fault /\ disturbances' # disturbances
      /\ UNCHANGED revision \/ RemoveRevision(w)
  BY DEF WriteFails, Fault, CalendarInv, TypeOK
<1>2. CASE UNCHANGED revision
  BY <1>1, <1>2, RaisingStep DEF store, InCriticalSection
<1>3. CASE RemoveRevision(w)
  <2>1. revision' = [revision EXCEPT ![Own(w)] = Absent]
    BY <1>3 DEF RemoveRevision, Own
  <2>2. /\ OnlyCall(w) /\ pc'[w] = "release" /\ candidate' = candidate /\ expected' = expected
        /\ outcome'[w] = "write_error" /\ disturbances' > 0
    BY <1>1, CallMoves, CallTypes DEF CalendarInv
  <2>3. /\ HistoryIsChained'
        /\ revision'[Own(w)] = Absent
        /\ \A r \in Revisions : r # Own(w) => revision'[r] = revision[r]
        /\ current # None =>
             /\ current' # None /\ current <= current'
             /\ \A r \in 1 .. current : Exists(r) => Exists(r)'
    BY <1>1, <2>1, OwnFileStep
  <2>4. TypeOK'
    BY <1>1, <2>1, <2>3, CallTypes DEF CalendarInv, TypeOK, Absent
  <2>5. CallInv(w)'
    BY <1>1, <2>2 DEF CalendarInv, CallInv, RequestFits, Continues, FileFits, ReadsHistory, Own
  <2>6. OrphanNeedsDisturbance'
    BY <2>2 DEF OrphanNeedsDisturbance
  <2>. QED
    BY <1>1, <2>2, <2>3, <2>4, <2>5, <2>6, HolderStep DEF InCriticalSection
<1>. QED
  BY <1>1, <1>2, <1>3

-----------------------------------------------------------------------------
(* The theorems. *)

LEMMA NextCalendarInv == CalendarInv /\ [Next]_vars => CalendarInv'
<1>. SUFFICES ASSUME CalendarInv, [Next]_vars
              PROVE  CalendarInv'
  OBVIOUS
<1>1. ASSUME NEW w \in Writers, NEW calendar \in Calendars, NEW r \in Revisions,
             NEW previous \in Revisions \cup {None}, Write(w, calendar, r, previous)
      PROVE  CalendarInv'
  BY <1>1, WriteInv
<1>2. ASSUME NEW w \in Writers, Resolve(w) \/ Step(w)
      PROVE  CalendarInv'
  BY <1>2, ResolveInv, AcquireLockInv, ValidateWriteStateInv, CreateRevisionInv, FillRevisionInv,
    VerifyRevisionInv, PublishPointerInv, ConfirmPointerInv, ReleaseLockInv, LoadResolvedInv DEF Step
<1>3. ASSUME NEW w \in Writers, FileError(w) \/ Crash(w)
      PROVE  CalendarInv'
  BY <1>3, PlainFaultInv, WriteFailsInv DEF FileError
<1>4. CASE ClearLock
  BY <1>4, ClearLockInv
<1>5. CASE UNCHANGED vars
  BY <1>5 DEF vars, call, store, CalendarInv, TypeOK, HistoryIsChained, OrphanNeedsDisturbance,
    ReadersFindCalendar, MutualExclusion, CallInv, RequestFits, Continues, FileFits, ReadsHistory, Own, Owns,
    Unselected, Exists, Selected
<1>. QED
  BY <1>1, <1>2, <1>3, <1>4, <1>5 DEF Next

(* The inductive invariant holds in every state. *)
THEOREM CalendarInvariance == Spec => []CalendarInv
BY InitialInv, NextCalendarInv, PTL DEF Spec

(* Every variable of the calendar store keeps its type. *)
THEOREM TypeCorrect == Spec => []TypeOK
<1>1. CalendarInv => TypeOK
  BY DEF CalendarInv
<1>. QED
  BY <1>1, CalendarInvariance, PTL

(***************************************************************************)
(* The selected revisions form one history of valid transitions, however   *)
(* writers number them, crash and fail, as long as the locks of running    *)
(* writers are not cleared.                                                *)
(***************************************************************************)
THEOREM HistoryIsChainedHolds == Spec => []HistoryIsChained
<1>1. CalendarInv => HistoryIsChained
  BY DEF CalendarInv
<1>. QED
  BY <1>1, CalendarInvariance, PTL

(* Without a failing operation or a crash nobody meets an orphaned revision. *)
THEOREM OrphanNeedsDisturbanceHolds == Spec => []OrphanNeedsDisturbance
<1>1. CalendarInv => OrphanNeedsDisturbance
  BY DEF CalendarInv
<1>. QED
  BY <1>1, CalendarInvariance, PTL

(* A reader that has read the pointer finds the calendar, however late it looks. *)
THEOREM ReadersFindCalendarHolds == Spec => []ReadersFindCalendar
<1>1. CalendarInv => ReadersFindCalendar
  BY DEF CalendarInv
<1>. QED
  BY <1>1, CalendarInvariance, PTL

(* A step publishes, or leaves the pointer and what it names alone. *)
LEMMA SelectedStays ==
  ASSUME CalendarInv, [Next]_vars, current # None, ~ \E w \in Writers : PublishPointer(w)
  PROVE  current' = current /\ Selected' = Selected
<1>1. CASE UNCHANGED <<revision, current>>
  BY <1>1 DEF Selected
<1>2. ASSUME NEW w \in Writers, CreateRevision(w) \/ FillRevision(w) \/ WriteFails(w),
             ~ UNCHANGED <<revision, current>>
      PROVE  current' = current /\ Selected' = Selected
  <2>1. /\ pc[w] \in {"create", "fill", "verify"} /\ UNCHANGED current
        /\ \E file : revision' = [revision EXCEPT ![Own(w)] = file]
    BY <1>2 DEF CreateRevision, FillRevision, WriteFails, RemoveRevision, Own
  <2>. QED
    BY <2>1, OwnFileStep
<1>3. ASSUME NEW w \in Writers, VerifyRevision(w)
      PROVE  UNCHANGED <<revision, current>>
  BY <1>3 DEF VerifyRevision, CalendarInv, CallInv, FileFits, Own
<1>4. \/ UNCHANGED <<revision, current>>
      \/ \E w \in Writers :
           CreateRevision(w) \/ FillRevision(w) \/ WriteFails(w) \/ VerifyRevision(w) \/ PublishPointer(w)
  BY DEF Next, vars, store, Step, FileError, Write, Resolve, AcquireLock, ValidateWriteState, ConfirmPointer,
    ReleaseLock, LoadResolved, AcquireFails, StateReadFails, PublishFails, ConfirmFails, ReleaseFails, Crash,
    ClearLock
<1>. QED
  BY <1>1, <1>2, <1>3, <1>4

(***************************************************************************)
(* A period of the selected calendar, and its type, can be resolved in     *)
(* every calendar selected later.                                          *)
(***************************************************************************)
THEOREM ReferencesStayResolvableHolds == Spec => ReferencesStayResolvable
<1>1. ASSUME CalendarInv, [Next]_vars
      PROVE  ReferenceStep
  <2>. SUFFICES ASSUME current # None
                PROVE  /\ current' # None
                       /\ \A p \in Selected.periods :
                            \E q \in Selected'.periods :
                              p.period_id = q.period_id /\ p.period_type = q.period_type
    BY DEF ReferenceStep
  <2>1. CASE ~ \E w \in Writers : PublishPointer(w)
    BY <1>1, <2>1, SelectedStays
  <2>2. ASSUME NEW w \in Writers, PublishPointer(w)
        PROVE  /\ current' # None
               /\ \A p \in Selected.periods :
                    \E q \in Selected'.periods :
                      p.period_id = q.period_id /\ p.period_type = q.period_type
    <3>1. /\ pc[w] = "publish" /\ UNCHANGED revision /\ current' = Own(w)
      BY <2>2 DEF PublishPointer, Own
    <3>2. Own(w) # None
      BY <1>1, <3>1, OwnIsAbove, ConstantsAssumption DEF Revisions
    <3>3. ValidTransition(Selected, candidate[w])
      BY <1>1, <3>1 DEF CalendarInv, CallInv, Continues
    <3>4. revision[Own(w)] = Complete(candidate[w])
      BY <1>1, <3>1 DEF CalendarInv, CallInv, FileFits
    <3>5. Selected' = candidate[w]
      BY <3>1, <3>4 DEF Selected, Complete
    <3>. QED
      BY <3>1, <3>2, <3>3, <3>5 DEF ValidTransition
  <2>. QED
    BY <2>1, <2>2
<1>2. CalendarInv /\ [Next]_vars => [ReferenceStep]_vars
  BY <1>1
<1>. QED
  BY <1>2, CalendarInvariance, PTL DEF Spec, ReferencesStayResolvable
=============================================================================
