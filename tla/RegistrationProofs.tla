--------------------------- MODULE RegistrationProofs ---------------------------
(***************************************************************************)
(* IInv is inductive, for every set of writers, metadata values and        *)
(* stamps, every bound, and with locks cleared at any moment; and the      *)
(* services implement RevisionHistory.                                     *)
(***************************************************************************)
EXTENDS MCRegistrationStore, SequenceTheorems, TLAPS

(***************************************************************************)
(* Files                                                                   *)
(***************************************************************************)

(* The three states of a revision path are different, and a complete file determines its content. *)
LEMMA FileStates ==
  /\ Absent # Torn
  /\ \A x : Complete(x) # Absent /\ Complete(x) # Torn /\ Complete(x).content = x
  /\ \A x, y : Complete(x) = Complete(y) => x = y
  /\ Absent \in RevisionFile /\ Torn \in RevisionFile
  /\ \A x \in Registration : Complete(x) \in RevisionFile
<1>1. Absent # Torn
  BY DEF Absent, Torn
<1>2. ASSUME NEW x
      PROVE  Complete(x) # Absent /\ Complete(x) # Torn /\ Complete(x).content = x
  BY DEF Complete, Absent, Torn
<1>3. ASSUME NEW x, NEW y, Complete(x) = Complete(y)
      PROVE  x = y
  BY <1>2, <1>3
<1>4. Absent \in RevisionFile /\ Torn \in RevisionFile
  BY DEF RevisionFile
<1>5. ASSUME NEW x \in Registration
      PROVE  Complete(x) \in RevisionFile
  BY DEF RevisionFile
<1>. QED
  BY <1>1, <1>2, <1>3, <1>4, <1>5

(* What the pointer selects is the registration of its own number, or None without a pointer. *)
LEMMA SelectedIsRegistration ==
  ASSUME TypeOK, ReachableComplete
  PROVE  /\ current = 0 => Selected = NoRegistration
         /\ current # 0 =>
              /\ Selected \in Registration
              /\ Selected.revision = current
              /\ revision[current] = Complete(Selected)
<1>1. ASSUME current # 0
      PROVE  current \in 1 .. current
  BY <1>1, ConstantsAssumption DEF TypeOK
<1>. QED
  BY <1>1, FileStates DEF Selected, ReachableComplete

(***************************************************************************)
(* Steps that leave the files alone                                        *)
(***************************************************************************)

(* Only what w knows changes. *)
OnlyCall(w) ==
  \A v \in Writers \ {w} :
    /\ pc'[v] = pc[v]
    /\ candidate'[v] = candidate[v]
    /\ seen'[v] = seen[v]
    /\ cause'[v] = cause[v]
    /\ persisted'[v] = persisted[v]
    /\ outcome'[v] = outcome[v]
    /\ trace'[v] = trace[v]

(* A step of w that touches no file preserves IInv when it preserves it for w. *)
LEMMA QuietStep ==
  ASSUME IInv, TypeOK', NEW w \in Writers, UNCHANGED <<revision, current>>, OnlyCall(w), CallInv(w)',
         Holder(w)' => Holder(w)
  PROVE  IInv'
<1>. USE DEF IInv
<1>1. ReachableComplete' /\ Chained' /\ NothingBeyondNext'
  BY DEF ReachableComplete, Chained, NothingBeyondNext, Listed
<1>2. OneHolder'
  BY DEF OneHolder, Holder, OnlyCall
<1>3. ASSUME NEW v \in Writers, v # w
      PROVE  CallInv(v)'
  <2>1. CallInv(v)
    OBVIOUS
  <2>2. TraceFitsPhase(v)'
    BY <1>3, <2>1 DEF CallInv, TraceFitsPhase, OnlyCall
  <2>3. CandidateContinues(v)'
    BY <1>3, <2>1 DEF CallInv, CandidateContinues, OnlyCall, Expected
  <2>4. HolderIsNext(v)' /\ CommittedIsSelected(v)'
    BY <1>3, <2>1 DEF CallInv, HolderIsNext, Holder, CommittedIsSelected, OnlyCall, Expected, File
  <2>5. PersistedIsOwn(v)'
    BY <1>3, <2>1 DEF CallInv, PersistedIsOwn, OnlyCall
  <2>6. AnswerIsTrue(v)'
    BY <1>3, <2>1 DEF CallInv, AnswerIsTrue, OnlyCall, InSelectedHistory
  <2>. QED
    BY <2>2, <2>3, <2>4, <2>5, <2>6 DEF CallInv
<1>. QED
  BY <1>1, <1>2, <1>3

(* The ways a call goes on: what w knows afterwards, and that nobody else knows more. *)
LEMMA CallFrames ==
  ASSUME TypeOK, NEW w \in Writers, trace' = [trace EXCEPT ![w] = trace'[w]]
  PROVE  /\ \A phase : Goto(w, phase) =>
              /\ OnlyCall(w) /\ pc'[w] = phase
              /\ UNCHANGED <<candidate, seen, cause, persisted, outcome>>
         /\ \A error, phase : Raise(w, error, phase) =>
              /\ OnlyCall(w) /\ pc'[w] = phase /\ cause'[w] = error
              /\ UNCHANGED <<candidate, seen, persisted, outcome>>
         /\ \A kind, x : Return(w, kind, x) =>
              /\ OnlyCall(w) /\ pc'[w] = "idle" /\ cause'[w] = "none"
              /\ outcome'[w] = [kind |-> kind, registration |-> x]
<1>1. \A v \in Writers \ {w} : trace'[v] = trace[v]
  BY DEF TypeOK
<1>2. ASSUME NEW phase, Goto(w, phase)
      PROVE  /\ OnlyCall(w) /\ pc'[w] = phase
             /\ UNCHANGED <<candidate, seen, cause, persisted, outcome>>
  BY <1>1, <1>2 DEF TypeOK, Goto, OnlyCall
<1>3. ASSUME NEW error, NEW phase, Raise(w, error, phase)
      PROVE  /\ OnlyCall(w) /\ pc'[w] = phase /\ cause'[w] = error
             /\ UNCHANGED <<candidate, seen, persisted, outcome>>
  BY <1>1, <1>3 DEF TypeOK, Raise, OnlyCall
<1>4. ASSUME NEW kind, NEW x, Return(w, kind, x)
      PROVE  /\ OnlyCall(w) /\ pc'[w] = "idle" /\ cause'[w] = "none"
             /\ outcome'[w] = [kind |-> kind, registration |-> x]
  BY <1>1, <1>4 DEF TypeOK, Return, OnlyCall
<1>. QED
  BY <1>2, <1>3, <1>4

(* ... and that types are kept. *)
LEMMA CallTypes ==
  ASSUME TypeOK, NEW w \in Writers,
         lock' \in Writers \cup {Nobody}, UNCHANGED <<revision, current>>,
         trace' \in [Writers -> {"nothing", "orphan", "committed"}],
         faults' \in 0 .. MaxFaults, crashes' \in 0 .. MaxCrashes
  PROVE  /\ \A phase \in Phases : Goto(w, phase) => TypeOK'
         /\ \A error \in Causes, phase \in Phases : Raise(w, error, phase) => TypeOK'
         /\ \A kind \in Kinds, x \in Registration \cup {NoRegistration} :
              Return(w, kind, x) => TypeOK'
<1>1. ASSUME NEW phase \in Phases, Goto(w, phase)
      PROVE  TypeOK'
  BY <1>1 DEF TypeOK, Goto
<1>2. ASSUME NEW error \in Causes, NEW phase \in Phases, Raise(w, error, phase)
      PROVE  TypeOK'
  BY <1>2 DEF TypeOK, Raise
<1>3. ASSUME NEW kind \in Kinds, NEW x \in Registration \cup {NoRegistration},
             Return(w, kind, x)
      PROVE  TypeOK'
  <2>1. [kind |-> kind, registration |-> x] \in Outcome
    BY DEF Outcome
  <2>2. /\ pc' \in [Writers -> Phases]
        /\ candidate' \in [Writers -> Registration \cup {NoRegistration}]
        /\ seen' \in [Writers -> 0 .. MaxRevision]
        /\ cause' \in [Writers -> Causes]
        /\ persisted' \in [Writers -> Registration \cup {NoRegistration}]
    BY <1>3, ConstantsAssumption DEF TypeOK, Return, Phases, Causes
  <2>3. outcome' \in [Writers -> Outcome]
    BY <1>3, <2>1 DEF TypeOK, Return
  <2>. QED
    BY <2>2, <2>3 DEF TypeOK
<1>. QED
  BY <1>1, <1>2, <1>3

(* A call may end with any answer that is true of what the directory holds. *)
LEMMA ReturnStep ==
  ASSUME IInv, NEW w \in Writers,
         lock' \in Writers \cup {Nobody}, UNCHANGED <<revision, current>>,
         trace' \in [Writers -> {"nothing", "orphan", "committed"}],
         trace' = [trace EXCEPT ![w] = trace'[w]],
         faults' \in 0 .. MaxFaults, crashes' \in 0 .. MaxCrashes,
         NEW kind \in Kinds, NEW x \in Registration \cup {NoRegistration},
         Return(w, kind, x),
         kind \in {"created", "updated", "existing", "partial_selected"} => InSelectedHistory(x),
         kind \in {"not_found", "conflict", "write_error", "read_error"} => trace'[w] = "nothing"
  PROVE  IInv'
<1>1. /\ OnlyCall(w) /\ pc'[w] = "idle" /\ cause'[w] = "none"
      /\ outcome'[w] = [kind |-> kind, registration |-> x]
  BY CallFrames DEF IInv
<1>2. TypeOK'
  BY CallTypes DEF IInv
<1>3. ~ Holder(w)'
  BY <1>1 DEF Holder
<1>4. CallInv(w)'
  <2>1. TraceFitsPhase(w)' /\ CandidateContinues(w)' /\ CommittedIsSelected(w)' /\ PersistedIsOwn(w)'
    BY <1>1 DEF TraceFitsPhase, Fits, CandidateContinues, CommittedIsSelected, PersistedIsOwn
  <2>2. HolderIsNext(w)'
    BY <1>3 DEF HolderIsNext
  <2>3. AnswerIsTrue(w)'
    BY <1>1 DEF AnswerIsTrue, InSelectedHistory
  <2>. QED
    BY <2>1, <2>2, <2>3 DEF CallInv
<1>. QED
  BY <1>1, <1>2, <1>3, <1>4, QuietStep

(***************************************************************************)
(* A call may go on to a phase that fits what it has left behind.  The     *)
(* phases in which it owns a file, or has read one back, have lemmas of    *)
(* their own below.                                                        *)
(***************************************************************************)
LEMMA GoOnStep ==
  ASSUME IInv, TypeOK', NEW w \in Writers, UNCHANGED <<revision, current, trace>>,
         OnlyCall(w), UNCHANGED <<candidate, outcome>>,
         pc[w] # "idle", pc'[w] # "idle", pc'[w] \notin {"verify", "publish", "select"},
         TraceFitsPhase(w)'
  PROVE  IInv'
<1>1. CallInv(w)
  BY DEF IInv
<1>2. Holder(w)' <=> Holder(w)
  BY DEF Holder
<1>3. CandidateContinues(w)' /\ CommittedIsSelected(w)' /\ HolderIsNext(w)'
  BY <1>1, <1>2 DEF CallInv, CandidateContinues, CommittedIsSelected, HolderIsNext, Expected, File
<1>4. PersistedIsOwn(w)' /\ AnswerIsTrue(w)'
  BY <1>1 DEF CallInv, PersistedIsOwn, AnswerIsTrue, InSelectedHistory
<1>. QED
  BY <1>2, <1>3, <1>4, QuietStep DEF CallInv

(* What is known of a running call at each step. *)
LEMMA CallFacts ==
  ASSUME IInv, NEW w \in Writers
  PROVE  /\ CallInv(w) /\ Fits(pc[w], cause[w], trace[w]) /\ cause[w] \in Causes
         /\ lock \in Writers \cup {Nobody}
BY DEF IInv, CallInv, TraceFitsPhase, TypeOK

(***************************************************************************)
(* Steps that change a file                                                *)
(***************************************************************************)

(* The path a running call may write is within bounds; nothing selected is there unless it is old. *)
LEMMA CandidatePath ==
  ASSUME IInv, NEW w \in Writers, pc[w] # "idle"
  PROVE  /\ candidate[w] \in Registration /\ candidate[w].revision \in Revisions
         /\ Expected(w) \in Nat /\ Expected(w) <= current
         /\ candidate[w].revision = Expected(w) + 1
         /\ File(w) \in RevisionFile
         /\ File(w) = Absent => Expected(w) = current
<1>1. candidate[w] \in Registration /\ Expected(w) <= current
  BY DEF IInv, CallInv, CandidateContinues
<1>2. candidate[w].revision \in Revisions /\ Revisions \subseteq Nat \ {0}
  BY <1>1, ConstantsAssumption DEF Registration, Revisions
<1>3. Expected(w) \in Nat /\ candidate[w].revision = Expected(w) + 1
  <2>1. \A n \in Nat \ {0} : n - 1 \in Nat /\ n = (n - 1) + 1
    OBVIOUS
  <2>2. candidate[w].revision \in Nat \ {0}
    BY <1>2
  <2>. QED
    BY <2>1, <2>2 DEF Expected
<1>4. File(w) \in RevisionFile
  BY <1>2 DEF IInv, TypeOK, File
<1>5. current \in Nat
  BY ConstantsAssumption DEF IInv, TypeOK
<1>6. ASSUME File(w) = Absent, Expected(w) # current
      PROVE  FALSE
  <2>1. candidate[w].revision \in 1 .. current
    BY <1>1, <1>2, <1>3, <1>5, <1>6
  <2>. QED
    BY <2>1, <1>6, FileStates DEF IInv, ReachableComplete, File
<1>. QED
  BY <1>1, <1>2, <1>3, <1>4, <1>6

(* Two running calls cannot both have an unselected revision: the path is the same and open("x") fails. *)
LEMMA NoOtherHolder ==
  ASSUME IInv, NEW w \in Writers, pc[w] # "idle", Holder(w) \/ File(w) = Absent
  PROVE  /\ \A v \in Writers \ {w} : ~ Holder(v)
         /\ Expected(w) = current
<1>1. CASE Holder(w)
  BY <1>1 DEF IInv, OneHolder, CallInv, HolderIsNext
<1>2. CASE File(w) = Absent
  <2>1. Expected(w) = current
    BY <1>2, CandidatePath
  <2>2. ASSUME NEW v \in Writers \ {w}, Holder(v)
        PROVE  FALSE
    <3>1. Expected(v) = current /\ File(v) \in {Torn, Complete(candidate[v])}
      BY <2>2 DEF IInv, CallInv, HolderIsNext
    <3>2. pc[v] # "idle"
      BY <2>2 DEF Holder
    <3>3. candidate[v].revision = candidate[w].revision
      BY <2>1, <3>1, <3>2, CandidatePath
    <3>. QED
      BY <1>2, <3>1, <3>3, FileStates DEF File
  <2>. QED
    BY <2>1, <2>2
<1>. QED
  BY <1>1, <1>2

(* Writing the next path preserves IInv when it preserves it for the writer. *)
LEMMA FileStep ==
  ASSUME IInv, TypeOK', NEW w \in Writers, pc[w] # "idle", Holder(w) \/ File(w) = Absent,
         NEW file, revision' = [revision EXCEPT ![candidate[w].revision] = file],
         UNCHANGED current, OnlyCall(w), CallInv(w)'
  PROVE  IInv'
<1>. DEFINE next == candidate[w].revision
<1>1. /\ next \in Revisions /\ next = current + 1 /\ current \in Nat
      /\ \A v \in Writers \ {w} : ~ Holder(v)
  BY CandidatePath, NoOtherHolder, ConstantsAssumption DEF IInv, TypeOK
<1>2. \A r \in Revisions : r # next => revision'[r] = revision[r]
  BY DEF IInv, TypeOK
<1>3. \A r \in 1 .. current : r \in Revisions /\ revision'[r] = revision[r]
  <2>1. \A r \in 1 .. current : r \in Revisions /\ r # next
    BY <1>1, ConstantsAssumption DEF Revisions
  <2>. QED
    BY <1>2, <2>1
<1>4. ReachableComplete' /\ Chained'
  <2>1. ReachableComplete'
    BY <1>3 DEF IInv, ReachableComplete
  <2>2. Chained'
    <3>1. \A r \in 1 .. current - 1 : r \in 1 .. current /\ r + 1 \in 1 .. current
      BY <1>1
    <3>. QED
      BY <1>3, <3>1 DEF IInv, Chained
  <2>. QED
    BY <2>1, <2>2
<1>5. NothingBeyondNext'
  BY <1>1, <1>2 DEF IInv, NothingBeyondNext, Listed
<1>6. \A v \in Writers \ {w} : ~ Holder(v)'
  BY <1>1 DEF Holder, OnlyCall
<1>7. OneHolder'
  BY <1>6 DEF OneHolder
<1>8. ASSUME NEW v \in Writers, v # w
      PROVE  CallInv(v)'
  <2>1. CallInv(v)
    BY DEF IInv
  <2>2. TraceFitsPhase(v)'
    BY <1>8, <2>1 DEF CallInv, TraceFitsPhase, OnlyCall
  <2>3. CandidateContinues(v)'
    <3>1. SUFFICES ASSUME pc[v] # "idle"
                   PROVE  CandidateContinues(v)'
      BY <1>8 DEF CandidateContinues, OnlyCall
    <3>2. Expected(v) \in Nat /\ Expected(v) <= current
      BY <3>1, CandidatePath
    <3>3. Expected(v) # 0 => revision'[Expected(v)] = revision[Expected(v)]
      BY <1>1, <1>3, <3>2
    <3>. QED
      BY <1>8, <2>1, <3>1, <3>3 DEF CallInv, CandidateContinues, OnlyCall, Expected
  <2>4. HolderIsNext(v)'
    BY <1>6, <1>8 DEF HolderIsNext
  <2>5. CommittedIsSelected(v)'
    <3>1. SUFFICES ASSUME pc[v] # "idle", trace[v] = "committed"
                   PROVE  CommittedIsSelected(v)'
      BY <1>8 DEF CommittedIsSelected, OnlyCall
    <3>2. candidate[v].revision \in 1 .. current
      BY <2>1, <3>1, CandidatePath DEF CallInv, CommittedIsSelected, Revisions
    <3>. QED
      BY <1>3, <1>8, <2>1, <3>1, <3>2 DEF CallInv, CommittedIsSelected, OnlyCall, File
  <2>6. PersistedIsOwn(v)'
    BY <1>8, <2>1 DEF CallInv, PersistedIsOwn, OnlyCall
  <2>7. AnswerIsTrue(v)'
    BY <1>3, <1>8, <2>1 DEF CallInv, AnswerIsTrue, OnlyCall, InSelectedHistory
  <2>. QED
    BY <2>2, <2>3, <2>4, <2>5, <2>6, <2>7 DEF CallInv
<1>. QED
  BY <1>4, <1>5, <1>7, <1>8 DEF IInv

(***************************************************************************)
(* The actions: the services up to the strict writer                       *)
(***************************************************************************)

(* What UNCHANGED trace, a new call's trace and the counters give to ReturnStep and GoOnStep. *)
LEMMA Counters ==
  ASSUME TypeOK, NEW w \in Writers
  PROVE  /\ UNCHANGED trace \/ trace' = [trace EXCEPT ![w] = "nothing"] =>
              /\ trace' \in [Writers -> {"nothing", "orphan", "committed"}]
              /\ trace' = [trace EXCEPT ![w] = trace'[w]]
         /\ trace' = [trace EXCEPT ![w] = "nothing"] => trace'[w] = "nothing"
         /\ NoFault \/ Fault => faults' \in 0 .. MaxFaults /\ crashes' \in 0 .. MaxCrashes
<1>1. ASSUME UNCHANGED trace \/ trace' = [trace EXCEPT ![w] = "nothing"]
      PROVE  /\ trace' \in [Writers -> {"nothing", "orphan", "committed"}]
             /\ trace' = [trace EXCEPT ![w] = trace'[w]]
  BY <1>1 DEF TypeOK
<1>2. trace' = [trace EXCEPT ![w] = "nothing"] => trace'[w] = "nothing"
  BY DEF TypeOK
<1>3. ASSUME NoFault \/ Fault
      PROVE  faults' \in 0 .. MaxFaults /\ crashes' \in 0 .. MaxCrashes
  BY <1>3, ConstantsAssumption DEF TypeOK, NoFault, Fault
<1>. QED
  BY <1>1, <1>2, <1>3

(* What is selected is in the selected history. *)
LEMMA SelectedIsInHistory ==
  ASSUME IInv, current # 0
  PROVE  Selected \in Registration /\ InSelectedHistory(Selected)
<1>1. current \in 1 .. current
  BY ConstantsAssumption DEF IInv, TypeOK
<1>. QED
  BY <1>1, SelectedIsRegistration DEF IInv, InSelectedHistory

(* A call may start with a candidate that continues what is selected. *)
LEMMA PrepareStep ==
  ASSUME IInv, NEW w \in Writers, NEW x \in Registration, pc[w] = "idle", Prepare(w, x),
         UNCHANGED store, trace' = [trace EXCEPT ![w] = "nothing"], NoFault,
         x.revision = current + 1,
         current # 0 => x.created_at = Selected.created_at /\ x.updated_at >= Selected.updated_at
  PROVE  IInv'
<1>. USE DEF store
<1>1. trace'[w] = "nothing" /\ trace' \in [Writers -> {"nothing", "orphan", "committed"}]
  BY Counters DEF IInv
<1>2. TypeOK'
  <2>1. pc' \in [Writers -> Phases] /\ outcome' \in [Writers -> Outcome]
    BY DEF IInv, TypeOK, Prepare, Phases, NoOutcome, Outcome, Kinds
  <2>2. candidate' \in [Writers -> Registration \cup {NoRegistration}]
    BY DEF IInv, TypeOK, Prepare
  <2>. QED
    BY <1>1, <2>1, <2>2 DEF IInv, TypeOK, Prepare, NoFault
<1>3. OnlyCall(w) /\ pc'[w] = "list" /\ candidate'[w] = x /\ outcome'[w] = NoOutcome
  BY DEF IInv, TypeOK, Prepare, OnlyCall
<1>4. CallInv(w)'
  <2>1. current \in Nat /\ Expected(w)' = current
    BY <1>3, ConstantsAssumption DEF IInv, TypeOK, Expected
  <2>2. CandidateContinues(w)'
    BY <1>3, <2>1 DEF CandidateContinues, Selected
  <2>3. TraceFitsPhase(w)'
    BY <1>1, <1>3, CallFacts DEF TraceFitsPhase, Fits, Prepare
  <2>4. HolderIsNext(w)' /\ CommittedIsSelected(w)' /\ PersistedIsOwn(w)' /\ ~ Holder(w)'
    BY <1>1, <1>3 DEF HolderIsNext, Holder, CommittedIsSelected, PersistedIsOwn
  <2>5. AnswerIsTrue(w)'
    BY <1>1, <1>3 DEF AnswerIsTrue, NoOutcome
  <2>. QED
    BY <2>2, <2>3, <2>4, <2>5 DEF CallInv
<1>. QED
  BY <1>1, <1>2, <1>3, <1>4, QuietStep DEF Holder

LEMMA RegisterStep ==
  ASSUME IInv, NEW w \in Writers, NEW metadata \in Metadata, Register(w, metadata)
  PROVE  IInv'
<1>1. /\ trace' \in [Writers -> {"nothing", "orphan", "committed"}]
      /\ trace' = [trace EXCEPT ![w] = trace'[w]] /\ trace'[w] = "nothing"
      /\ faults' \in 0 .. MaxFaults /\ crashes' \in 0 .. MaxCrashes
      /\ lock' \in Writers \cup {Nobody} /\ UNCHANGED <<revision, current>>
  BY Counters DEF IInv, Register, TypeOK, store
<1>2. CASE current # 0 /\ Return(w, "existing", Selected)
  BY <1>1, <1>2, SelectedIsInHistory, ReturnStep DEF Kinds
<1>3. CASE Return(w, "conflict", NoRegistration)
  BY <1>1, <1>3, ReturnStep DEF Kinds
<1>4. CASE /\ current = 0
           /\ \E now \in Stamps :
                Prepare(w, [revision |-> 1, metadata |-> metadata,
                            created_at |-> now, updated_at |-> now])
  <2>1. PICK now \in Stamps : Prepare(w, [revision |-> 1, metadata |-> metadata,
                                         created_at |-> now, updated_at |-> now])
    BY <1>4
  <2>. DEFINE x == [revision |-> 1, metadata |-> metadata, created_at |-> now, updated_at |-> now]
  <2>2. x \in Registration /\ x.revision = current + 1
    BY <1>4, ConstantsAssumption DEF Registration, Revisions
  <2>. QED
    BY <1>4, <2>1, <2>2, PrepareStep DEF Register
<1>. QED
  BY <1>2, <1>3, <1>4 DEF Register

(* An update never goes back in time, even when the clock does. *)
LEMMA LaterStamps ==
  ASSUME NEW now \in Stamps, NEW floor \in Stamps
  PROVE  Later(now, floor) \in Stamps /\ Later(now, floor) >= floor
<1>1. now \in Nat /\ floor \in Nat
  BY ConstantsAssumption
<1>. QED
  BY <1>1 DEF Later

LEMMA UpdateStep ==
  ASSUME IInv, NEW w \in Writers, NEW metadata \in Metadata, NEW expected \in Revisions,
         Update(w, metadata, expected)
  PROVE  IInv'
<1>1. /\ trace' \in [Writers -> {"nothing", "orphan", "committed"}]
      /\ trace' = [trace EXCEPT ![w] = trace'[w]] /\ trace'[w] = "nothing"
      /\ faults' \in 0 .. MaxFaults /\ crashes' \in 0 .. MaxCrashes
      /\ lock' \in Writers \cup {Nobody} /\ UNCHANGED <<revision, current>>
  BY Counters DEF IInv, Update, TypeOK, store
<1>2. CASE current # 0 /\ Return(w, "existing", Selected)
  BY <1>1, <1>2, SelectedIsInHistory, ReturnStep DEF Kinds
<1>3. CASE Return(w, "conflict", NoRegistration) \/ Return(w, "not_found", NoRegistration)
  BY <1>1, <1>3, ReturnStep DEF Kinds
<1>4. CASE /\ current \in 1 .. MaxRevision - 1
           /\ \E now \in Stamps :
                Prepare(w, [revision |-> current + 1, metadata |-> metadata,
                            created_at |-> Selected.created_at,
                            updated_at |-> Later(now, Selected.updated_at)])
  <2>1. PICK now \in Stamps : Prepare(w, [revision |-> current + 1, metadata |-> metadata,
                                         created_at |-> Selected.created_at,
                                         updated_at |-> Later(now, Selected.updated_at)])
    BY <1>4
  <2>. DEFINE x == [revision |-> current + 1, metadata |-> metadata,
                    created_at |-> Selected.created_at,
                    updated_at |-> Later(now, Selected.updated_at)]
  <2>2. Selected \in Registration
    BY <1>4, ConstantsAssumption, SelectedIsInHistory
  <2>3. Selected.created_at \in Stamps /\ Selected.updated_at \in Stamps
    BY <2>2 DEF Registration
  <2>4. /\ Later(now, Selected.updated_at) \in Stamps
        /\ Later(now, Selected.updated_at) >= Selected.updated_at
    BY <2>3, LaterStamps
  <2>5. current + 1 \in Revisions
    BY <1>4, ConstantsAssumption DEF Revisions
  <2>6. x \in Registration
    BY <2>3, <2>4, <2>5 DEF Registration
  <2>. QED
    BY <2>1, <2>4, <2>6, PrepareStep DEF Update
<1>. QED
  BY <1>2, <1>3, <1>4 DEF Update


(***************************************************************************)
(* The actions that leave every file but the lock alone                    *)
(***************************************************************************)

(* A running call goes on with nothing new to show for it ... *)
LEMMA GotoStep ==
  ASSUME IInv, NEW w \in Writers, pc[w] # "idle",
         lock' \in Writers \cup {Nobody}, UNCHANGED <<revision, current, trace>>, NoFault \/ Fault,
         NEW phase \in Phases, phase \notin {"idle", "verify", "publish", "select"},
         Goto(w, phase), Fits(phase, cause[w], trace[w])
  PROVE  IInv'
<1>1. /\ trace' \in [Writers -> {"nothing", "orphan", "committed"}]
      /\ trace' = [trace EXCEPT ![w] = trace'[w]]
      /\ faults' \in 0 .. MaxFaults /\ crashes' \in 0 .. MaxCrashes
  BY Counters DEF IInv
<1>2. TypeOK'
  BY <1>1, CallTypes DEF IInv
<1>3. OnlyCall(w) /\ pc'[w] = phase /\ UNCHANGED <<candidate, outcome, cause>>
  BY <1>1, CallFrames DEF IInv
<1>4. TraceFitsPhase(w)'
  BY <1>3 DEF TraceFitsPhase
<1>. QED
  BY <1>2, <1>3, <1>4, GoOnStep

(* ... or with an exception. *)
LEMMA RaiseStep ==
  ASSUME IInv, NEW w \in Writers, pc[w] # "idle",
         lock' \in Writers \cup {Nobody}, UNCHANGED <<revision, current, trace>>, NoFault \/ Fault,
         NEW phase \in Phases, phase \notin {"idle", "verify", "publish", "select"},
         NEW error \in Causes, Raise(w, error, phase), Fits(phase, error, trace[w])
  PROVE  IInv'
<1>1. /\ trace' \in [Writers -> {"nothing", "orphan", "committed"}]
      /\ trace' = [trace EXCEPT ![w] = trace'[w]]
      /\ faults' \in 0 .. MaxFaults /\ crashes' \in 0 .. MaxCrashes
  BY Counters DEF IInv
<1>2. TypeOK'
  BY <1>1, CallTypes DEF IInv
<1>3. OnlyCall(w) /\ pc'[w] = phase /\ UNCHANGED <<candidate, outcome>> /\ cause'[w] = error
  BY <1>1, CallFrames DEF IInv
<1>4. TraceFitsPhase(w)'
  BY <1>3 DEF TraceFitsPhase
<1>. QED
  BY <1>2, <1>3, <1>4, GoOnStep

(* A call ends without touching what it has left behind. *)
LEMMA AnswerStep ==
  ASSUME IInv, NEW w \in Writers,
         lock' \in Writers \cup {Nobody}, UNCHANGED <<revision, current, trace>>, NoFault \/ Fault,
         NEW kind \in Kinds, NEW x \in Registration \cup {NoRegistration}, Return(w, kind, x),
         kind \in {"created", "updated", "existing", "partial_selected"} => InSelectedHistory(x),
         kind \in {"not_found", "conflict", "write_error", "read_error"} => trace[w] = "nothing"
  PROVE  IInv'
<1>1. /\ trace' \in [Writers -> {"nothing", "orphan", "committed"}]
      /\ trace' = [trace EXCEPT ![w] = trace'[w]] /\ trace'[w] = trace[w]
      /\ faults' \in 0 .. MaxFaults /\ crashes' \in 0 .. MaxCrashes
  BY Counters DEF IInv
<1>. QED
  BY <1>1, ReturnStep

LEMMA ListRevisionsStep ==
  ASSUME IInv, NEW w \in Writers, ListRevisions(w)
  PROVE  IInv'
<1>1. /\ pc[w] = "list" /\ lock' \in Writers \cup {Nobody}
      /\ UNCHANGED <<revision, current, trace>> /\ NoFault
  BY CallFacts DEF ListRevisions, store
<1>2. CASE Return(w, "integrity", NoRegistration)
  BY <1>1, <1>2, AnswerStep DEF Kinds
<1>3. CASE Goto(w, "acquire")
  <2>1. Fits("acquire", cause[w], trace[w])
    BY <1>1, CallFacts DEF Fits
  <2>. QED
    BY <1>1, <1>3, <2>1, GotoStep DEF Phases
<1>. QED
  BY <1>2, <1>3 DEF ListRevisions

LEMMA AcquireLockStep ==
  ASSUME IInv, NEW w \in Writers, AcquireLock(w)
  PROVE  IInv'
<1>1. pc[w] = "acquire" /\ UNCHANGED <<revision, current, trace>> /\ NoFault
  BY DEF AcquireLock
<1>2. Fits("validate", cause[w], trace[w]) /\ Fits("reconcile", "conflict", trace[w])
  BY <1>1, CallFacts DEF Fits
<1>3. CASE lock' = w /\ Goto(w, "validate")
  BY <1>1, <1>2, <1>3, GotoStep DEF Phases, InCriticalSection
<1>4. CASE UNCHANGED lock /\ Raise(w, "conflict", "reconcile")
  BY <1>1, <1>2, <1>4, CallFacts, RaiseStep DEF Phases, Causes
<1>. QED
  BY <1>3, <1>4 DEF AcquireLock

LEMMA ReadPointerStep ==
  ASSUME IInv, NEW w \in Writers, ReadPointer(w)
  PROVE  IInv'
<1>. USE DEF ReadPointer, store, NoFault
<1>1. TypeOK'
  BY DEF IInv, TypeOK, Phases, InCriticalSection
<1>2. OnlyCall(w) /\ pc'[w] = "scan"
  BY DEF IInv, TypeOK, OnlyCall
<1>3. TraceFitsPhase(w)'
  BY <1>2, CallFacts DEF TraceFitsPhase, Fits
<1>. QED
  BY <1>1, <1>2, <1>3, GoOnStep

LEMMA ScanRevisionsStep ==
  ASSUME IInv, NEW w \in Writers, ScanRevisions(w)
  PROVE  IInv'
<1>1. /\ pc[w] = "scan" /\ lock' \in Writers \cup {Nobody}
      /\ UNCHANGED <<revision, current, trace>> /\ NoFault
  BY CallFacts DEF ScanRevisions, store
<1>2. CASE Goto(w, "create")
  <2>1. Fits("create", cause[w], trace[w])
    BY <1>1, CallFacts DEF Fits
  <2>. QED
    BY <1>1, <1>2, <2>1, GotoStep DEF Phases, InCriticalSection
<1>3. CASE /\ Raise(w, WriteStateError(w), "release")
           /\ WriteStateError(w) # "none"
  <2>1. WriteStateError(w) \in Causes
    BY DEF WriteStateError, Causes
  <2>2. Fits("release", WriteStateError(w), trace[w])
    BY <1>1, <1>3, CallFacts DEF Fits
  <2>. QED
    BY <1>1, <1>3, <2>1, <2>2, RaiseStep DEF Phases, InCriticalSection
<1>. QED
  BY <1>2, <1>3 DEF ScanRevisions

LEMMA ConfirmPointerStep ==
  ASSUME IInv, NEW w \in Writers, ConfirmPointer(w)
  PROVE  IInv'
<1>1. /\ pc[w] = "confirm" /\ lock' \in Writers \cup {Nobody}
      /\ UNCHANGED <<revision, current, trace>> /\ NoFault
  BY CallFacts DEF ConfirmPointer, store
<1>2. Fits("release", cause[w], trace[w]) /\ Fits("release", "integrity", trace[w])
  BY <1>1, CallFacts DEF Fits
<1>3. CASE Goto(w, "release")
  BY <1>1, <1>2, <1>3, GotoStep DEF Phases, InCriticalSection
<1>4. CASE Raise(w, "integrity", "release")
  BY <1>1, <1>2, <1>4, RaiseStep DEF Phases, Causes, InCriticalSection
<1>. QED
  BY <1>3, <1>4 DEF ConfirmPointer

(* The end of the writer, with or without its lock file removed. *)
LEMMA AfterWriterStep ==
  ASSUME IInv, NEW w \in Writers, pc[w] = "release", AfterWriter(w),
         lock' \in Writers \cup {Nobody}, UNCHANGED <<revision, current, trace>>, NoFault \/ Fault
  PROVE  IInv'
<1>1. Fits("release", cause[w], trace[w]) /\ cause[w] \in Causes
  BY CallFacts
<1>2. CASE cause[w] = "none" /\ Goto(w, "reload")
  <2>1. Fits("reload", cause[w], trace[w])
    BY <1>1, <1>2 DEF Fits
  <2>. QED
    BY <1>2, <2>1, GotoStep DEF Phases
<1>3. CASE cause[w] = "conflict" /\ Goto(w, "reconcile")
  <2>1. Fits("reconcile", cause[w], trace[w])
    BY <1>1, <1>3 DEF Fits
  <2>. QED
    BY <1>3, <2>1, GotoStep DEF Phases
<1>4. CASE cause[w] \in {"integrity", "write_error"} /\ Goto(w, "classify")
  <2>1. Fits("classify", cause[w], trace[w])
    BY <1>1, <1>4 DEF Fits
  <2>. QED
    BY <1>4, <2>1, GotoStep DEF Phases
<1>5. CASE cause[w] = "read_error" /\ Return(w, "read_error", NoRegistration)
  <2>1. trace[w] = "nothing"
    BY <1>1, <1>5 DEF Fits
  <2>. QED
    BY <1>5, <2>1, AnswerStep DEF Kinds
<1>. QED
  BY <1>1, <1>2, <1>3, <1>4, <1>5 DEF Causes, AfterWriter


LEMMA ReleaseLockStep ==
  ASSUME IInv, NEW w \in Writers, ReleaseLock(w)
  PROVE  IInv'
BY AfterWriterStep DEF ReleaseLock

(* Re-reading a committed candidate; the pointer cannot have lost it. *)
LEMMA ReloadSelectedStep ==
  ASSUME IInv, NEW w \in Writers, ReloadSelected(w)
  PROVE  IInv'
<1>1. /\ pc[w] = "reload" /\ lock' \in Writers \cup {Nobody}
      /\ UNCHANGED <<revision, current, trace>> /\ NoFault
  BY CallFacts DEF ReloadSelected, store
<1>2. candidate[w] \in Registration
  BY <1>1, CandidatePath
<1>3. CASE /\ Selected = candidate[w]
           /\ Return(w, IF Expected(w) = 0 THEN "created" ELSE "updated", Selected)
  <2>1. current # 0
    BY <1>2, <1>3, NoRegistrationAssumption DEF Selected
  <2>2. InSelectedHistory(Selected) /\ Selected \in Registration
    BY <2>1, SelectedIsInHistory
  <2>. QED
    BY <1>1, <1>3, <2>2, AnswerStep DEF Kinds
<1>4. CASE Return(w, "partial_unselected", candidate[w])
  BY <1>1, <1>2, <1>4, AnswerStep DEF Kinds, Selections
<1>. QED
  BY <1>3, <1>4 DEF ReloadSelected

LEMMA ReconcileConflictStep ==
  ASSUME IInv, NEW w \in Writers, ReconcileConflict(w)
  PROVE  IInv'
<1>1. /\ pc[w] = "reconcile" /\ lock' \in Writers \cup {Nobody}
      /\ UNCHANGED <<revision, current, trace>> /\ NoFault
  BY CallFacts DEF ReconcileConflict, store
<1>2. CASE current # 0 /\ Return(w, "existing", Selected)
  BY <1>1, <1>2, SelectedIsInHistory, AnswerStep DEF Kinds
<1>3. CASE Goto(w, "classify")
  <2>1. Fits("classify", cause[w], trace[w])
    BY <1>1, CallFacts DEF Fits
  <2>. QED
    BY <1>1, <1>3, <2>1, GotoStep DEF Phases
<1>. QED
  BY <1>2, <1>3 DEF ReconcileConflict

(* A call whose candidate's path is empty owns nothing there. *)
LEMMA AbsentMeansNothing ==
  ASSUME IInv, NEW w \in Writers, pc[w] # "idle", File(w) = Absent
  PROVE  trace[w] = "nothing"
<1>1. trace[w] \in {"nothing", "orphan", "committed"}
  BY DEF IInv, TypeOK
<1>2. trace[w] = "orphan" => File(w) \in {Torn, Complete(candidate[w])}
  BY DEF IInv, CallInv, HolderIsNext, Holder
<1>3. trace[w] = "committed" => File(w) = Complete(candidate[w])
  BY DEF IInv, CallInv, CommittedIsSelected
<1>. QED
  BY <1>1, <1>2, <1>3, FileStates

LEMMA ClassifyCandidateStep ==
  ASSUME IInv, NEW w \in Writers, ClassifyCandidate(w)
  PROVE  IInv'
<1>1. /\ pc[w] = "classify" /\ lock' \in Writers \cup {Nobody}
      /\ UNCHANGED <<revision, current, trace>> /\ NoFault
  BY CallFacts DEF ClassifyCandidate, store
<1>2. Fits("classify", cause[w], trace[w])
  BY <1>1, CallFacts
<1>3. CASE File(w) = Absent /\ Return(w, cause[w], NoRegistration)
  <2>1. trace[w] = "nothing"
    BY <1>1, <1>3, AbsentMeansNothing
  <2>2. cause[w] \in {"conflict", "integrity", "write_error"}
    BY <1>2 DEF Fits
  <2>. QED
    BY <1>1, <1>3, <2>1, <2>2, AnswerStep DEF Kinds
<1>4. CASE Return(w, "integrity", NoRegistration)
  BY <1>1, <1>4, AnswerStep DEF Kinds
<1>5. CASE /\ File(w) \notin {Absent, Torn}
           /\ pc' = [pc EXCEPT ![w] = "select"]
           /\ persisted' = [persisted EXCEPT ![w] = File(w).content]
           /\ UNCHANGED <<candidate, seen, cause, outcome>>
  <2>1. PICK x \in Registration : File(w) = Complete(x)
    BY <1>1, <1>5, CandidatePath DEF RevisionFile
  <2>2. persisted' = [persisted EXCEPT ![w] = x]
    BY <1>5, <2>1, FileStates
  <2>3. TypeOK'
    BY <1>1, <1>5, <2>2 DEF IInv, TypeOK, Phases, NoFault
  <2>4. OnlyCall(w) /\ pc'[w] = "select" /\ persisted'[w] = x
    BY <1>1, <1>5, <2>2 DEF IInv, TypeOK, OnlyCall
  <2>5. Holder(w)' <=> Holder(w)
    BY <1>1, <2>4 DEF Holder
  <2>6. CallInv(w)
    BY CallFacts
  <2>7. PersistedIsOwn(w)'
    <3>1. trace[w] \in {"nothing", "orphan", "committed"}
      BY DEF IInv, TypeOK
    <3>2. trace[w] # "nothing" => File(w) = Complete(candidate[w])
      BY <1>1, <1>5, <2>6, <3>1 DEF CallInv, HolderIsNext, Holder, CommittedIsSelected
    <3>. QED
      BY <1>1, <1>5, <2>1, <2>4, <3>2, FileStates DEF PersistedIsOwn
  <2>8. TraceFitsPhase(w)'
    BY <1>1, <1>2, <1>5, <2>4 DEF TraceFitsPhase, Fits
  <2>9. CandidateContinues(w)' /\ HolderIsNext(w)' /\ CommittedIsSelected(w)'
    BY <1>1, <1>5, <2>4, <2>5, <2>6
       DEF CallInv, CandidateContinues, HolderIsNext, CommittedIsSelected, Expected, File
  <2>10. AnswerIsTrue(w)'
    BY <1>1, <1>5, <2>4, <2>6 DEF CallInv, AnswerIsTrue, InSelectedHistory
  <2>. QED
    BY <1>1, <2>3, <2>4, <2>5, <2>7, <2>8, <2>9, <2>10, QuietStep DEF CallInv
<1>. QED
  BY <1>3, <1>4, <1>5 DEF ClassifyCandidate, File

LEMMA ClassifySelectionStep ==
  ASSUME IInv, NEW w \in Writers, ClassifySelection(w)
  PROVE  IInv'
<1>1. /\ pc[w] = "select" /\ lock' \in Writers \cup {Nobody}
      /\ UNCHANGED <<revision, current, trace>> /\ NoFault
  BY CallFacts DEF ClassifySelection, store
<1>2. candidate[w] \in Registration
  BY <1>1, CandidatePath
<1>3. CASE persisted[w] # candidate[w]
  <2>1. trace[w] = "nothing"
    BY <1>1, <1>3, CallFacts DEF CallInv, PersistedIsOwn
  <2>2. \/ Return(w, "conflict", NoRegistration)
        \/ Return(w, "integrity", NoRegistration)
    BY <1>3 DEF ClassifySelection
  <2>. QED
    BY <1>1, <2>1, <2>2, AnswerStep DEF Kinds
<1>4. CASE Selected = candidate[w] /\ Return(w, "partial_selected", candidate[w])
  <2>1. current # 0
    BY <1>2, <1>4, NoRegistrationAssumption DEF Selected
  <2>2. InSelectedHistory(candidate[w])
    BY <1>4, <2>1, SelectedIsInHistory
  <2>. QED
    BY <1>1, <1>2, <1>4, <2>2, AnswerStep DEF Kinds, Selections
<1>5. CASE Return(w, "partial_unselected", candidate[w])
  BY <1>1, <1>2, <1>5, AnswerStep DEF Kinds, Selections
<1>. QED
  BY <1>3, <1>4, <1>5 DEF ClassifySelection


(***************************************************************************)
(* The actions that write a revision file                                  *)
(***************************************************************************)

(* Types are kept when a running call's own path changes. *)
LEMMA FileTypes ==
  ASSUME TypeOK, NEW w \in Writers, NEW file \in RevisionFile,
         revision' = [revision EXCEPT ![candidate[w].revision] = file],
         NEW left \in {"nothing", "orphan", "committed"}, trace' = [trace EXCEPT ![w] = left],
         UNCHANGED <<lock, current>>, NoFault \/ Fault,
         NEW phase \in Phases, NEW error \in Causes,
         Goto(w, phase) \/ Raise(w, error, phase)
  PROVE  TypeOK' /\ trace'[w] = left /\ trace' = [trace EXCEPT ![w] = trace'[w]]
<1>1. revision' \in [Revisions -> RevisionFile]
  BY DEF TypeOK
<1>2. trace' \in [Writers -> {"nothing", "orphan", "committed"}] /\ trace'[w] = left
  BY DEF TypeOK
<1>3. faults' \in 0 .. MaxFaults /\ crashes' \in 0 .. MaxCrashes
  BY Counters
<1>4. /\ pc' \in [Writers -> Phases] /\ cause' \in [Writers -> Causes]
      /\ UNCHANGED <<candidate, seen, persisted, outcome>>
  BY DEF TypeOK, Goto, Raise
<1>. QED
  BY <1>1, <1>2, <1>3, <1>4 DEF TypeOK

(***************************************************************************)
(* A call that created, or may create, the next revision puts at its path  *)
(* nothing, an unfinished file, or its candidate, and its trace says so.   *)
(***************************************************************************)
LEMMA OwnFileStep ==
  ASSUME IInv, NEW w \in Writers, pc[w] # "idle", Holder(w) \/ File(w) = Absent,
         NEW file \in {Absent, Torn, Complete(candidate[w])},
         revision' = [revision EXCEPT ![candidate[w].revision] = file],
         NEW left \in {"nothing", "orphan"}, trace' = [trace EXCEPT ![w] = left],
         file = Absent => left = "nothing",
         UNCHANGED <<lock, current>>, NoFault \/ Fault,
         NEW phase \in Phases, phase \notin {"idle", "publish", "select"},
         phase = "verify" => file = Complete(candidate[w]),
         NEW error \in Causes,
         (Goto(w, phase) /\ error = cause[w]) \/ Raise(w, error, phase),
         Fits(phase, error, left)
  PROVE  IInv'
<1>1. candidate[w] \in Registration /\ candidate[w].revision \in Revisions
  BY CandidatePath
<1>2. file \in RevisionFile
  BY <1>1, FileStates
<1>3. TypeOK' /\ trace'[w] = left /\ trace' = [trace EXCEPT ![w] = trace'[w]]
  BY <1>2, FileTypes DEF IInv
<1>4. OnlyCall(w) /\ pc'[w] = phase /\ UNCHANGED <<candidate, outcome>> /\ cause'[w] = error
  BY <1>3, CallFrames DEF IInv
<1>5. Expected(w) \in Nat /\ Expected(w) = current /\ candidate[w].revision = Expected(w) + 1
  BY CandidatePath, NoOtherHolder
<1>6. File(w)' = file /\ \A r \in Revisions : r # candidate[w].revision => revision'[r] = revision[r]
  BY <1>1, <1>4 DEF IInv, TypeOK, File
<1>7. CallInv(w)
  BY CallFacts
<1>8. CallInv(w)'
  <2>1. TraceFitsPhase(w)'
    BY <1>3, <1>4 DEF TraceFitsPhase
  <2>2. CandidateContinues(w)'
    <3>1. Expected(w) # 0 => Expected(w) \in Revisions /\ Expected(w) # candidate[w].revision
      BY <1>1, <1>5, ConstantsAssumption DEF Revisions
    <3>. QED
      BY <1>4, <1>6, <1>7, <3>1 DEF CallInv, CandidateContinues, Expected
  <2>3. HolderIsNext(w)'
    BY <1>3, <1>4, <1>5, <1>6 DEF HolderIsNext, Holder, Expected
  <2>4. CommittedIsSelected(w)' /\ PersistedIsOwn(w)'
    BY <1>3, <1>4 DEF CommittedIsSelected, PersistedIsOwn
  <2>5. AnswerIsTrue(w)'
    BY <1>4, <1>7 DEF CallInv, AnswerIsTrue, NoOutcome
  <2>. QED
    BY <2>1, <2>2, <2>3, <2>4, <2>5 DEF CallInv
<1>. QED
  BY <1>3, <1>4, <1>8, FileStep

LEMMA CreateRevisionStep ==
  ASSUME IInv, NEW w \in Writers, CreateRevision(w)
  PROVE  IInv'
<1>1. pc[w] = "create" /\ UNCHANGED <<lock, current>> /\ NoFault /\ lock' \in Writers \cup {Nobody}
  BY CallFacts DEF CreateRevision
<1>2. Fits("create", cause[w], trace[w]) /\ cause[w] \in Causes
  BY <1>1, CallFacts
<1>3. CASE /\ File(w) = Absent
           /\ revision' = [revision EXCEPT ![candidate[w].revision] = Torn]
           /\ trace' = [trace EXCEPT ![w] = "orphan"]
           /\ Goto(w, "fill")
  <2>1. Fits("fill", cause[w], "orphan")
    BY <1>2 DEF Fits
  <2>. QED
    BY <1>1, <1>2, <1>3, <2>1, FileStates, OwnFileStep DEF Phases, InCriticalSection
<1>4. CASE UNCHANGED <<revision, trace>> /\ Raise(w, "conflict", "release")
  <2>1. Fits("release", "conflict", trace[w])
    BY <1>2 DEF Fits
  <2>. QED
    BY <1>1, <1>4, <2>1, RaiseStep DEF Phases, InCriticalSection, Causes
<1>. QED
  BY <1>3, <1>4 DEF CreateRevision, File


LEMMA FillRevisionStep ==
  ASSUME IInv, NEW w \in Writers, FillRevision(w)
  PROVE  IInv'
<1>1. pc[w] = "fill" /\ UNCHANGED <<lock, current, trace>> /\ NoFault
  BY DEF FillRevision
<1>2. Fits("fill", cause[w], trace[w]) /\ cause[w] \in Causes
  BY <1>1, CallFacts
<1>3. Holder(w) /\ trace' = [trace EXCEPT ![w] = "orphan"] /\ Fits("verify", cause[w], "orphan")
  BY <1>1, <1>2 DEF Fits, Holder, IInv, TypeOK
<1>4. /\ revision' = [revision EXCEPT ![candidate[w].revision] = Complete(candidate[w])]
      /\ Goto(w, "verify") /\ "verify" \in Phases
  BY DEF FillRevision, Phases, InCriticalSection
<1>5. Complete(candidate[w]) # Absent
  BY FileStates
<1>. QED
  BY <1>1, <1>2, <1>3, <1>4, <1>5, OwnFileStep

(* Removing what the call created. *)
LEMMA RollbackStep ==
  ASSUME IInv, NEW w \in Writers, pc[w] \in {"fill", "verify"},
         Rollback(w), Raise(w, "write_error", "release"),
         UNCHANGED <<lock, current>>, NoFault \/ Fault
  PROVE  IInv'
<1>1. Fits(pc[w], cause[w], trace[w])
  BY CallFacts
<1>2. Holder(w) /\ Fits("release", "write_error", "nothing")
  BY <1>1 DEF Fits, Holder
<1>. QED
  BY <1>2, OwnFileStep DEF Rollback, Phases, InCriticalSection, Causes

LEMMA VerifyRevisionStep ==
  ASSUME IInv, NEW w \in Writers, VerifyRevision(w)
  PROVE  IInv'
<1>1. pc[w] = "verify" /\ UNCHANGED <<lock, current>> /\ NoFault
  BY DEF VerifyRevision
<1>2. CASE Rollback(w) /\ Raise(w, "write_error", "release")
  BY <1>1, <1>2, RollbackStep
<1>3. CASE /\ File(w) = Complete(candidate[w])
           /\ Goto(w, "publish") /\ UNCHANGED <<revision, trace>>
  <2>1. /\ TypeOK' /\ OnlyCall(w) /\ pc'[w] = "publish"
        /\ UNCHANGED <<candidate, cause, outcome>>
    <3>1. /\ trace' \in [Writers -> {"nothing", "orphan", "committed"}]
          /\ trace' = [trace EXCEPT ![w] = trace'[w]]
          /\ faults' \in 0 .. MaxFaults /\ crashes' \in 0 .. MaxCrashes
          /\ lock' \in Writers \cup {Nobody}
      BY <1>1, <1>3, Counters, CallFacts DEF IInv
    <3>. QED
      BY <1>1, <1>3, <3>1, CallTypes, CallFrames DEF IInv, Phases, InCriticalSection
  <2>2. Holder(w)' <=> Holder(w)
    BY <1>1, <1>3, <2>1 DEF Holder
  <2>3. CallInv(w) /\ TraceFitsPhase(w)'
    BY <1>1, <1>3, <2>1, CallFacts DEF TraceFitsPhase, Fits
  <2>4. CandidateContinues(w)' /\ HolderIsNext(w)' /\ CommittedIsSelected(w)'
    BY <1>1, <1>3, <2>1, <2>2, <2>3
       DEF CallInv, CandidateContinues, HolderIsNext, CommittedIsSelected, Expected, File
  <2>5. PersistedIsOwn(w)' /\ AnswerIsTrue(w)'
    BY <1>1, <1>3, <2>1, <2>3 DEF CallInv, PersistedIsOwn, AnswerIsTrue, NoOutcome
  <2>. QED
    BY <1>1, <1>3, <2>1, <2>2, <2>3, <2>4, <2>5, QuietStep DEF CallInv
<1>. QED
  BY <1>2, <1>3 DEF VerifyRevision, File

(***************************************************************************)
(* os.replace of current.json: nobody else has an unselected revision, so  *)
(* the pointer moves by one, to the complete candidate of this call.       *)
(***************************************************************************)
LEMMA PublishPointerStep ==
  ASSUME IInv, NEW w \in Writers, PublishPointer(w)
  PROVE  IInv'
<1>1. /\ pc[w] = "publish" /\ UNCHANGED <<lock, revision>> /\ NoFault
      /\ current' = candidate[w].revision /\ trace' = [trace EXCEPT ![w] = "committed"]
      /\ Goto(w, "confirm")
  BY DEF PublishPointer
<1>2. CallInv(w) /\ Fits("publish", cause[w], trace[w])
  BY <1>1, CallFacts
<1>3. Holder(w) /\ File(w) = Complete(candidate[w])
  BY <1>1, <1>2 DEF CallInv, HolderIsNext, Holder, Fits
<1>4. /\ candidate[w] \in Registration /\ candidate[w].revision \in Revisions
      /\ Expected(w) = current /\ current \in Nat /\ current' = current + 1
      /\ \A v \in Writers \ {w} : ~ Holder(v)
  BY <1>1, <1>3, CandidatePath, NoOtherHolder
<1>5. TypeOK' /\ trace'[w] = "committed" /\ OnlyCall(w) /\ pc'[w] = "confirm"
      /\ UNCHANGED <<candidate, cause, outcome>>
  <2>1. /\ trace' \in [Writers -> {"nothing", "orphan", "committed"}]
        /\ trace'[w] = "committed" /\ trace' = [trace EXCEPT ![w] = trace'[w]]
    BY <1>1 DEF IInv, TypeOK
  <2>2. current' \in 0 .. MaxRevision
    BY <1>1, <1>4, ConstantsAssumption DEF Revisions
  <2>3. pc' \in [Writers -> Phases]
    BY <1>1 DEF IInv, TypeOK, Goto, Phases, InCriticalSection
  <2>4. TypeOK'
    BY <1>1, <2>1, <2>2, <2>3 DEF IInv, TypeOK, Goto, NoFault
  <2>. QED
    BY <1>1, <2>1, <2>4, CallFrames DEF IInv
<1>6. ReachableComplete'
  <2>1. ASSUME NEW r \in 1 .. current'
        PROVE  \E x \in Registration : revision'[r] = Complete(x) /\ x.revision = r
    <3>1. CASE r = current'
      BY <1>1, <1>3, <1>4, <3>1 DEF File
    <3>2. CASE r # current'
      <4>1. r \in 1 .. current
        BY <1>4, <3>2
      <4>. QED
        BY <1>1, <4>1 DEF IInv, ReachableComplete
    <3>. QED
      BY <3>1, <3>2
  <2>. QED
    BY <2>1 DEF ReachableComplete
<1>7. Chained'
  <2>1. ASSUME NEW r \in 1 .. current' - 1
        PROVE  /\ revision[r + 1].content.created_at = revision[r].content.created_at
               /\ revision[r + 1].content.updated_at >= revision[r].content.updated_at
    <3>1. CASE r = current
      <4>1. revision[r + 1].content = candidate[w]
        BY <1>1, <1>3, <1>4, <3>1, FileStates DEF File
      <4>2. Expected(w) = r /\ Expected(w) # 0
        BY <1>4, <2>1, <3>1
      <4>. QED
        BY <1>1, <1>2, <4>1, <4>2 DEF CallInv, CandidateContinues
    <3>2. CASE r # current
      <4>1. r \in 1 .. current - 1
        BY <1>4, <2>1, <3>2
      <4>. QED
        BY <4>1 DEF IInv, Chained
    <3>. QED
      BY <3>1, <3>2
  <2>. QED
    BY <1>1, <2>1 DEF Chained
<1>8. NothingBeyondNext'
  <2>1. \A r \in Revisions : r <= current + 1 => r <= current' + 1
    BY <1>4, ConstantsAssumption DEF Revisions
  <2>2. Listed' = Listed /\ Listed \subseteq Revisions
    BY <1>1 DEF Listed
  <2>. QED
    BY <2>1, <2>2 DEF IInv, NothingBeyondNext
<1>9. OneHolder'
  BY <1>4, <1>5 DEF OneHolder, Holder, OnlyCall
<1>10. \A x : InSelectedHistory(x) => InSelectedHistory(x)'
  <2>1. \A r \in 1 .. current : r \in 1 .. current'
    BY <1>4
  <2>. QED
    BY <1>1, <2>1 DEF InSelectedHistory
<1>11. ASSUME NEW v \in Writers
       PROVE  CallInv(v)'
  <2>1. CallInv(v) /\ UNCHANGED <<candidate, revision>> /\ outcome'[v] = outcome[v]
    BY <1>1, <1>5, CallFacts
  <2>2. TraceFitsPhase(v)'
    <3>1. CASE v = w
      BY <1>2, <1>5, <3>1 DEF TraceFitsPhase, Fits
    <3>2. CASE v # w
      BY <1>5, <2>1, <3>2 DEF CallInv, TraceFitsPhase, OnlyCall
    <3>. QED
      BY <3>1, <3>2
  <2>3. pc'[v] # "idle" => pc[v] # "idle"
    BY <1>1, <1>5 DEF OnlyCall
  <2>4. CandidateContinues(v)'
    <3>1. ASSUME pc[v] # "idle"
          PROVE  Expected(v) <= current'
      <4>1. Expected(v) \in Nat /\ Expected(v) <= current
        BY <3>1, CandidatePath
      <4>. QED
        BY <1>4, <4>1
    <3>2. Expected(v)' = Expected(v)
      BY <2>1 DEF Expected
    <3>. QED
      BY <2>1, <2>3, <3>1, <3>2 DEF CallInv, CandidateContinues
  <2>5. HolderIsNext(v)'
    <3>1. ~ Holder(v)'
      BY <1>4, <1>5 DEF Holder, OnlyCall
    <3>. QED
      BY <3>1 DEF HolderIsNext
  <2>6. CommittedIsSelected(v)'
    <3>1. CASE v = w
      <4>1. candidate'[v].revision <= current'
        <5>1. candidate'[v].revision = current'
          BY <1>1, <2>1, <3>1
        <5>2. current' \in Nat
          BY <1>4
        <5>. QED
          BY <5>1, <5>2
      <4>2. File(v)' = Complete(candidate'[v])
        BY <1>3, <2>1, <3>1 DEF File
      <4>. QED
        BY <4>1, <4>2 DEF CommittedIsSelected
    <3>2. CASE v # w
      <4>1. SUFFICES ASSUME pc[v] # "idle", trace[v] = "committed"
                     PROVE  CommittedIsSelected(v)'
        BY <1>5, <3>2 DEF CommittedIsSelected, OnlyCall
      <4>2. candidate[v].revision \in Revisions /\ candidate[v].revision <= current
        BY <2>1, <4>1, CandidatePath DEF CallInv, CommittedIsSelected
      <4>3. candidate[v].revision <= current'
        BY <1>4, <4>2, ConstantsAssumption DEF Revisions
      <4>4. File(v)' = Complete(candidate'[v])
        BY <2>1, <4>1 DEF CallInv, CommittedIsSelected, File
      <4>. QED
        BY <2>1, <4>3, <4>4 DEF CommittedIsSelected
    <3>. QED
      BY <3>1, <3>2
  <2>7. PersistedIsOwn(v)'
    BY <1>5, <2>1 DEF CallInv, PersistedIsOwn, OnlyCall
  <2>8. AnswerIsTrue(v)'
    <3>1. CASE v = w
      BY <1>1, <2>1, <3>1 DEF CallInv, AnswerIsTrue, NoOutcome
    <3>2. CASE v # w
      BY <1>5, <1>10, <2>1, <3>2 DEF CallInv, AnswerIsTrue, OnlyCall
    <3>. QED
      BY <3>1, <3>2
  <2>. QED
    BY <2>2, <2>4, <2>5, <2>6, <2>7, <2>8 DEF CallInv
<1>. QED
  BY <1>5, <1>6, <1>7, <1>8, <1>9, <1>11 DEF IInv


(***************************************************************************)
(* Failing operations, crashes and cleared locks                           *)
(***************************************************************************)
LEMMA RevisionWriteFailsStep ==
  ASSUME IInv, NEW w \in Writers, RevisionWriteFails(w)
  PROVE  IInv'
<1>1. UNCHANGED <<lock, current>> /\ Fault /\ Raise(w, "write_error", "release")
  BY DEF RevisionWriteFails
<1>2. CASE pc[w] \in {"fill", "verify"} /\ Rollback(w)
  BY <1>1, <1>2, RollbackStep
<1>3. CASE pc[w] = "create" /\ UNCHANGED <<revision, trace>>
  <2>1. Fits("release", "write_error", trace[w]) /\ lock' \in Writers \cup {Nobody}
    BY <1>1, CallFacts DEF Fits
  <2>. QED
    BY <1>1, <1>3, <2>1, RaiseStep DEF Phases, InCriticalSection, Causes
<1>. QED
  BY <1>2, <1>3 DEF RevisionWriteFails

(* The revision file stays behind: an orphan, and the call knows. *)
LEMMA RollbackFailsStep ==
  ASSUME IInv, NEW w \in Writers, RollbackFails(w)
  PROVE  IInv'
<1>1. /\ pc[w] \in {"fill", "verify"} /\ Raise(w, "write_error", "release")
      /\ UNCHANGED <<lock, revision, current, trace>>
  BY DEF RollbackFails, store
<1>2. faults' \in 0 .. MaxFaults /\ crashes' \in 0 .. MaxCrashes
  BY ConstantsAssumption DEF IInv, TypeOK, RollbackFails
<1>3. /\ trace' \in [Writers -> {"nothing", "orphan", "committed"}]
      /\ trace' = [trace EXCEPT ![w] = trace'[w]] /\ lock' \in Writers \cup {Nobody}
  BY <1>1, Counters, CallFacts DEF IInv
<1>4. TypeOK'
  BY <1>1, <1>2, <1>3, CallTypes DEF IInv, Phases, InCriticalSection, Causes
<1>5. OnlyCall(w) /\ pc'[w] = "release" /\ cause'[w] = "write_error" /\ UNCHANGED <<candidate, outcome>>
  BY <1>1, <1>3, CallFrames DEF IInv
<1>6. TraceFitsPhase(w)'
  BY <1>5 DEF TraceFitsPhase, Fits
<1>. QED
  BY <1>1, <1>4, <1>5, <1>6, GoOnStep

LEMMA FirstReadFailsStep ==
  ASSUME IInv, NEW w \in Writers, FirstReadFails(w)
  PROVE  IInv'
<1>1. /\ trace' \in [Writers -> {"nothing", "orphan", "committed"}]
      /\ trace' = [trace EXCEPT ![w] = trace'[w]] /\ trace'[w] = "nothing"
      /\ faults' \in 0 .. MaxFaults /\ crashes' \in 0 .. MaxCrashes
      /\ lock' \in Writers \cup {Nobody} /\ UNCHANGED <<revision, current>>
  BY Counters, CallFacts DEF IInv, FirstReadFails, store
<1>. QED
  BY <1>1, ReturnStep DEF FirstReadFails, Kinds

(* The failures that only change what the call is about to raise. *)
LEMMA RaisedFailureStep ==
  ASSUME IInv, NEW w \in Writers,
         AcquireFails(w) \/ StateReadFails(w) \/ PublishFails(w) \/ ConfirmFails(w)
  PROVE  IInv'
<1>1. /\ UNCHANGED <<revision, current, trace>> /\ Fault /\ pc[w] # "idle"
      /\ lock' \in Writers \cup {Nobody}
  BY CallFacts DEF AcquireFails, StateReadFails, PublishFails, ConfirmFails, store
<1>2. CASE AcquireFails(w)
  <2>1. Fits("classify", "write_error", trace[w])
    BY DEF Fits
  <2>. QED
    BY <1>1, <1>2, <2>1, RaiseStep DEF AcquireFails, Phases, Causes
<1>3. CASE StateReadFails(w)
  <2>1. Fits("release", "read_error", trace[w])
    BY <1>3, CallFacts DEF StateReadFails, Fits
  <2>. QED
    BY <1>1, <1>3, <2>1, RaiseStep DEF StateReadFails, Phases, InCriticalSection, Causes
<1>4. CASE PublishFails(w)
  <2>1. Fits("release", "write_error", trace[w])
    BY DEF Fits
  <2>. QED
    BY <1>1, <1>4, <2>1, RaiseStep DEF PublishFails, Phases, InCriticalSection, Causes
<1>5. CASE ConfirmFails(w)
  <2>1. Fits("release", "integrity", trace[w])
    BY DEF Fits
  <2>. QED
    BY <1>1, <1>5, <2>1, RaiseStep DEF ConfirmFails, Phases, InCriticalSection, Causes
<1>. QED
  BY <1>2, <1>3, <1>4, <1>5

LEMMA LastReadFailsStep ==
  ASSUME IInv, NEW w \in Writers, LastReadFails(w)
  PROVE  IInv'
<1>1. /\ UNCHANGED <<revision, current, trace>> /\ Fault /\ lock' \in Writers \cup {Nobody}
      /\ pc[w] # "idle"
  BY CallFacts DEF LastReadFails, store
<1>2. candidate[w] \in Registration
  BY <1>1, CandidatePath
<1>3. CASE Return(w, "partial_uncertain", candidate[w])
  BY <1>1, <1>2, <1>3, AnswerStep DEF Kinds, Selections
<1>4. CASE Return(w, "integrity", NoRegistration)
  BY <1>1, <1>4, AnswerStep DEF Kinds
<1>5. CASE pc[w] = "reconcile" /\ Return(w, "write_error", NoRegistration)
  <2>1. trace[w] = "nothing"
    BY <1>5, CallFacts DEF Fits
  <2>. QED
    BY <1>1, <1>5, <2>1, AnswerStep DEF Kinds
<1>. QED
  BY <1>3, <1>4, <1>5 DEF LastReadFails

LEMMA FileErrorStep ==
  ASSUME IInv, NEW w \in Writers, FileError(w)
  PROVE  IInv'
<1>1. CASE ReleaseFails(w)
  <2>1. /\ pc[w] = "release" /\ AfterWriter(w) /\ Fault
        /\ lock' \in Writers \cup {Nobody} /\ UNCHANGED <<revision, current, trace>>
    BY <1>1, CallFacts DEF ReleaseFails, store
  <2>. QED
    BY <2>1, AfterWriterStep
<1>. QED
  BY <1>1, FirstReadFailsStep, RaisedFailureStep, RevisionWriteFailsStep, RollbackFailsStep,
     LastReadFailsStep DEF FileError

LEMMA CrashStep ==
  ASSUME IInv, NEW w \in Writers, Crash(w)
  PROVE  IInv'
<1>1. /\ trace' \in [Writers -> {"nothing", "orphan", "committed"}]
      /\ trace' = [trace EXCEPT ![w] = trace'[w]]
      /\ lock' \in Writers \cup {Nobody} /\ UNCHANGED <<revision, current>>
  BY Counters, CallFacts DEF IInv, Crash, store
<1>2. faults' \in 0 .. MaxFaults /\ crashes' \in 0 .. MaxCrashes
  BY ConstantsAssumption DEF IInv, TypeOK, Crash
<1>. QED
  BY <1>1, <1>2, ReturnStep DEF Crash, Kinds

(* The lock plays no part in IInv: clearing it, or nothing at all, disturbs nothing. *)
LEMMA NothingButLock ==
  ASSUME IInv, lock' \in Writers \cup {Nobody},
         UNCHANGED <<revision, current, call, trace, faults, crashes>>
  PROVE  IInv'
<1>. USE DEF IInv, call
<1>1. TypeOK'
  BY DEF TypeOK
<1>2. ReachableComplete' /\ Chained' /\ NothingBeyondNext'
  BY DEF ReachableComplete, Chained, NothingBeyondNext, Listed
<1>3. OneHolder'
  BY DEF OneHolder, Holder
<1>4. ASSUME NEW w \in Writers
      PROVE  CallInv(w)'
  <2>1. CallInv(w)
    OBVIOUS
  <2>2. TraceFitsPhase(w)' /\ PersistedIsOwn(w)' /\ AnswerIsTrue(w)'
    BY <2>1 DEF CallInv, TraceFitsPhase, PersistedIsOwn, AnswerIsTrue, InSelectedHistory
  <2>3. CandidateContinues(w)' /\ HolderIsNext(w)' /\ CommittedIsSelected(w)'
    BY <2>1 DEF CallInv, CandidateContinues, HolderIsNext, Holder, CommittedIsSelected, Expected, File
  <2>. QED
    BY <2>2, <2>3 DEF CallInv
<1>. QED
  BY <1>1, <1>2, <1>3, <1>4

(***************************************************************************)
(* The theorems                                                            *)
(***************************************************************************)

(* The empty directory, with no call running, satisfies the inductive invariant. *)
LEMMA InitIInv ==
  ASSUME Init
  PROVE  IInv
<1>. USE DEF Init
<1>1. TypeOK
  <2>1. revision \in [Revisions -> RevisionFile]
    BY DEF RevisionFile
  <2>2. pc \in [Writers -> Phases] /\ cause \in [Writers -> Causes] /\ outcome \in [Writers -> Outcome]
    BY DEF Phases, Causes, Outcome, NoOutcome, Kinds
  <2>. QED
    BY <2>1, <2>2, ConstantsAssumption DEF TypeOK
<1>2. ReachableComplete /\ Chained
  BY DEF ReachableComplete, Chained
<1>3. NothingBeyondNext
  BY DEF NothingBeyondNext, Listed
<1>4. OneHolder
  BY DEF OneHolder, Holder
<1>5. ASSUME NEW w \in Writers
      PROVE  CallInv(w)
  <2>1. TraceFitsPhase(w) /\ PersistedIsOwn(w) /\ AnswerIsTrue(w)
    BY DEF TraceFitsPhase, Fits, PersistedIsOwn, AnswerIsTrue, NoOutcome
  <2>2. CandidateContinues(w) /\ HolderIsNext(w) /\ CommittedIsSelected(w)
    BY DEF CandidateContinues, HolderIsNext, Holder, CommittedIsSelected
  <2>. QED
    BY <2>1, <2>2 DEF CallInv
<1>. QED
  BY <1>1, <1>2, <1>3, <1>4, <1>5 DEF IInv

(* Every step, of every call, every failure, crash and cleared lock, preserves it. *)
LEMMA NextIInv ==
  ASSUME IInv, [Next]_vars
  PROVE  IInv'
<1>1. ASSUME NEW w \in Writers, Step(w)
      PROVE  IInv'
  BY <1>1, ListRevisionsStep, AcquireLockStep, ReadPointerStep, ScanRevisionsStep,
     CreateRevisionStep, FillRevisionStep, VerifyRevisionStep, PublishPointerStep,
     ConfirmPointerStep, ReleaseLockStep, ReloadSelectedStep, ReconcileConflictStep,
     ClassifyCandidateStep, ClassifySelectionStep
     DEF Step
<1>2. CASE ClearLock
  BY <1>2, NothingButLock DEF ClearLock
<1>3. CASE UNCHANGED vars
  BY <1>3, NothingButLock DEF vars, store, IInv, TypeOK
<1>. QED
  BY <1>1, <1>2, <1>3, RegisterStep, UpdateStep, FileErrorStep, CrashStep DEF Next

(* The inductive invariant holds in every reachable state. *)
THEOREM Invariance == Spec => []IInv
BY InitIInv, NextIInv, PTL DEF Spec

(* Every variable keeps its declared type. *)
THEOREM TypeCorrect == Spec => []TypeOK
<1>1. IInv => TypeOK
  BY DEF IInv
<1>. QED
  BY <1>1, Invariance, PTL

(***************************************************************************)
(* current.json names a complete revision with a complete, chained history *)
(* below it, in every reachable state, lock or no lock.                    *)
(***************************************************************************)
THEOREM SelectedHistoryHolds == Spec => []SelectedHistory
<1>1. IInv => SelectedHistory
  BY DEF IInv, SelectedHistory
<1>. QED
  BY <1>1, Invariance, PTL

(* There is one unselected revision at most, and one live call that owns it. *)
THEOREM OneUnselectedRevisionHolds == Spec => []OneUnselectedRevision
<1>1. ASSUME IInv
      PROVE  OneUnselectedRevision
  <2>1. ASSUME NEW w \in Writers, Owner(w)
        PROVE  Holder(w)
    BY <1>1, <2>1, CallFacts DEF Owner, Holder, Fits
  <2>. QED
    BY <1>1, <2>1 DEF OneUnselectedRevision, IInv, NothingBeyondNext, OneHolder
<1>. QED
  BY <1>1, Invariance, PTL

(* What a call acknowledged is in the selected history. *)
THEOREM AcknowledgedIsDurableHolds == Spec => []AcknowledgedIsDurable
<1>1. IInv => AcknowledgedIsDurable
  BY DEF IInv, CallInv, AnswerIsTrue, AcknowledgedIsDurable
<1>. QED
  BY <1>1, Invariance, PTL

(* A call that failed plainly left neither a selected revision nor an orphan. *)
THEOREM PlainFailureLeftNothingHolds == Spec => []PlainFailureLeftNothing
<1>1. IInv => PlainFailureLeftNothing
  BY DEF IInv, CallInv, AnswerIsTrue, PlainFailureLeftNothing
<1>. QED
  BY <1>1, Invariance, PTL


(***************************************************************************)
(* What a step may do to the files, from IInv                              *)
(***************************************************************************)

(* The only steps that touch a revision file write at a path with no selected revision ... *)
LEMMA RevisionFrame ==
  ASSUME IInv, Next
  PROVE  \/ UNCHANGED revision
         \/ \E w \in Writers :
              /\ pc[w] # "idle" /\ (Holder(w) \/ File(w) = Absent)
              /\ \E file : revision' = [revision EXCEPT ![candidate[w].revision] = file]
<1>1. ASSUME NEW w \in Writers, Step(w), revision' # revision
      PROVE  /\ pc[w] # "idle" /\ (Holder(w) \/ File(w) = Absent)
             /\ \E file : revision' = [revision EXCEPT ![candidate[w].revision] = file]
  <2>1. CreateRevision(w) \/ FillRevision(w) \/ VerifyRevision(w)
    BY <1>1 DEF Step, ListRevisions, AcquireLock, ReadPointer, ScanRevisions, PublishPointer,
       ConfirmPointer, ReleaseLock, ReloadSelected, ReconcileConflict, ClassifyCandidate,
       ClassifySelection, store
  <2>2. CASE CreateRevision(w)
    BY <1>1, <2>2 DEF CreateRevision, File
  <2>3. CASE FillRevision(w) \/ VerifyRevision(w)
    <3>1. pc[w] \in {"fill", "verify"}
      BY <2>3 DEF FillRevision, VerifyRevision
    <3>2. Holder(w)
      BY <3>1, CallFacts DEF Holder, Fits
    <3>. QED
      BY <1>1, <2>3, <3>1, <3>2 DEF FillRevision, VerifyRevision, Rollback
  <2>. QED
    BY <2>1, <2>2, <2>3
<1>2. ASSUME NEW w \in Writers, FileError(w), revision' # revision
      PROVE  /\ pc[w] # "idle" /\ (Holder(w) \/ File(w) = Absent)
             /\ \E file : revision' = [revision EXCEPT ![candidate[w].revision] = file]
  <2>1. RevisionWriteFails(w)
    BY <1>2 DEF FileError, FirstReadFails, AcquireFails, StateReadFails, RollbackFails,
       PublishFails, ConfirmFails, ReleaseFails, LastReadFails, store
  <2>2. pc[w] \in {"fill", "verify"} /\ Rollback(w)
    BY <1>2, <2>1 DEF RevisionWriteFails
  <2>3. Holder(w)
    BY <2>2, CallFacts DEF Holder, Fits
  <2>. QED
    BY <2>2, <2>3 DEF Rollback
<1>. QED
  BY <1>1, <1>2 DEF Next, Register, Update, Crash, ClearLock, store

(* ... and the only step that moves the pointer is a publication. *)
LEMMA PointerFrame ==
  ASSUME Next
  PROVE  UNCHANGED current \/ \E w \in Writers : PublishPointer(w)
BY DEF Next, Register, Update, Crash, ClearLock, Step, FileError, ListRevisions, AcquireLock,
   ReadPointer, ScanRevisions, CreateRevision, FillRevision, VerifyRevision, ConfirmPointer,
   ReleaseLock, ReloadSelected, ReconcileConflict, ClassifyCandidate, ClassifySelection,
   FirstReadFails, AcquireFails, StateReadFails, RevisionWriteFails, RollbackFails,
   PublishFails, ConfirmFails, ReleaseFails, LastReadFails, store

(* A step leaves every selected revision as it is. *)
LEMMA SelectedStays ==
  ASSUME IInv, Next, NEW r \in Revisions, r <= current
  PROVE  revision'[r] = revision[r]
<1>1. CASE UNCHANGED revision
  BY <1>1
<1>2. CASE \E w \in Writers :
             /\ pc[w] # "idle" /\ (Holder(w) \/ File(w) = Absent)
             /\ \E file : revision' = [revision EXCEPT ![candidate[w].revision] = file]
  <2>1. PICK w \in Writers :
               /\ pc[w] # "idle" /\ (Holder(w) \/ File(w) = Absent)
               /\ \E file : revision' = [revision EXCEPT ![candidate[w].revision] = file]
    BY <1>2
  <2>2. candidate[w].revision = current + 1 /\ current \in Nat
    <3>1. Expected(w) \in Nat /\ candidate[w].revision = Expected(w) + 1
      BY <2>1, CandidatePath
    <3>2. Expected(w) = current
      BY <2>1, NoOtherHolder
    <3>. QED
      BY <3>1, <3>2
  <2>3. r # candidate[w].revision
    BY <2>2
  <2>. QED
    BY <2>1, <2>3 DEF IInv, TypeOK
<1>. QED
  BY <1>1, <1>2, RevisionFrame

(* A selected revision is never replaced or removed. *)
THEOREM HistoryIsImmutableHolds == Spec => HistoryIsImmutable
<1>1. ASSUME IInv, [Next]_vars
      PROVE  [\A r \in Revisions : r <= current => revision'[r] = revision[r]]_vars
  BY <1>1, SelectedStays
<1>. QED
  BY <1>1, Invariance, PTL DEF Spec, HistoryIsImmutable

(* The pointer moves by one, to the revision a live call has just created. *)
THEOREM OrphanNeverPromotedHolds == Spec => OrphanNeverPromoted
<1>1. ASSUME IInv, [Next]_vars
      PROVE  [current' # current =>
                /\ current' = current + 1
                /\ \E w \in Writers :
                     Owner(w) /\ trace[w] = "orphan" /\ candidate[w].revision = current']_vars
  <2>1. SUFFICES ASSUME Next, current' # current
                 PROVE  /\ current' = current + 1
                        /\ \E w \in Writers :
                             Owner(w) /\ trace[w] = "orphan" /\ candidate[w].revision = current'
    BY <1>1
  <2>2. PICK w \in Writers : PublishPointer(w)
    BY <2>1, PointerFrame
  <2>3. pc[w] = "publish" /\ current' = candidate[w].revision
    BY <2>2 DEF PublishPointer
  <2>4. Holder(w)
    BY <1>1, <2>3, CallFacts DEF Fits, Holder
  <2>5. candidate[w].revision = current + 1
    BY <1>1, <2>3, <2>4, CandidatePath, NoOtherHolder
  <2>. QED
    BY <2>3, <2>4, <2>5 DEF Owner, Holder
<1>. QED
  BY <1>1, Invariance, PTL DEF Spec, OrphanNeverPromoted

(***************************************************************************)
(* Entering and leaving the critical section                               *)
(***************************************************************************)

(* A step that does not concern v leaves v where it is. *)
LEMMA PhaseFrame ==
  ASSUME TypeOK, [Next]_vars, NEW v \in Writers, pc'[v] # pc[v]
  PROVE  \/ \E metadata \in Metadata : Register(v, metadata)
         \/ \E metadata \in Metadata, expected \in Revisions : Update(v, metadata, expected)
         \/ Step(v) \/ FileError(v) \/ Crash(v)
<1>1. ASSUME NEW w \in Writers, w # v,
             \/ \E kind, x : Return(w, kind, x)
             \/ \E x : Prepare(w, x)
             \/ \E phase : pc' = [pc EXCEPT ![w] = phase]
      PROVE  FALSE
  BY <1>1 DEF Return, Prepare, TypeOK
<1>2. ASSUME NEW w \in Writers, NEW metadata \in Metadata,
             Register(w, metadata) \/ \E expected \in Revisions : Update(w, metadata, expected)
      PROVE  (\E kind, x : Return(w, kind, x)) \/ (\E x : Prepare(w, x))
  BY <1>2 DEF Register, Update
<1>3. ASSUME NEW w \in Writers, NEW phase, NEW error, NEW kind, NEW x,
             Goto(w, phase) \/ Raise(w, error, phase) \/ Return(w, kind, x)
      PROVE  \E p : pc' = [pc EXCEPT ![w] = p]
  BY <1>3 DEF Goto, Raise, Return
<1>4. ASSUME NEW w \in Writers, AfterWriter(w)
      PROVE  \E p : pc' = [pc EXCEPT ![w] = p]
  BY <1>3, <1>4 DEF AfterWriter, TypeOK, Causes
<1>5. ASSUME NEW w \in Writers, Step(w)
      PROVE  \E p : pc' = [pc EXCEPT ![w] = p]
  <2>1. CASE ReadPointer(w) \/ ClassifyCandidate(w)
    BY <1>3, <2>1 DEF ReadPointer, ClassifyCandidate
  <2>2. CASE ~ ReadPointer(w) /\ ~ ClassifyCandidate(w)
    BY <1>3, <1>4, <1>5, <2>2 DEF Step, ListRevisions, AcquireLock, ScanRevisions, CreateRevision,
       FillRevision, VerifyRevision, PublishPointer, ConfirmPointer, ReleaseLock, ReloadSelected,
       ReconcileConflict, ClassifySelection
  <2>. QED
    BY <2>1, <2>2
<1>6. ASSUME NEW w \in Writers, FileError(w)
      PROVE  \E p : pc' = [pc EXCEPT ![w] = p]
  BY <1>3, <1>4, <1>6 DEF FileError, FirstReadFails, AcquireFails, StateReadFails,
     RevisionWriteFails, RollbackFails, PublishFails, ConfirmFails, ReleaseFails, LastReadFails
<1>. QED
  BY <1>1, <1>2, <1>5, <1>6 DEF Next, Crash, ClearLock, vars, call

(* The one way in is open("x") on the lock file. *)
LEMMA OneWayIn ==
  ASSUME TypeOK, [Next]_vars, NEW v \in Writers, ~ Active(v), Active(v)'
  PROVE  lock' = v
<1>. USE DEF Active, InCriticalSection
<1>1. pc'[v] # pc[v]
  OBVIOUS
<1>2. ASSUME NEW kind, NEW x, Return(v, kind, x)
      PROVE  FALSE
  BY <1>2 DEF Return, TypeOK
<1>3. ASSUME NEW x, Prepare(v, x)
      PROVE  FALSE
  BY <1>3 DEF Prepare, TypeOK
<1>4. ASSUME NEW phase, phase \notin InCriticalSection, pc' = [pc EXCEPT ![v] = phase]
      PROVE  FALSE
  BY <1>4 DEF TypeOK
<1>5. ~ Crash(v) /\ \A metadata, expected : ~ Register(v, metadata) /\ ~ Update(v, metadata, expected)
  BY <1>2, <1>3 DEF Crash, Register, Update
<1>6. ~ FileError(v)
  BY <1>2, <1>4 DEF FileError, FirstReadFails, AcquireFails, StateReadFails, RevisionWriteFails,
     RollbackFails, PublishFails, ConfirmFails, ReleaseFails, LastReadFails, Raise
<1>7. ASSUME Step(v)
      PROVE  AcquireLock(v)
  BY <1>2, <1>4, <1>7 DEF Step, ListRevisions, ReadPointer, ScanRevisions, CreateRevision,
     FillRevision, VerifyRevision, PublishPointer, ConfirmPointer, ReleaseLock, ReloadSelected,
     ReconcileConflict, ClassifyCandidate, ClassifySelection, Goto
<1>8. AcquireLock(v)
  BY <1>1, <1>5, <1>6, <1>7, PhaseFrame
<1>. QED
  BY <1>4, <1>8 DEF AcquireLock, Raise

(***************************************************************************)
(* Under the recovery guide's clearing procedure two calls are never       *)
(* between taking and removing the lock at the same time.                  *)
(***************************************************************************)
THEOREM MutualExclusionHolds ==
  ASSUME GuardedClearing
  PROVE  Spec => []MutualExclusion
<1>1. Init => MutualExclusion
  BY DEF Init, MutualExclusion, Active, InCriticalSection
<1>2. ASSUME TypeOK, MutualExclusion, [Next]_vars, NEW v \in Writers, Active(v)'
      PROVE  lock' = v
  <2>1. CASE ~ Active(v)
    BY <1>2, <2>1, OneWayIn
  <2>2. CASE Active(v) /\ lock' # lock
    <3>1. lock = v /\ lock # Nobody
      BY <1>2, <2>2, ConstantsAssumption DEF MutualExclusion
    <3>2. ~ ClearLock
      BY <1>2, <2>2, <3>1 DEF ClearLock
    <3>3. PICK w \in Writers : ReleaseLock(w)
      BY <1>2, <2>2, <3>1, <3>2
         DEF Next, Register, Update, Crash, Step, FileError, ListRevisions, AcquireLock,
         ReadPointer, ScanRevisions, CreateRevision, FillRevision, VerifyRevision, PublishPointer,
         ConfirmPointer, ReloadSelected, ReconcileConflict, ClassifyCandidate, ClassifySelection,
         FirstReadFails, AcquireFails, StateReadFails, RevisionWriteFails, RollbackFails,
         PublishFails, ConfirmFails, ReleaseFails, LastReadFails, store, vars
    <3>4. Active(w)
      BY <3>3 DEF ReleaseLock, Active, InCriticalSection
    <3>5. w = v
      BY <1>2, <3>1, <3>4 DEF MutualExclusion
    <3>6. ~ Active(v)'
      BY <1>2, <3>3, <3>5
         DEF ReleaseLock, AfterWriter, Goto, Return, Active, InCriticalSection, TypeOK, Causes
    <3>. QED
      BY <1>2, <3>6
  <2>3. CASE Active(v) /\ lock' = lock
    BY <1>2, <2>3 DEF MutualExclusion
  <2>. QED
    BY <2>1, <2>2, <2>3
<1>3. TypeOK /\ MutualExclusion /\ [Next]_vars => MutualExclusion'
  BY <1>2 DEF MutualExclusion
<1>. QED
  BY <1>1, <1>3, TypeCorrect, PTL DEF Spec

-----------------------------------------------------------------------------
(***************************************************************************)
(* The refinement: every step of RegistrationStore is a step of the        *)
(* abstract RevisionHistory under the mapping of MCRegistrationStore, or   *)
(* changes nothing there.                                                  *)
(***************************************************************************)

(***************************************************************************)
(* What a step of a call does to the mapped variables, whichever action it *)
(* is: the pointer, who runs, who has committed and what was answered.     *)
(***************************************************************************)
CommitmentKept(w) == trace'[w] = "committed" <=> trace[w] = "committed"

(* The call begins, and goes on. *)
Begins(w) ==
  /\ pc[w] = "idle" /\ pc'[w] # "idle"
  /\ outcome' = [outcome EXCEPT ![w] = NoOutcome] /\ trace'[w] = "nothing"

(* The call runs before and after. *)
GoesOn(w) == pc[w] # "idle" /\ pc'[w] # "idle" /\ UNCHANGED outcome /\ CommitmentKept(w)

(* The call is answered, at once or after it has run. *)
Answers(w) ==
  /\ pc'[w] = "idle" /\ outcome' = [outcome EXCEPT ![w] = outcome'[w]] /\ outcome'[w].kind # "none"
  /\ IF pc[w] = "idle" THEN trace'[w] = "nothing" ELSE CommitmentKept(w)
  /\ outcome'[w].kind \in {"created", "updated"} => pc[w] = "reload"

(* The process dies. *)
Dies(w) ==
  /\ pc[w] # "idle" /\ pc'[w] = "idle"
  /\ outcome' = [outcome EXCEPT ![w] = NoOutcome] /\ CommitmentKept(w)

StepOf(w) ==
  /\ OnlyCall(w) /\ UNCHANGED current
  /\ Begins(w) \/ GoesOn(w) \/ Answers(w) \/ Dies(w)

(* The ways a call goes on are such steps. *)
LEMMA MappedFrames ==
  ASSUME TypeOK, NEW w \in Writers, UNCHANGED current, trace' = [trace EXCEPT ![w] = trace'[w]]
  PROVE  /\ \A phase : Goto(w, phase) /\ pc[w] # "idle" /\ phase # "idle" /\ CommitmentKept(w) =>
              StepOf(w)
         /\ \A error, phase : Raise(w, error, phase) /\ pc[w] # "idle" /\ phase # "idle" /\ CommitmentKept(w) =>
              StepOf(w)
         /\ \A kind, x : Return(w, kind, x) /\ kind # "none" /\ (kind \in {"created", "updated"} => pc[w] = "reload")
                           /\ (IF pc[w] = "idle" THEN trace'[w] = "nothing" ELSE CommitmentKept(w)) =>
              StepOf(w)
<1>1. ASSUME NEW phase, Goto(w, phase), pc[w] # "idle", phase # "idle", CommitmentKept(w)
      PROVE  StepOf(w)
  BY <1>1, CallFrames DEF StepOf, GoesOn
<1>2. ASSUME NEW error, NEW phase, Raise(w, error, phase), pc[w] # "idle", phase # "idle", CommitmentKept(w)
      PROVE  StepOf(w)
  BY <1>2, CallFrames DEF StepOf, GoesOn
<1>3. ASSUME NEW kind, NEW x, Return(w, kind, x), kind # "none", kind \in {"created", "updated"} => pc[w] = "reload",
             IF pc[w] = "idle" THEN trace'[w] = "nothing" ELSE CommitmentKept(w)
      PROVE  StepOf(w)
  <2>1. OnlyCall(w) /\ pc'[w] = "idle" /\ outcome'[w] = [kind |-> kind, registration |-> x]
    BY <1>3, CallFrames
  <2>2. outcome' = [outcome EXCEPT ![w] = outcome'[w]]
    BY <1>3, <2>1 DEF Return
  <2>. QED
    BY <1>3, <2>1, <2>2 DEF StepOf, Answers
<1>. QED
  BY <1>1, <1>2, <1>3

(* The services up to the strict writer. *)
LEMMA ServiceSteps ==
  ASSUME IInv, NEW w \in Writers, NEW metadata \in Metadata, NEW expected \in Revisions,
         Register(w, metadata) \/ Update(w, metadata, expected)
  PROVE  StepOf(w)
<1>1. /\ pc[w] = "idle" /\ UNCHANGED current /\ trace' = [trace EXCEPT ![w] = "nothing"]
      /\ trace' = [trace EXCEPT ![w] = trace'[w]] /\ trace'[w] = "nothing" /\ TypeOK
  BY DEF Register, Update, store, IInv, TypeOK
<1>2. \/ \E x : Prepare(w, x)
      \/ \E kind \in {"existing", "conflict", "not_found"} : \E x : Return(w, kind, x)
  BY DEF Register, Update
<1>3. ASSUME NEW x, Prepare(w, x)
      PROVE  StepOf(w)
  BY <1>1, <1>3 DEF Prepare, TypeOK, StepOf, OnlyCall, Begins
<1>. QED
  BY <1>1, <1>2, <1>3, MappedFrames

(* Actions that read, or write nothing but the lock file. *)
LEMMA ReadingSteps ==
  ASSUME IInv, NEW w \in Writers,
         ListRevisions(w) \/ AcquireLock(w) \/ ReadPointer(w) \/ ScanRevisions(w) \/ ConfirmPointer(w)
  PROVE  StepOf(w)
<1>1. /\ pc[w] \in {"list", "acquire", "validate", "scan", "confirm"} /\ UNCHANGED <<current, trace>>
      /\ TypeOK /\ trace' = [trace EXCEPT ![w] = trace'[w]] /\ CommitmentKept(w)
  BY DEF ListRevisions, AcquireLock, ReadPointer, ScanRevisions, ConfirmPointer, store, IInv, TypeOK,
         CommitmentKept
<1>2. CASE ReadPointer(w)
  BY <1>1, <1>2 DEF ReadPointer, TypeOK, StepOf, OnlyCall, GoesOn
<1>3. CASE ListRevisions(w) \/ AcquireLock(w) \/ ScanRevisions(w) \/ ConfirmPointer(w)
  <2>1. \/ Return(w, "integrity", NoRegistration)
        \/ \E phase \in {"acquire", "validate", "create", "release"} : Goto(w, phase)
        \/ \E error, phase : Raise(w, error, phase) /\ phase # "idle"
    BY <1>3 DEF ListRevisions, AcquireLock, ScanRevisions, ConfirmPointer
  <2>. QED
    BY <1>1, <2>1, MappedFrames
<1>. QED
  BY <1>2, <1>3

(* The revision file is created, filled and read back. *)
LEMMA RevisionSteps ==
  ASSUME IInv, NEW w \in Writers,
         CreateRevision(w) \/ FillRevision(w) \/ VerifyRevision(w) \/ RevisionWriteFails(w) \/ RollbackFails(w)
  PROVE  StepOf(w)
<1>1. /\ pc[w] \in {"create", "fill", "verify"} /\ UNCHANGED current
      /\ trace' = trace \/ trace' = [trace EXCEPT ![w] = "orphan"] \/ trace' = [trace EXCEPT ![w] = "nothing"]
      /\ TypeOK
  BY DEF CreateRevision, FillRevision, VerifyRevision, RevisionWriteFails, RollbackFails, Rollback,
         store, IInv
<1>2. trace[w] # "committed"
  BY <1>1, CallFacts DEF Fits
<1>3. trace' = [trace EXCEPT ![w] = trace'[w]] /\ CommitmentKept(w)
  BY <1>1, <1>2 DEF TypeOK, CommitmentKept
<1>4. \/ \E phase \in {"fill", "verify", "publish"} : Goto(w, phase)
      \/ \E error : Raise(w, error, "release")
  BY DEF CreateRevision, FillRevision, VerifyRevision, RevisionWriteFails, RollbackFails
<1>. QED
  BY <1>1, <1>3, <1>4, MappedFrames

(* The writer is through, with or without its lock. *)
LEMMA LeavingSteps ==
  ASSUME IInv, NEW w \in Writers, ReleaseLock(w) \/ ReleaseFails(w)
  PROVE  StepOf(w)
<1>1. /\ pc[w] = "release" /\ UNCHANGED <<current, trace>> /\ AfterWriter(w)
      /\ TypeOK /\ trace' = [trace EXCEPT ![w] = trace'[w]] /\ CommitmentKept(w)
  BY DEF ReleaseLock, ReleaseFails, store, IInv, TypeOK, CommitmentKept
<1>2. \/ \E phase \in {"reload", "reconcile", "classify"} : Goto(w, phase)
      \/ Return(w, "read_error", NoRegistration)
  BY <1>1, CallFacts DEF AfterWriter, Causes
<1>. QED
  BY <1>1, <1>2, MappedFrames

(* The services after the strict writer. *)
LEMMA ReconcilingSteps ==
  ASSUME IInv, NEW w \in Writers,
         ReloadSelected(w) \/ ReconcileConflict(w) \/ ClassifyCandidate(w) \/ ClassifySelection(w)
           \/ LastReadFails(w)
  PROVE  StepOf(w)
<1>1. /\ pc[w] \in {"reload", "reconcile", "classify", "select"} /\ UNCHANGED <<current, trace>>
      /\ TypeOK /\ trace' = [trace EXCEPT ![w] = trace'[w]] /\ CommitmentKept(w)
  BY DEF ReloadSelected, ReconcileConflict, ClassifyCandidate, ClassifySelection, LastReadFails,
         store, IInv, TypeOK, CommitmentKept
<1>2. CASE pc'[w] = "select"
  <2>1. ClassifyCandidate(w) /\ pc' = [pc EXCEPT ![w] = "select"] /\ UNCHANGED <<candidate, seen, cause, outcome>>
    BY <1>1, <1>2 DEF ReloadSelected, ReconcileConflict, ClassifyCandidate, ClassifySelection,
       LastReadFails, Return, Goto, TypeOK
  <2>2. \E x : persisted' = [persisted EXCEPT ![w] = x]
    BY <2>1, <1>2 DEF ClassifyCandidate, Return, TypeOK
  <2>. QED
    BY <1>1, <2>1, <2>2 DEF TypeOK, StepOf, OnlyCall, GoesOn
<1>3. CASE pc'[w] # "select"
  <2>1. cause[w] \in {"conflict", "integrity", "write_error"} \/ pc[w] # "classify"
    BY CallFacts DEF Fits
  <2>2. \/ Goto(w, "classify")
        \/ \E kind, x : /\ Return(w, kind, x) /\ kind # "none"
                        /\ kind \in {"created", "updated"} => pc[w] = "reload"
    BY <1>1, <1>3, <2>1 DEF ReloadSelected, ReconcileConflict, ClassifyCandidate, ClassifySelection,
       LastReadFails, TypeOK
  <2>. QED
    BY <1>1, <2>2, MappedFrames
<1>. QED
  BY <1>2, <1>3

(* Failing reads, a failing lock or pointer, and a crash. *)
LEMMA FailingSteps ==
  ASSUME IInv, NEW w \in Writers,
         FirstReadFails(w) \/ AcquireFails(w) \/ StateReadFails(w) \/ PublishFails(w) \/ ConfirmFails(w)
  PROVE  StepOf(w)
<1>1. CASE FirstReadFails(w)
  <2>1. /\ pc[w] \in {"idle", "list"} /\ UNCHANGED current /\ trace' = [trace EXCEPT ![w] = "nothing"]
        /\ Return(w, "write_error", NoRegistration)
    BY <1>1 DEF FirstReadFails, store
  <2>2. TypeOK /\ trace' = [trace EXCEPT ![w] = trace'[w]] /\ trace'[w] = "nothing"
    BY <2>1 DEF IInv, TypeOK
  <2>3. pc[w] # "idle" => CommitmentKept(w)
    BY <2>1, <2>2, CallFacts DEF Fits, CommitmentKept
  <2>. QED
    BY <2>1, <2>2, <2>3, MappedFrames
<1>2. CASE AcquireFails(w) \/ StateReadFails(w) \/ PublishFails(w) \/ ConfirmFails(w)
  <2>1. /\ pc[w] # "idle" /\ UNCHANGED <<current, trace>>
        /\ \E error, phase : Raise(w, error, phase) /\ phase # "idle"
    BY <1>2 DEF AcquireFails, StateReadFails, PublishFails, ConfirmFails, store
  <2>2. TypeOK /\ trace' = [trace EXCEPT ![w] = trace'[w]] /\ CommitmentKept(w)
    BY <2>1 DEF IInv, TypeOK, CommitmentKept
  <2>. QED
    BY <2>1, <2>2, MappedFrames
<1>. QED
  BY <1>1, <1>2

LEMMA DyingStep ==
  ASSUME IInv, NEW w \in Writers, Crash(w)
  PROVE  StepOf(w)
<1>1. /\ pc[w] # "idle" /\ UNCHANGED <<current, trace>> /\ Return(w, "none", NoRegistration)
      /\ TypeOK /\ trace' = [trace EXCEPT ![w] = trace'[w]] /\ CommitmentKept(w)
  BY DEF Crash, store, IInv, TypeOK, CommitmentKept
<1>2. OnlyCall(w) /\ pc'[w] = "idle"
  BY <1>1, CallFrames
<1>. QED
  BY <1>1, <1>2 DEF StepOf, Dies, Return, NoOutcome

(* Every step is one of a call, a publication of a pointer, or nothing to the history. *)
LEMMA NextMapped ==
  ASSUME IInv, [Next]_vars
  PROVE  \/ \E w \in Writers : StepOf(w) \/ PublishPointer(w)
         \/ UNCHANGED <<current, pc, trace, outcome>>
<1>1. ASSUME NEW w \in Writers, Step(w) \/ FileError(w) \/ Crash(w)
      PROVE  StepOf(w) \/ PublishPointer(w)
  BY <1>1, ReadingSteps, RevisionSteps, LeavingSteps, ReconcilingSteps, FailingSteps, DyingStep
     DEF Step, FileError
<1>2. CASE ClearLock \/ UNCHANGED vars
  BY <1>2 DEF ClearLock, vars, store, call
<1>. QED
  BY <1>1, <1>2, ServiceSteps, ConstantsAssumption DEF Next, Revisions

-----------------------------------------------------------------------------
(* The mapped history as a sequence. *)

LEMMA HistoryFacts ==
  ASSUME IInv
  PROVE  /\ current \in Nat /\ History \in Seq(Registration) /\ Len(History) = current
         /\ \A r \in 1 .. current : History[r] = revision[r].content
<1>1. current \in Nat
  BY ConstantsAssumption DEF IInv, TypeOK
<1>2. \A r \in 1 .. current : revision[r].content \in Registration
  BY FileStates DEF IInv, ReachableComplete
<1>3. History \in [1 .. current -> Registration]
  BY <1>2 DEF History
<1>4. History \in Seq(Registration)
  BY <1>1, <1>3
<1>. QED
  BY <1>1, <1>3, <1>4, LenProperties DEF History

LEMMA HistoryFactsNext ==
  ASSUME IInv'
  PROVE  /\ current' \in Nat /\ History' \in Seq(Registration) /\ Len(History') = current'
         /\ \A r \in 1 .. current' : History'[r] = revision'[r].content
<1>1. current' \in Nat
  BY ConstantsAssumption DEF IInv, TypeOK
<1>2. \A r \in 1 .. current' : revision'[r].content \in Registration
  BY FileStates DEF IInv, ReachableComplete
<1>3. History' \in [1 .. current' -> Registration]
  BY <1>2 DEF History
<1>4. History' \in Seq(Registration)
  BY <1>1, <1>3
<1>. QED
  BY <1>1, <1>3, <1>4, LenProperties DEF History

(* What is in the selected history is in the sequence. *)
LEMMA SelectedIsMapped ==
  ASSUME IInv, NEW x, InSelectedHistory(x)
  PROVE  Abstract!InHistory(x)
<1>1. PICK r \in 1 .. current : revision[r] = Complete(x)
  BY DEF InSelectedHistory
<1>2. r \in DOMAIN History /\ History[r] = x
  BY <1>1, HistoryFacts, FileStates DEF History
<1>. QED
  BY <1>2 DEF Abstract!InHistory

(* While the pointer stays the history does. *)
LEMMA HistoryStays ==
  ASSUME IInv, [Next]_vars, UNCHANGED current
  PROVE  History' = History
<1>1. current \in Nat /\ 1 .. current \subseteq Revisions
  BY ConstantsAssumption DEF IInv, TypeOK, Revisions
<1>2. \A r \in 1 .. current : revision'[r] = revision[r]
  BY <1>1, SelectedStays DEF vars, store
<1>. QED
  BY <1>2 DEF History

(* A step of a call is a step of its abstract caller, or none. *)
LEMMA CallImplements ==
  ASSUME IInv, IInv', [Next]_vars, NEW w \in Writers, StepOf(w)
  PROVE  Abstract!AbsNext \/ UNCHANGED <<History, Calls, Committed, outcome>>
<1>1. History' = History
  BY HistoryStays DEF StepOf
<1>2. \A v \in Writers \ {w} : pc'[v] = pc[v] /\ trace'[v] = trace[v]
  BY DEF StepOf, OnlyCall
<1>3. CASE Begins(w)
  <2>1. Calls' = Calls \cup {w} /\ w \notin Calls /\ Committed' = Committed \ {w}
    BY <1>2, <1>3 DEF Begins, Calls, Committed
  <2>2. outcome' = [outcome EXCEPT ![w] = Abstract!NoAnswer]
    BY <1>3 DEF Begins, NoOutcome, Abstract!NoAnswer
  <2>3. Abstract!Invoke(w)
    BY <1>1, <2>1, <2>2 DEF Abstract!Invoke
  <2>. QED
    BY <2>3 DEF Abstract!AbsNext
<1>4. CASE GoesOn(w)
  BY <1>1, <1>2, <1>4 DEF GoesOn, CommitmentKept, Calls, Committed
<1>5. CASE Dies(w)
  <2>1. outcome' = outcome
    BY <1>5 DEF Dies, IInv, TypeOK, CallInv, AnswerIsTrue
  <2>2. Calls' = Calls \ {w} /\ w \in Calls /\ Committed' = Committed
    BY <1>2, <1>5 DEF Dies, CommitmentKept, Calls, Committed
  <2>3. Abstract!Vanish(w)
    BY <1>1, <2>1, <2>2 DEF Abstract!Vanish
  <2>. QED
    BY <2>3 DEF Abstract!AbsNext
<1>6. CASE Answers(w)
  <2>1. outcome'[w] \in Abstract!Answer
    <3>1. outcome'[w] \in Outcome
      BY DEF IInv, TypeOK
    <3>. QED
      BY <1>6, <3>1 DEF Answers, Outcome, Kinds, Selections, Abstract!Answer, Abstract!Absence,
         Abstract!Presence, Abstract!Doubt
  <2>2. outcome'[w].kind \in Abstract!Presence => Abstract!InHistory(outcome'[w].registration)
    <3>1. PICK x : x = outcome'[w].registration
      OBVIOUS
    <3>2. outcome'[w].kind \in Abstract!Presence => InSelectedHistory(x)'
      BY <3>1 DEF IInv, CallInv, AnswerIsTrue, Abstract!Presence
    <3>3. InSelectedHistory(x)' => InSelectedHistory(x)
      <4>1. current \in Nat /\ 1 .. current \subseteq Revisions
        BY ConstantsAssumption DEF IInv, TypeOK, Revisions
      <4>2. \A r \in 1 .. current : revision'[r] = revision[r]
        BY <4>1, SelectedStays DEF vars, store
      <4>. QED
        BY <4>2 DEF InSelectedHistory, StepOf
    <3>. QED
      BY <3>1, <3>2, <3>3, SelectedIsMapped
  <2>3. Abstract!Told(w, outcome'[w])
    BY <1>6, <2>1 DEF Answers, Abstract!Told
  <2>4. outcome'[w].kind \in Abstract!Absence => w \notin Committed'
    BY DEF IInv, CallInv, AnswerIsTrue, Abstract!Absence, Committed
  <2>5. CASE pc[w] = "idle"
    <3>1. Calls' = Calls /\ w \notin Calls /\ Committed' = Committed \ {w}
      BY <1>2, <1>6, <2>5 DEF Answers, Calls, Committed
    <3>2. outcome'[w].kind \notin {"created", "updated"}
      BY <1>6, <2>5 DEF Answers
    <3>3. Abstract!ReplyAtOnce(w)
      BY <1>1, <2>2, <2>3, <3>1, <3>2 DEF Abstract!ReplyAtOnce
    <3>. QED
      BY <3>3 DEF Abstract!AbsNext
  <2>6. CASE pc[w] # "idle"
    <3>1. Calls' = Calls \ {w} /\ w \in Calls /\ Committed' = Committed
      BY <1>2, <1>6, <2>6 DEF Answers, CommitmentKept, Calls, Committed
    <3>2. outcome'[w].kind \in {"created", "updated"} => w \in Committed
      BY <1>6, CallFacts DEF Answers, Fits, Committed
    <3>3. Abstract!Truthful(w, outcome'[w])
      BY <2>2, <2>4, <3>1, <3>2 DEF Abstract!Truthful
    <3>4. Abstract!Reply(w)
      BY <1>1, <2>3, <3>1, <3>3 DEF Abstract!Reply
    <3>. QED
      BY <3>4 DEF Abstract!AbsNext
  <2>. QED
    BY <2>5, <2>6
<1>. QED
  BY <1>3, <1>4, <1>5, <1>6 DEF StepOf

(* Replacing the pointer appends the candidate: it was made from the last of the history. *)
LEMMA PublicationImplements ==
  ASSUME IInv, IInv', NEW w \in Writers, PublishPointer(w)
  PROVE  Abstract!AbsNext
<1>1. /\ pc[w] = "publish" /\ current' = candidate[w].revision /\ UNCHANGED <<revision, outcome>>
      /\ trace' = [trace EXCEPT ![w] = "committed"] /\ pc' = [pc EXCEPT ![w] = "confirm"]
  BY DEF PublishPointer, Goto
<1>2. Holder(w) /\ candidate[w].revision = current + 1 /\ Expected(w) = current /\ candidate[w] \in Registration
  BY <1>1, CallFacts, CandidatePath, NoOtherHolder DEF Fits, Holder
<1>3. CallInv(w) /\ revision[current + 1] = Complete(candidate[w])
  BY <1>1, <1>2, CallFacts DEF CallInv, HolderIsNext, File
<1>4. History' = Append(History, candidate[w])
  <2>1. /\ Append(History, candidate[w]) \in Seq(Registration)
        /\ Len(Append(History, candidate[w])) = current + 1
        /\ \A r \in 1 .. current : Append(History, candidate[w])[r] = History[r]
        /\ Append(History, candidate[w])[current + 1] = candidate[w]
    BY <1>2, HistoryFacts, AppendProperties
  <2>2. \A r \in 1 .. current : History'[r] = History[r]
    BY <1>1, <1>2, HistoryFacts, HistoryFactsNext
  <2>3. History'[current + 1] = candidate[w]
    BY <1>1, <1>2, <1>3, HistoryFacts, HistoryFactsNext, FileStates
  <2>4. \A r \in 1 .. Len(History') : History'[r] = Append(History, candidate[w])[r]
    BY <1>1, <1>2, <2>1, <2>2, <2>3, HistoryFacts, HistoryFactsNext
  <2>5. Len(History') = Len(Append(History, candidate[w])) /\ History' \in Seq(Registration)
    BY <1>1, <1>2, <2>1, HistoryFactsNext
  <2>. QED
    BY <2>1, <2>4, <2>5, SeqEqual
<1>5. Len(History') = Len(History) + 1 /\ History'[Len(History')] = candidate[w]
  <2>1. Len(History') = current + 1 /\ Len(History) = current
    BY <1>1, <1>2, HistoryFacts, HistoryFactsNext
  <2>2. History'[current + 1] = candidate[w]
    BY <1>1, <1>2, <1>3, <2>1, HistoryFacts, HistoryFactsNext, FileStates
  <2>. QED
    BY <2>1, <2>2
<1>6. Abstract!Continues(candidate[w])
  <2>1. ASSUME History # << >>
        PROVE  /\ candidate[w].created_at = History[current].created_at
               /\ candidate[w].updated_at >= History[current].updated_at
    <3>1. current # 0
      BY <2>1, HistoryFacts, EmptySeq
    <3>2. History[current] = revision[current].content
      BY <3>1, HistoryFacts
    <3>. QED
      BY <1>1, <1>2, <1>3, <3>1, <3>2 DEF CallInv, CandidateContinues
  <2>. QED
    BY <1>2, <2>1, HistoryFacts DEF Abstract!Continues
<1>7. /\ Calls' = Calls /\ w \in Calls
      /\ w \notin Committed /\ Committed' = Committed \cup {w}
  BY <1>1, <1>2 DEF IInv, TypeOK, Calls, Committed, Holder
<1>8. Abstract!Commit(w)
  BY <1>1, <1>2, <1>4, <1>5, <1>6, <1>7 DEF Abstract!Commit
<1>. QED
  BY <1>8 DEF Abstract!AbsNext

(***************************************************************************)
(* Whatever locks, crashes and failing operations do, the services show    *)
(* their callers one growing history, commit to it atomically and answer   *)
(* truthfully.                                                             *)
(***************************************************************************)
THEOREM RegistrationRefinesHistory == Spec => ImplementsHistory
<1>1. Init => Abstract!AbsInit
  <2>. SUFFICES ASSUME Init
                PROVE  Abstract!AbsInit
    OBVIOUS
  <2>1. History = << >>
    BY InitIInv, HistoryFacts, EmptySeq DEF Init
  <2>2. Calls = {} /\ Committed = {} /\ outcome = [c \in Writers |-> Abstract!NoAnswer]
    BY DEF Init, Calls, Committed, NoOutcome, Abstract!NoAnswer
  <2>. QED
    BY <2>1, <2>2 DEF Abstract!AbsInit
<1>2. ASSUME IInv, IInv', [Next]_vars
      PROVE  [Abstract!AbsNext]_(Abstract!absVars)
  <2>1. UNCHANGED <<current, pc, trace, outcome>> => UNCHANGED <<History, Calls, Committed, outcome>>
    BY <1>2, HistoryStays DEF Calls, Committed
  <2>2. UNCHANGED <<History, Calls, Committed, outcome>> => UNCHANGED Abstract!absVars
    BY DEF Abstract!absVars
  <2>. QED
    BY <1>2, <2>1, <2>2, NextMapped, CallImplements, PublicationImplements
<1>. QED
  BY <1>1, <1>2, Invariance, PTL DEF Spec, ImplementsHistory, Abstract!AbsSpec

(***************************************************************************)
(* Under guarded clearing what the scan under the lock blames is no        *)
(* colleague at work: the call that scans is the only one there.           *)
(***************************************************************************)
THEOREM LockedScanHolds ==
  ASSUME GuardedClearing
  PROVE  Spec => LockedScanFindsRealOrphans
<1>1. MutualExclusion =>
        [\A w \in Writers :
           pc[w] = "scan" /\ WriteStateError(w) \in {"integrity", "read_error"} =>
             ~ \E v \in Writers : Owner(v)]_vars
  BY DEF MutualExclusion, Active, InCriticalSection, Owner
<1>. QED
  BY <1>1, MutualExclusionHolds, PTL DEF Spec, LockedScanFindsRealOrphans
=============================================================================
