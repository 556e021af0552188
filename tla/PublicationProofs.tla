--------------------------- MODULE PublicationProofs ---------------------------
(***************************************************************************)
(* PublicationInv is inductive: for every set of writers, series,          *)
(* publication IDs and manifests, every bound, and, in its first layer,    *)
(* with locks cleared at any moment.                                       *)
(***************************************************************************)
EXTENDS PublicationInvariant, FiniteSetTheorems, TLAPS

-----------------------------------------------------------------------------
(* Paths and files. *)

(* A path is one of the two kinds for one publication ID. *)
LEMMA SlotFacts ==
  /\ \A path \in Slots :
       /\ path[1] \in {"record", "withdrawal"} /\ path[2] \in Ids
       /\ path = <<path[1], path[2]>>
  /\ \A id \in Ids :
       /\ <<"record", id>> \in Slots /\ <<"withdrawal", id>> \in Slots
       /\ <<"record", id>>[1] = "record" /\ <<"record", id>>[2] = id
       /\ <<"withdrawal", id>>[1] = "withdrawal" /\ <<"withdrawal", id>>[2] = id
BY DEF Slots

(* The three states of a file are different, and a complete file determines its content. *)
LEMMA FileStates ==
  /\ Absent # Torn /\ Absent.status = "absent" /\ Torn.status = "torn"
  /\ \A x : /\ Complete(x) # Absent /\ Complete(x) # Torn
            /\ Complete(x).status = "complete" /\ Complete(x).content = x
  /\ \A x, y : Complete(x) = Complete(y) => x = y
<1>1. Absent # Torn /\ Absent.status = "absent" /\ Torn.status = "torn"
  BY DEF Absent, Torn
<1>2. ASSUME NEW x
      PROVE  /\ Complete(x) # Absent /\ Complete(x) # Torn
             /\ Complete(x).status = "complete" /\ Complete(x).content = x
  BY DEF Complete, Absent, Torn
<1>3. ASSUME NEW x, NEW y, Complete(x) = Complete(y)
      PROVE  x = y
  BY <1>2, <1>3
<1>. QED
  BY <1>1, <1>2, <1>3

-----------------------------------------------------------------------------
(* Types. *)

(* The part of TypeOK about what is outside the calls ... *)
StoreTyped ==
  /\ lock \in [Series -> Writers \cup {Nobody}]
  /\ DOMAIN file = Slots
  /\ \A path \in Slots :
       FileIsWhole(path) /\ (file[path].status = "complete" => file[path].content \in Content(path))
  /\ registration \in [revision : 0 .. MaxRegistration, lifecycle : {"none", "active", "cancelled"}]
  /\ manifest \in [Series \X Revisions -> Digests]
  /\ changes \in 0 .. MaxChanges /\ faults \in 0 .. MaxFaults /\ crashes \in 0 .. MaxCrashes

(* ... and the part about the calls. *)
CallsTyped ==
  /\ pc \in [Writers -> Phases]
  /\ slot \in [Writers -> Slots \cup {None}]
  /\ series \in [Writers -> Series \cup {None}]
  /\ names \in [Writers -> SUBSET Ids]
  /\ cause \in [Writers -> Causes]
  /\ attempts \in [Writers -> 0 .. MaxAttempts - 1]
  /\ DOMAIN candidate = Writers
  /\ DOMAIN outcome = Writers /\ \A w \in Writers : outcome[w].kind \in Kinds

WellTyped ==
  /\ TypeOK /\ DOMAIN candidate = Writers /\ DOMAIN outcome = Writers
  /\ \A path \in Slots : FileIsWhole(path)

LEMMA TypesSplit == WellTyped <=> StoreTyped /\ CallsTyped
BY DEF WellTyped, TypeOK, StoreTyped, CallsTyped, Content

LEMMA TypesSplitNext == WellTyped' <=> StoreTyped' /\ CallsTyped'
BY DEF WellTyped, TypeOK, StoreTyped, CallsTyped, Content

(* Only what w knows changes. *)
OnlyCall(w) ==
  \A v \in Writers \ {w} :
    /\ pc'[v] = pc[v]
    /\ candidate'[v] = candidate[v]
    /\ slot'[v] = slot[v]
    /\ series'[v] = series[v]
    /\ names'[v] = names[v]
    /\ cause'[v] = cause[v]
    /\ outcome'[v] = outcome[v]

(* The ways a call goes on: what w knows afterwards, nobody else knows more, and types are kept. *)
LEMMA GotoFrame ==
  ASSUME CallsTyped, NEW w \in Writers, NEW phase \in Phases, Goto(w, phase)
  PROVE  /\ OnlyCall(w) /\ CallsTyped' /\ pc'[w] = phase
         /\ UNCHANGED <<candidate, slot, series, names, cause, outcome>>
BY DEF CallsTyped, Goto, OnlyCall

LEMMA RaiseFrame ==
  ASSUME CallsTyped, NEW w \in Writers, NEW phase \in Phases, NEW error \in Causes,
         Raise(w, error, phase)
  PROVE  /\ OnlyCall(w) /\ CallsTyped' /\ pc'[w] = phase /\ cause'[w] = error
         /\ UNCHANGED <<candidate, slot, series, names, outcome>>
BY DEF CallsTyped, Raise, OnlyCall

LEMMA ListIdsFrame ==
  ASSUME CallsTyped, NEW w \in Writers, NEW phase \in Phases, ListIds(w, phase)
  PROVE  /\ OnlyCall(w) /\ CallsTyped' /\ pc'[w] = phase /\ names'[w] = Present
         /\ UNCHANGED <<candidate, slot, series, cause, outcome>>
<1>1. Present \in SUBSET Ids
  BY DEF Present
<1>. QED
  BY <1>1 DEF CallsTyped, ListIds, OnlyCall

LEMMA ReturnFrame ==
  ASSUME CallsTyped, NEW w \in Writers, NEW kind \in Kinds, NEW x, Return(w, kind, x)
  PROVE  /\ OnlyCall(w) /\ CallsTyped' /\ pc'[w] = "idle" /\ cause'[w] = "none"
         /\ outcome'[w] = [kind |-> kind, content |-> x]
<1>1. OnlyCall(w) /\ pc'[w] = "idle" /\ cause'[w] = "none" /\ outcome'[w] = [kind |-> kind, content |-> x]
  BY DEF CallsTyped, Return, OnlyCall
<1>2. "idle" \in Phases /\ "none" \in Causes /\ 0 \in 0 .. MaxAttempts - 1
  BY ConstantsAssumption DEF Phases, Causes
<1>3. /\ pc' \in [Writers -> Phases]
      /\ slot' \in [Writers -> Slots \cup {None}]
      /\ series' \in [Writers -> Series \cup {None}]
      /\ names' \in [Writers -> SUBSET Ids]
      /\ cause' \in [Writers -> Causes]
      /\ attempts' \in [Writers -> 0 .. MaxAttempts - 1]
      /\ DOMAIN candidate' = Writers
      /\ DOMAIN outcome' = Writers
  BY <1>2 DEF CallsTyped, Return
<1>4. \A v \in Writers : outcome'[v].kind \in Kinds
  BY <1>1 DEF CallsTyped, OnlyCall
<1>. QED
  BY <1>1, <1>3, <1>4 DEF CallsTyped

-----------------------------------------------------------------------------
(* Steps that leave the files alone. *)

(* What a path holds for good stays there when no call becomes its owner. *)
LEMMA SettledStays ==
  ASSUME UNCHANGED file, \A v \in Writers : Owns(v)' => Owns(v) /\ slot'[v] = slot[v]
  PROVE  \A path \in Slots : \A x : Settled(path, x) => Settled(path, x)'
BY DEF Settled, Owned

(* Such a step preserves FilesInv when it preserves the view of the call that takes it. *)
LEMMA QuietFiles ==
  ASSUME FilesInv, StoreTyped', CallsTyped', NEW w \in Writers, UNCHANGED file, OnlyCall(w),
         ~ Owns(w)', CandidateFits(w)', WrittenIsSettled(w)', CreatedIsSettled(w)'
  PROVE  FilesInv'
<1>1. (TypeOK /\ DOMAIN candidate = Writers /\ DOMAIN outcome = Writers)' /\ (\A path \in Slots : FileIsWhole(path))'
  BY TypesSplitNext DEF WellTyped
<1>2. \A v \in Writers : Owns(v)' => v # w /\ Owns(v) /\ slot'[v] = slot[v]
  BY DEF OnlyCall, Owns
<1>3. OneOwner'
  BY <1>2 DEF FilesInv, OneOwner
<1>4. \A path \in Slots : \A x : Settled(path, x) => Settled(path, x)'
  BY <1>2, SettledStays
<1>5. ASSUME NEW v \in Writers, v # w
      PROVE  CandidateFits(v)' /\ OwnsItsFile(v)' /\ WrittenIsSettled(v)' /\ CreatedIsSettled(v)'
  <2>1. CandidateFits(v) /\ OwnsItsFile(v) /\ WrittenIsSettled(v) /\ CreatedIsSettled(v)
    BY DEF FilesInv
  <2>2. CandidateFits(v)' /\ OwnsItsFile(v)'
    BY <1>5, <2>1 DEF OnlyCall, CandidateFits, OwnsItsFile, ForRecord
  <2>3. WrittenIsSettled(v)'
    <3>1. SUFFICES ASSUME HasWritten(v)'
                   PROVE  Settled(slot[v], candidate[v])'
      BY <1>5 DEF WrittenIsSettled, OnlyCall, Settled, Owned
    <3>2. HasWritten(v) /\ slot[v] \in Slots
      BY <1>5, <2>1, <3>1 DEF HasWritten, OnlyCall, CandidateFits
    <3>. QED
      BY <1>4, <1>5, <2>1, <3>2 DEF WrittenIsSettled, Settled, OnlyCall
  <2>4. CreatedIsSettled(v)'
    BY <1>4, <1>5, <2>1 DEF CreatedIsSettled, Settled, OnlyCall
  <2>. QED
    BY <2>2, <2>3, <2>4
<1>6. OwnsItsFile(w)'
  BY DEF OwnsItsFile, Owns
<1>. QED
  BY <1>1, <1>3, <1>5, <1>6 DEF FilesInv

(* A step of w that writes no record or withdrawal and does not come nearer to writing one. *)
Quiet(w) ==
  /\ UNCHANGED file
  /\ OnlyCall(w)
  /\ \/ UNCHANGED lock
     \/ pc[w] = "release" /\ lock' = [lock EXCEPT ![series[w]] = Nobody] /\ ~ Active(w)'
  /\ Active(w)' => pc'[w] = "release" /\ Active(w) /\ series'[w] = series[w]

(* What the hypotheses of FilesInv give at the start of a step of w. *)
LEMMA CallFacts ==
  ASSUME FilesInv, NEW w \in Writers
  PROVE  /\ StoreTyped /\ CallsTyped /\ pc[w] \in Phases /\ cause[w] \in Causes
         /\ OneOwner
         /\ CandidateFits(w) /\ OwnsItsFile(w) /\ WrittenIsSettled(w) /\ CreatedIsSettled(w)
<1>1. StoreTyped /\ CallsTyped
  BY TypesSplit DEF FilesInv, WellTyped
<1>. QED
  BY <1>1 DEF FilesInv, CallsTyped

(* Steps that only read leave what is outside the calls as it was; a fault counts one. *)
LEMMA ReadsTyped ==
  ASSUME StoreTyped, UNCHANGED <<lock, file, registration, manifest, changes>>,
         faults' \in 0 .. MaxFaults, crashes' \in 0 .. MaxCrashes
  PROVE  StoreTyped'
BY DEF StoreTyped, FileIsWhole

LEMMA FaultTyped ==
  ASSUME StoreTyped
  PROVE  /\ NoFault => faults' \in 0 .. MaxFaults /\ crashes' \in 0 .. MaxCrashes
         /\ Fault => faults' \in 0 .. MaxFaults /\ crashes' \in 0 .. MaxCrashes
<1>1. MaxFaults \in Nat /\ faults \in 0 .. MaxFaults /\ crashes \in 0 .. MaxCrashes
  BY ConstantsAssumption DEF StoreTyped
<1>. QED
  BY <1>1 DEF NoFault, Fault

(* A call may end with any answer; only a file that is settled is reported as created. *)
LEMMA ReturnStep ==
  ASSUME FilesInv, StoreTyped', UNCHANGED <<lock, file>>, NEW w \in Writers,
         NEW kind \in Kinds, NEW x, Return(w, kind, x),
         kind = "created" => \E path \in Slots : Settled(path, x)
  PROVE  FilesInv' /\ Quiet(w)
<1>1. /\ OnlyCall(w) /\ CallsTyped' /\ pc'[w] = "idle" /\ cause'[w] = "none"
      /\ outcome'[w] = [kind |-> kind, content |-> x]
  BY CallFacts, ReturnFrame
<1>2. ~ Owns(w)' /\ CandidateFits(w)' /\ WrittenIsSettled(w)'
  BY <1>1 DEF Owns, CandidateFits, WrittenIsSettled, HasWritten
<1>3. \A v \in Writers : Owns(v)' => Owns(v) /\ slot'[v] = slot[v]
  BY <1>1, <1>2 DEF OnlyCall, Owns
<1>4. CreatedIsSettled(w)'
  BY <1>1, <1>3, SettledStays DEF CreatedIsSettled
<1>5. Quiet(w)
  BY <1>1 DEF Quiet, Active, InCriticalSection
<1>. QED
  BY <1>1, <1>2, <1>4, <1>5, QuietFiles

(* A call may go on with its file, if any, left where it is. *)
LEMMA GoOnStep ==
  ASSUME FilesInv, StoreTyped', CallsTyped', UNCHANGED file, NEW w \in Writers, OnlyCall(w),
         CandidateFits(w)', ~ Owns(w)',
         outcome'[w].kind = "created" => outcome'[w] = outcome[w],
         HasWritten(w)' => HasWritten(w) /\ slot'[w] = slot[w] /\ candidate'[w] = candidate[w]
  PROVE  FilesInv'
<1>1. \A v \in Writers : Owns(v)' => Owns(v) /\ slot'[v] = slot[v]
  BY DEF OnlyCall, Owns
<1>2. CandidateFits(w) /\ WrittenIsSettled(w) /\ CreatedIsSettled(w)
  BY CallFacts
<1>3. WrittenIsSettled(w)'
  <2>1. SUFFICES ASSUME HasWritten(w)'
                 PROVE  Settled(slot[w], candidate[w])'
    BY DEF WrittenIsSettled, Settled, Owned
  <2>2. slot[w] \in Slots /\ Settled(slot[w], candidate[w])
    BY <1>2, <2>1 DEF WrittenIsSettled, CandidateFits, HasWritten
  <2>3. Settled(slot[w], candidate[w]) => file[slot[w]] = Complete(candidate[w]) /\ ~ Owned(slot[w])
    BY DEF Settled
  <2>4. ~ Owned(slot[w])'
    BY <1>1, <2>1, <2>2, <2>3 DEF Owned
  <2>. QED
    BY <2>1, <2>2, <2>3, <2>4 DEF Settled
<1>4. CreatedIsSettled(w)'
  BY <1>1, <1>2, SettledStays DEF CreatedIsSettled
<1>. QED
  BY <1>3, <1>4, QuietFiles

(* Reads and failing reads keep the types of what they read. *)
LEMMA LooksTyped ==
  ASSUME FilesInv, UNCHANGED <<store, environment>>, NoFault \/ Fault
  PROVE  StoreTyped' /\ UNCHANGED <<lock, file>>
<1>1. StoreTyped
  BY TypesSplit DEF FilesInv, WellTyped
<1>. QED
  BY <1>1, ReadsTyped, FaultTyped DEF store, environment

LEMMA ReadsLooks ==
  ASSUME FilesInv, Reads
  PROVE  StoreTyped' /\ UNCHANGED <<lock, file>>
BY LooksTyped DEF Reads

LEMMA FailStep ==
  ASSUME FilesInv, StoreTyped', UNCHANGED <<lock, file>>, NEW w \in Writers,
         NEW kind \in Kinds \ {"created"}, Fail(w, kind)
  PROVE  FilesInv' /\ Quiet(w)
BY ReturnStep DEF Fail

LEMMA ExistingStep ==
  ASSUME FilesInv, StoreTyped', UNCHANGED <<lock, file>>, NEW w \in Writers,
         NEW x, Return(w, "existing", x) \/ Return(w, "partial", x)
  PROVE  FilesInv' /\ Quiet(w)
<1>1. {"existing", "partial"} \subseteq Kinds
  BY DEF Kinds
<1>. QED
  BY <1>1, ReturnStep

(* A record or withdrawal that is read is one, for the path it is read from. *)
LEMMA WholeFiles ==
  ASSUME FilesInv, NEW path \in Slots
  PROVE  /\ file[path].status = "complete" <=> file[path] \notin {Absent, Torn}
         /\ file[path].status = "complete" =>
              /\ file[path] = Complete(file[path].content)
              /\ file[path].content \in Content(path)
              /\ file[path].content.publication_id = path[2]
<1>1. StoreTyped
  BY TypesSplit DEF FilesInv, WellTyped
<1>2. FileIsWhole(path) /\ (file[path].status = "complete" => file[path].content \in Content(path))
  BY <1>1 DEF StoreTyped
<1>3. file[path].status = "complete" <=> file[path] \notin {Absent, Torn}
  BY <1>2, FileStates DEF FileIsWhole
<1>. QED
  BY <1>2, <1>3 DEF FileIsWhole, Content

LEMMA RecordFacts ==
  ASSUME FilesInv, NEW id \in Ids, RecordFile(id) \notin {Absent, Torn}
  PROVE  /\ RecordFile(id).status = "complete"
         /\ RecordFile(id).content \in PublicationRecord
         /\ RecordFile(id).content.publication_id = id
<1>1. /\ <<"record", id>> \in Slots
      /\ <<"record", id>>[1] = "record" /\ <<"record", id>>[2] = id
  BY SlotFacts
<1>2. RecordFile(id) = file[<<"record", id>>]
  BY DEF RecordFile
<1>3. \A x : x \in Content(<<"record", id>>) => x \in PublicationRecord
  BY <1>1 DEF Content
<1>. QED
  BY <1>1, <1>2, <1>3, WholeFiles

(* What a listing that found no error has loaded are complete records. *)
LEMMA LoadedRecords ==
  ASSUME FilesInv, NEW w \in Writers, LoadErrors(w) = {}
  PROVE  /\ \A id \in names[w] :
              id \in Ids /\ RecordFile(id) \notin {Absent, Torn}
         /\ \A record \in Loaded(w) :
              /\ record \in PublicationRecord /\ record.series = series[w]
              /\ record.publication_id \in names[w]
              /\ record = RecordFile(record.publication_id).content
         /\ ValidSeries(Loaded(w))
<1>1. names[w] \in SUBSET Ids
  BY CallFacts DEF CallsTyped
<1>2. /\ ~ \E id \in names[w] : RecordFile(id) = Absent
      /\ ~ \E id \in names[w] : RecordFile(id) = Torn
      /\ ValidSeries(Loaded(w))
  <2>. DEFINE vanished == {e \in {"vanished"} : \E id \in names[w] : RecordFile(id) = Absent}
              unread == {e \in {"unread"} : \E id \in names[w] : RecordFile(id) \in {Absent, Torn}}
              invalid == {e \in {"invalid"} : ~ ValidSeries(Loaded(w))}
  <2>1. (IF vanished \cup unread # {} THEN vanished \cup unread ELSE invalid) = {}
    BY DEF LoadErrors
  <2>2. vanished = {} /\ unread = {} /\ invalid = {}
    BY <2>1
  <2>3. /\ (\E id \in names[w] : RecordFile(id) = Absent) => "vanished" \in vanished
        /\ (\E id \in names[w] : RecordFile(id) = Torn) => "unread" \in unread
        /\ ~ ValidSeries(Loaded(w)) => "invalid" \in invalid
    OBVIOUS
  <2>. QED
    BY <2>2, <2>3
<1>3. ASSUME NEW id \in names[w]
      PROVE  /\ id \in Ids /\ RecordFile(id) \notin {Absent, Torn}
             /\ RecordFile(id).content \in PublicationRecord
             /\ RecordFile(id).content.publication_id = id
  BY <1>1, <1>2, RecordFacts
<1>4. ASSUME NEW record \in Loaded(w)
      PROVE  /\ record \in PublicationRecord /\ record.series = series[w]
             /\ record.publication_id \in names[w]
             /\ record = RecordFile(record.publication_id).content
  <2>1. PICK id \in names[w] : record = RecordFile(id).content /\ record.series = series[w]
    BY DEF Loaded
  <2>. QED
    BY <1>3, <2>1
<1>. QED
  BY <1>2, <1>3, <1>4

(* A valid series has a head, and HeadOf is one. *)
LEMMA HeadExists ==
  ASSUME NEW records, ValidSeries(records), records # {}
  PROVE  HeadOf(records) \in Heads(records) /\ HeadOf(records) \in records
<1>1. Cardinality(Heads(records)) = 1
  BY DEF ValidSeries
<1>2. Heads(records) # {}
  BY <1>1, FS_EmptySet
<1>3. \E record : record \in Heads(records)
  BY <1>2
<1>4. HeadOf(records) \in Heads(records)
  BY <1>3 DEF HeadOf
<1>. QED
  BY <1>4 DEF Heads

-----------------------------------------------------------------------------
(* The services up to the writer. *)

(* A call that stays outside the critical section with its file untouched is quiet. *)
LEMMA QuietOutside ==
  ASSUME UNCHANGED <<lock, file>>, NEW w, OnlyCall(w), ~ Active(w)'
  PROVE  Quiet(w) /\ ~ Owns(w)'
BY DEF Quiet, Active, InCriticalSection, Owns

LEMMA PublishStep ==
  ASSUME FilesInv, NEW w \in Writers, NEW s \in Series, NEW r \in Revisions, NEW m \in Metadata,
         NEW reg \in 0 .. MaxRegistration, NEW old \in Ids \cup {None}, Publish(w, s, r, m, reg, old)
  PROVE  FilesInv' /\ Quiet(w)
<1>. USE DEF Publish
<1>1. StoreTyped /\ CallsTyped /\ CandidateFits(w)
  BY CallFacts
<1>2. StoreTyped' /\ UNCHANGED <<lock, file>>
  BY ReadsLooks
<1>3. /\ pc'[w] = "names" /\ series'[w] = s /\ outcome'[w] = NoOutcome
      /\ candidate'[w] = [publication_id |-> None, series |-> s, revision |-> r, metadata |-> m,
                          digest |-> manifest[<<s, r>>], published_at |-> 0, registration |-> reg,
                          supersedes |-> old]
      /\ OnlyCall(w)
  BY <1>1 DEF CallsTyped, OnlyCall
<1>4. candidate'[w] \in Draft
  <2>1. manifest[<<s, r>>] \in Digests
    BY <1>1 DEF StoreTyped
  <2>. QED
    BY <1>3, <2>1 DEF Draft
<1>5. CallsTyped'
  <2>1. "names" \in Phases /\ NoOutcome.kind \in Kinds
    BY DEF Phases, NoOutcome, Kinds
  <2>2. \A v \in Writers : outcome'[v].kind \in Kinds
    BY <1>1, <1>3, <2>1 DEF CallsTyped, OnlyCall
  <2>. QED
    BY <1>1, <2>1, <2>2 DEF CallsTyped
<1>6. CandidateFits(w)'
  BY <1>3, <1>4 DEF CandidateFits
<1>7. Quiet(w) /\ ~ Owns(w)' /\ ~ HasWritten(w)'
  BY <1>2, <1>3, QuietOutside DEF Active, InCriticalSection, HasWritten
<1>8. outcome'[w].kind # "created"
  BY <1>3 DEF NoOutcome
<1>. QED
  BY <1>2, <1>3, <1>5, <1>6, <1>7, <1>8, GoOnStep

LEMMA ListSeriesStep ==
  ASSUME FilesInv, NEW w \in Writers, ListSeries(w)
  PROVE  FilesInv' /\ Quiet(w)
<1>1. pc[w] = "names" /\ ListIds(w, "load") /\ StoreTyped' /\ UNCHANGED <<lock, file>>
  BY ReadsLooks DEF ListSeries
<1>2. /\ OnlyCall(w) /\ CallsTyped' /\ pc'[w] = "load"
      /\ UNCHANGED <<candidate, slot, series, cause, outcome>>
  BY <1>1, CallFacts, ListIdsFrame DEF Phases
<1>3. CandidateFits(w)'
  BY <1>1, <1>2, CallFacts DEF CandidateFits
<1>4. Quiet(w) /\ ~ Owns(w)' /\ ~ HasWritten(w)'
  BY <1>1, <1>2, QuietOutside DEF Active, InCriticalSection, HasWritten
<1>. QED
  BY <1>1, <1>2, <1>3, <1>4, GoOnStep

(* Reconciliation with what the series already has is one more way to end a call. *)
LEMMA ReconciledStep ==
  ASSUME FilesInv, StoreTyped', UNCHANGED <<lock, file>>, NEW w \in Writers, Reconciled(w)
  PROVE  FilesInv' /\ Quiet(w)
<1>1. PICK record \in SameLogicalRevision(w) :
        Return(w, "existing", record) \/ Fail(w, "integrity")
  BY DEF Reconciled
<1>. QED
  BY <1>1, ExistingStep, FailStep DEF Kinds

(* Another round draws another ID for the same request. *)
LEMMA RetryStep ==
  ASSUME FilesInv, StoreTyped', UNCHANGED <<lock, file>>, NEW w \in Writers, Retry(w),
         pc[w] = "generate" \/ pc[w] = "reload"
  PROVE  FilesInv' /\ Quiet(w)
<1>1. CASE attempts[w] + 1 = MaxAttempts
  BY <1>1, FailStep DEF Retry, Kinds
<1>2. CASE attempts[w] + 1 # MaxAttempts
  <2>1. /\ pc' = [pc EXCEPT ![w] = "generate"]
        /\ attempts' = [attempts EXCEPT ![w] = @ + 1]
        /\ cause' = [cause EXCEPT ![w] = "none"]
        /\ UNCHANGED <<candidate, slot, series, names, outcome>>
    BY <1>2 DEF Retry
  <2>2. CallsTyped /\ CandidateFits(w)
    BY CallFacts
  <2>3. attempts[w] + 1 \in 0 .. MaxAttempts - 1
    BY <1>2, <2>2, ConstantsAssumption DEF CallsTyped
  <2>4. CallsTyped' /\ OnlyCall(w) /\ pc'[w] = "generate"
    BY <2>1, <2>2, <2>3 DEF CallsTyped, OnlyCall, Phases, Causes, InCriticalSection
  <2>5. CandidateFits(w)'
    <3>1. candidate[w] \in Draft /\ candidate[w].series = series[w] /\ candidate[w].published_at \in Stamps
      <4>1. CASE pc[w] = "generate"
        BY <2>2, <4>1 DEF CandidateFits
      <4>2. CASE pc[w] = "reload"
        BY <2>2, <4>2 DEF CandidateFits, ForRecord, Content, PublicationRecord, Draft
      <4>. QED
        BY <4>1, <4>2
    <3>. QED
      BY <2>1, <2>4, <3>1 DEF CandidateFits
  <2>6. Quiet(w) /\ ~ Owns(w)' /\ ~ HasWritten(w)'
    BY <2>4, QuietOutside DEF Active, InCriticalSection, HasWritten
  <2>. QED
    BY <2>1, <2>4, <2>5, <2>6, GoOnStep
<1>. QED
  BY <1>1, <1>2

LEMMA LoadSeriesStep ==
  ASSUME FilesInv, NEW w \in Writers, LoadSeries(w)
  PROVE  FilesInv' /\ Quiet(w)
<1>. DEFINE records == Loaded(w)
<1>1. pc[w] = "load" /\ StoreTyped' /\ UNCHANGED <<lock, file>>
  BY ReadsLooks DEF LoadSeries
<1>2. \/ Fail(w, "write_error") \/ Fail(w, "integrity") \/ Fail(w, "conflict") \/ Fail(w, "not_found")
      \/ Reconciled(w)
      \/ /\ LoadErrors(w) = {}
         /\ \E now \in Stamps :
              /\ pc' = [pc EXCEPT ![w] = "generate"]
              /\ candidate' = [candidate EXCEPT ![w].published_at =
                   IF records = {} THEN now ELSE Later(now, HeadOf(records).published_at)]
              /\ UNCHANGED <<slot, series, names, cause, attempts, outcome>>
  BY DEF LoadSeries
<1>3. CASE \/ Fail(w, "write_error") \/ Fail(w, "integrity") \/ Fail(w, "conflict") \/ Fail(w, "not_found")
  BY <1>1, <1>3, FailStep DEF Kinds
<1>4. CASE Reconciled(w)
  BY <1>1, <1>4, ReconciledStep
<1>5. ASSUME LoadErrors(w) = {}, NEW now \in Stamps,
             pc' = [pc EXCEPT ![w] = "generate"],
             candidate' = [candidate EXCEPT ![w].published_at =
               IF records = {} THEN now ELSE Later(now, HeadOf(records).published_at)],
             UNCHANGED <<slot, series, names, cause, attempts, outcome>>
      PROVE  FilesInv' /\ Quiet(w)
  <2>1. CallsTyped /\ CandidateFits(w)
    BY CallFacts
  <2>2. PICK time \in Stamps : candidate' = [candidate EXCEPT ![w].published_at = time]
    <3>1. CASE records = {}
      BY <1>5, <3>1
    <3>2. CASE records # {}
      <4>1. HeadOf(records) \in records
        BY <1>5, <3>2, LoadedRecords, HeadExists
      <4>2. HeadOf(records).published_at \in Stamps
        BY <1>5, <4>1, LoadedRecords DEF PublicationRecord
      <4>3. Later(now, HeadOf(records).published_at) \in Stamps
        BY <4>2 DEF Later
      <4>. QED
        BY <1>5, <3>2, <4>3
    <3>. QED
      BY <3>1, <3>2
  <2>3. CallsTyped' /\ OnlyCall(w) /\ pc'[w] = "generate"
    BY <1>5, <2>1, <2>2 DEF CallsTyped, OnlyCall, Phases, InCriticalSection
  <2>4. CandidateFits(w)'
    <3>1. candidate[w] \in Draft /\ candidate[w].series = series[w]
      BY <1>1, <2>1 DEF CandidateFits
    <3>2. candidate'[w] = [candidate[w] EXCEPT !.published_at = time]
      BY <2>1, <2>2 DEF CallsTyped
    <3>3. /\ candidate'[w] \in Draft /\ candidate'[w].published_at = time
          /\ candidate'[w].series = candidate[w].series
      BY <3>1, <3>2 DEF Draft
    <3>. QED
      BY <1>5, <2>3, <3>1, <3>3 DEF CandidateFits
  <2>5. Quiet(w) /\ ~ Owns(w)' /\ ~ HasWritten(w)'
    BY <1>1, <2>3, QuietOutside DEF Active, InCriticalSection, HasWritten
  <2>. QED
    BY <1>1, <1>5, <2>3, <2>4, <2>5, GoOnStep
<1>. QED
  BY <1>2, <1>3, <1>4, <1>5

(* A call goes on with a publication ID: its path is that of the candidate. *)
LEMMA IdStep ==
  ASSUME FilesInv, StoreTyped', UNCHANGED <<lock, file>>, NEW w \in Writers, NEW id \in Ids,
         pc[w] = "generate", NEW phase \in {"acquire", "relist"}, NEW error \in Causes,
         pc' = [pc EXCEPT ![w] = phase], cause' = [cause EXCEPT ![w] = error],
         candidate' = [candidate EXCEPT ![w].publication_id = id],
         slot' = [slot EXCEPT ![w] = <<"record", id>>],
         UNCHANGED <<series, names, attempts, outcome>>
  PROVE  FilesInv' /\ Quiet(w)
<1>1. CallsTyped /\ CandidateFits(w)
  BY CallFacts
<1>2. <<"record", id>> \in Slots /\ <<"record", id>>[1] = "record" /\ <<"record", id>>[2] = id
  BY SlotFacts
<1>3. CallsTyped' /\ OnlyCall(w) /\ pc'[w] = phase /\ slot'[w] = <<"record", id>>
  BY <1>1, <1>2 DEF CallsTyped, OnlyCall, Phases, InCriticalSection
<1>4. CandidateFits(w)'
  <2>1. candidate[w] \in Draft /\ candidate[w].series = series[w] /\ candidate[w].published_at \in Stamps
    BY <1>1 DEF CandidateFits
  <2>2. candidate'[w] = [candidate[w] EXCEPT !.publication_id = id]
    BY <1>1 DEF CallsTyped
  <2>3. /\ candidate'[w] \in PublicationRecord /\ candidate'[w].publication_id = id
        /\ candidate'[w].series = candidate[w].series
    BY <2>1, <2>2 DEF Draft, PublicationRecord
  <2>4. series[w] \in Series
    BY <2>1 DEF Draft
  <2>. QED
    BY <1>2, <1>3, <2>1, <2>3, <2>4 DEF CandidateFits, Content, ForRecord
<1>5. Quiet(w) /\ ~ Owns(w)' /\ ~ HasWritten(w)'
  BY <1>3, QuietOutside DEF Active, InCriticalSection, HasWritten
<1>. QED
  BY <1>3, <1>4, <1>5, GoOnStep

LEMMA GenerateIdStep ==
  ASSUME FilesInv, NEW w \in Writers, NEW id \in Ids, GenerateId(w, id)
  PROVE  FilesInv' /\ Quiet(w)
<1>1. pc[w] = "generate" /\ StoreTyped' /\ UNCHANGED <<lock, file>>
  BY ReadsLooks DEF GenerateId
<1>2. CASE Fail(w, "integrity")
  BY <1>1, <1>2, FailStep DEF Kinds
<1>3. CASE Retry(w)
  BY <1>1, <1>3, RetryStep
<1>4. CASE ~ Fail(w, "integrity") /\ ~ Retry(w)
  <2>1. /\ pc' = [pc EXCEPT ![w] = IF ManifestMatches(w) /\ RegistrationAccepts(w)
                                   THEN "acquire" ELSE "relist"]
        /\ cause' = [cause EXCEPT ![w] = CASE ~ ManifestMatches(w) -> "manifest"
                                           [] ManifestMatches(w) /\ ~ RegistrationAccepts(w) -> "conflict"
                                           [] OTHER -> "none"]
        /\ candidate' = [candidate EXCEPT ![w].publication_id = id]
        /\ slot' = [slot EXCEPT ![w] = <<"record", id>>]
        /\ UNCHANGED <<series, names, attempts, outcome>>
    BY <1>4 DEF GenerateId
  <2>2. PICK phase \in {"acquire", "relist"}, error \in Causes :
          pc' = [pc EXCEPT ![w] = phase] /\ cause' = [cause EXCEPT ![w] = error]
    BY <2>1 DEF Causes
  <2>. QED
    BY <1>1, <2>1, <2>2, IdStep
<1>. QED
  BY <1>2, <1>3, <1>4

LEMMA WithdrawStep ==
  ASSUME FilesInv, NEW w \in Writers, NEW id \in Ids, NEW reason \in Reasons, Withdraw(w, id, reason)
  PROVE  FilesInv' /\ Quiet(w)
<1>. DEFINE record == RecordFile(id)
            withdrawal == WithdrawalFile(id)
<1>1. pc[w] = "idle" /\ StoreTyped' /\ UNCHANGED <<lock, file>>
  BY ReadsLooks DEF Withdraw
<1>2. \/ Fail(w, "not_found") \/ Fail(w, "integrity") \/ Fail(w, "conflict")
      \/ Return(w, "existing", withdrawal.content)
      \/ /\ record \notin {Absent, Torn}
         /\ \E now \in Stamps :
              candidate' = [candidate EXCEPT ![w] =
                [publication_id |-> id, reason |-> reason,
                 withdrawn_at |-> Later(now, record.content.published_at)]]
         /\ pc' = [pc EXCEPT ![w] = "acquire"]
         /\ slot' = [slot EXCEPT ![w] = <<"withdrawal", id>>]
         /\ series' = [series EXCEPT ![w] = record.content.series]
         /\ outcome' = [outcome EXCEPT ![w] = NoOutcome]
         /\ UNCHANGED <<names, cause, attempts>>
  BY DEF Withdraw
<1>3. CASE Fail(w, "not_found") \/ Fail(w, "integrity") \/ Fail(w, "conflict")
  BY <1>1, <1>3, FailStep DEF Kinds
<1>4. CASE Return(w, "existing", withdrawal.content)
  BY <1>1, <1>4, ExistingStep
<1>5. ASSUME record \notin {Absent, Torn}, NEW now \in Stamps,
             candidate' = [candidate EXCEPT ![w] =
               [publication_id |-> id, reason |-> reason,
                withdrawn_at |-> Later(now, record.content.published_at)]],
             pc' = [pc EXCEPT ![w] = "acquire"],
             slot' = [slot EXCEPT ![w] = <<"withdrawal", id>>],
             series' = [series EXCEPT ![w] = record.content.series],
             outcome' = [outcome EXCEPT ![w] = NoOutcome],
             UNCHANGED <<names, cause, attempts>>
      PROVE  FilesInv' /\ Quiet(w)
  <2>1. CallsTyped
    BY CallFacts
  <2>2. record.content.series \in Series /\ record.content.published_at \in Stamps
    BY <1>5, RecordFacts DEF PublicationRecord
  <2>3. /\ <<"withdrawal", id>> \in Slots
        /\ <<"withdrawal", id>>[1] = "withdrawal" /\ <<"withdrawal", id>>[2] = id
    BY SlotFacts
  <2>4. /\ pc'[w] = "acquire" /\ slot'[w] = <<"withdrawal", id>> /\ series'[w] = record.content.series
        /\ candidate'[w] = [publication_id |-> id, reason |-> reason,
                            withdrawn_at |-> Later(now, record.content.published_at)]
        /\ outcome'[w] = NoOutcome /\ OnlyCall(w)
    BY <1>5, <2>1 DEF CallsTyped, OnlyCall
  <2>5. CallsTyped'
    <3>1. "acquire" \in Phases /\ NoOutcome.kind \in Kinds
      BY DEF Phases, NoOutcome, Kinds
    <3>2. \A v \in Writers : outcome'[v].kind \in Kinds
      BY <2>1, <2>4, <3>1 DEF CallsTyped, OnlyCall
    <3>. QED
      BY <1>5, <2>1, <2>2, <2>3, <3>1, <3>2 DEF CallsTyped
  <2>6. CandidateFits(w)'
    <3>1. Later(now, record.content.published_at) \in Stamps
      BY <2>2 DEF Later
    <3>2. candidate'[w] \in PublicationWithdrawal /\ candidate'[w].publication_id = id
      BY <2>4, <3>1 DEF PublicationWithdrawal
    <3>3. cause'[w] = "none"
      BY <1>1, <1>5, CallFacts DEF CandidateFits
    <3>. QED
      BY <2>2, <2>3, <2>4, <3>2, <3>3 DEF CandidateFits, Content, ForRecord
  <2>7. Quiet(w) /\ ~ Owns(w)' /\ ~ HasWritten(w)'
    BY <1>1, <2>4, QuietOutside DEF Active, InCriticalSection, HasWritten
  <2>8. outcome'[w].kind # "created"
    BY <2>4 DEF NoOutcome
  <2>. QED
    BY <1>1, <2>4, <2>5, <2>6, <2>7, <2>8, GoOnStep
<1>. QED
  BY <1>2, <1>3, <1>4, <1>5

-----------------------------------------------------------------------------
(* The writer. *)

(* An error ends the critical section, or keeps the call from entering it. *)
LEMMA RaiseStep ==
  ASSUME FilesInv, StoreTyped', UNCHANGED <<lock, file>>, NEW w \in Writers,
         NEW error \in Causes \ {"none"}, NEW phase \in {"release", "relist", "reconsider"},
         Raise(w, error, phase), pc[w] \notin {"idle", "names", "load", "generate"},
         phase = "release" => Active(w), phase = "relist" => ForRecord(w),
         phase = "reconsider" => ~ ForRecord(w),
         error = "manifest" => ForRecord(w)
  PROVE  FilesInv' /\ Quiet(w)
<1>1. /\ OnlyCall(w) /\ CallsTyped' /\ pc'[w] = phase /\ cause'[w] = error
      /\ UNCHANGED <<candidate, slot, series, names, outcome>>
  BY CallFacts, RaiseFrame DEF Phases, InCriticalSection
<1>2. CandidateFits(w)'
  BY <1>1, CallFacts DEF CandidateFits, ForRecord
<1>3. ~ Owns(w)' /\ ~ HasWritten(w)'
  BY <1>1 DEF Owns, HasWritten
<1>4. Quiet(w)
  BY <1>1 DEF Quiet, Active, InCriticalSection
<1>. QED
  BY <1>1, <1>2, <1>3, <1>4, GoOnStep

(* The next read of the critical section, or the first. *)
LEMMA AdvanceFiles ==
  ASSUME FilesInv, StoreTyped', UNCHANGED file, NEW w \in Writers,
         pc[w] \notin {"idle", "names", "load", "generate"},
         \/ \E phase \in {"check", "create"} : Goto(w, phase)
         \/ ListIds(w, "history") /\ ForRecord(w)
  PROVE  /\ FilesInv' /\ OnlyCall(w)
         /\ UNCHANGED <<candidate, slot, series, outcome>>
<1>1. CASE \E phase \in {"check", "create"} : Goto(w, phase)
  <2>1. PICK phase \in {"check", "create"} : Goto(w, phase)
    BY <1>1
  <2>2. /\ OnlyCall(w) /\ CallsTyped' /\ pc'[w] = phase
        /\ UNCHANGED <<candidate, slot, series, names, cause, outcome>>
    BY <2>1, CallFacts, GotoFrame DEF Phases, InCriticalSection
  <2>3. CandidateFits(w)' /\ ~ Owns(w)' /\ ~ HasWritten(w)'
    BY <2>2, CallFacts DEF CandidateFits, ForRecord, Owns, HasWritten
  <2>. QED
    BY <2>2, <2>3, GoOnStep
<1>2. CASE ListIds(w, "history") /\ ForRecord(w)
  <2>1. /\ OnlyCall(w) /\ CallsTyped' /\ pc'[w] = "history"
        /\ UNCHANGED <<candidate, slot, series, cause, outcome>>
    BY <1>2, CallFacts, ListIdsFrame DEF Phases, InCriticalSection
  <2>2. CandidateFits(w)' /\ ~ Owns(w)' /\ ~ HasWritten(w)'
    BY <1>2, <2>1, CallFacts DEF CandidateFits, ForRecord, Owns, HasWritten
  <2>. QED
    BY <2>1, <2>2, GoOnStep
<1>. QED
  BY <1>1, <1>2

(* The lock is taken. *)
Acquires(w) ==
  /\ pc[w] = "acquire" /\ lock[series[w]] = Nobody
  /\ lock' = [lock EXCEPT ![series[w]] = w]
  /\ pc'[w] = "check"
  /\ UNCHANGED file /\ OnlyCall(w) /\ UNCHANGED <<candidate, slot, series>>

LEMMA AcquireLockStep ==
  ASSUME FilesInv, NEW w \in Writers, AcquireLock(w)
  PROVE  FilesInv' /\ (Quiet(w) \/ Acquires(w))
<1>1. pc[w] = "acquire" /\ UNCHANGED <<file, environment>> /\ NoFault
  BY DEF AcquireLock
<1>2. StoreTyped /\ CallsTyped /\ CandidateFits(w)
  BY CallFacts
<1>3. series[w] \in Series
  BY <1>1, <1>2 DEF CandidateFits
<1>4. CASE lock[series[w]] = Nobody /\ lock' = [lock EXCEPT ![series[w]] = w] /\ Goto(w, "check")
  <2>1. StoreTyped'
    BY <1>1, <1>2, <1>3, <1>4 DEF StoreTyped, environment, NoFault, FileIsWhole
  <2>2. FilesInv' /\ OnlyCall(w) /\ UNCHANGED <<candidate, slot, series, outcome>>
    BY <1>1, <1>4, <2>1, AdvanceFiles
  <2>3. pc'[w] = "check"
    BY <1>2, <1>4 DEF Goto, CallsTyped
  <2>. QED
    BY <1>1, <1>4, <2>2, <2>3 DEF Acquires
<1>5. CASE UNCHANGED lock /\ Raise(w, "conflict", Reconciliation(w))
  <2>1. StoreTyped' /\ UNCHANGED <<lock, file>>
    BY <1>1, <1>5, LooksTyped DEF store
  <2>. QED
    BY <1>1, <1>5, <2>1, RaiseStep DEF Reconciliation, Causes
<1>. QED
  BY <1>4, <1>5 DEF AcquireLock

LEMMA PublicationVanishedStep ==
  ASSUME FilesInv, NEW w \in Writers, PublicationVanished(w)
  PROVE  FilesInv' /\ Quiet(w)
<1>1. StoreTyped' /\ UNCHANGED <<lock, file>>
  BY ReadsLooks DEF PublicationVanished
<1>. QED
  BY <1>1, RaiseStep DEF PublicationVanished, Causes

(* The history is listed, or the critical section goes on to create the file. *)
ListsHistory(w) ==
  /\ pc[w] = "check" /\ ForRecord(w) /\ file[slot[w]] = Absent /\ pc'[w] = "history"
  /\ names'[w] = Present
  /\ UNCHANGED <<lock, file>> /\ OnlyCall(w) /\ UNCHANGED <<candidate, slot, series>>

GoesToCreate(w) ==
  /\ pc[w] \in {"check", "history"} /\ pc'[w] = "create"
  /\ pc[w] = "history" => HistoryError(w) = "none"
  /\ pc[w] = "check" =>
       /\ ~ ForRecord(w)
       /\ RecordFile(slot[w][2]) \notin {Absent, Torn}
       /\ candidate[w].withdrawn_at >= RecordFile(slot[w][2]).content.published_at
  /\ UNCHANGED <<lock, file>> /\ OnlyCall(w) /\ UNCHANGED <<candidate, slot, series>>

LEMMA CheckRecordStep ==
  ASSUME FilesInv, NEW w \in Writers, CheckRecord(w)
  PROVE  FilesInv' /\ (Quiet(w) \/ ListsHistory(w))
<1>1. /\ pc[w] = "check" /\ ForRecord(w) /\ StoreTyped' /\ UNCHANGED <<lock, file>>
  BY ReadsLooks DEF CheckRecord
<1>2. \/ Raise(w, "manifest", "release") \/ Raise(w, "conflict", "release")
      \/ ListIds(w, "history") /\ file[slot[w]] = Absent
  BY DEF CheckRecord
<1>3. CASE Raise(w, "manifest", "release") \/ Raise(w, "conflict", "release")
  BY <1>1, <1>3, RaiseStep DEF Causes, Active, InCriticalSection
<1>4. CASE ListIds(w, "history") /\ file[slot[w]] = Absent
  <2>1. FilesInv' /\ OnlyCall(w) /\ UNCHANGED <<candidate, slot, series, outcome>>
    BY <1>1, <1>4, AdvanceFiles
  <2>2. pc'[w] = "history" /\ names'[w] = Present
    BY <1>4, CallFacts DEF ListIds, CallsTyped
  <2>. QED
    BY <1>1, <1>4, <2>1, <2>2 DEF ListsHistory
<1>. QED
  BY <1>2, <1>3, <1>4

LEMMA CheckWithdrawalStep ==
  ASSUME FilesInv, NEW w \in Writers, CheckWithdrawal(w)
  PROVE  FilesInv' /\ (Quiet(w) \/ GoesToCreate(w))
<1>. DEFINE record == RecordFile(slot[w][2])
<1>1. pc[w] = "check" /\ ~ ForRecord(w) /\ StoreTyped' /\ UNCHANGED <<lock, file>>
  BY ReadsLooks DEF CheckWithdrawal
<1>2. \/ \E error \in {"read_error", "conflict", "write_error"} : Raise(w, error, "release")
      \/ /\ record \notin {Absent, Torn}
         /\ ~ candidate[w].withdrawn_at < record.content.published_at
         /\ Goto(w, "create")
  BY DEF CheckWithdrawal
<1>3. CASE \E error \in {"read_error", "conflict", "write_error"} : Raise(w, error, "release")
  BY <1>1, <1>3, RaiseStep DEF Causes, Active, InCriticalSection
<1>4. CASE /\ record \notin {Absent, Torn}
           /\ ~ candidate[w].withdrawn_at < record.content.published_at
           /\ Goto(w, "create")
  <2>1. FilesInv' /\ OnlyCall(w) /\ UNCHANGED <<candidate, slot, series, outcome>>
    BY <1>1, <1>4, AdvanceFiles
  <2>2. pc'[w] = "create"
    BY <1>4, CallFacts DEF Goto, CallsTyped
  <2>3. candidate[w].withdrawn_at >= record.content.published_at
    <3>1. slot[w] \in Slots /\ candidate[w] \in Content(slot[w]) /\ slot[w][1] # "record"
      BY <1>1, CallFacts DEF CandidateFits, ForRecord
    <3>2. candidate[w].withdrawn_at \in Nat
      BY <3>1, ConstantsAssumption DEF Content, PublicationWithdrawal
    <3>3. record.content.published_at \in Nat
      <4>1. slot[w][2] \in Ids
        BY <3>1, SlotFacts
      <4>. QED
        BY <1>4, <4>1, RecordFacts, ConstantsAssumption DEF PublicationRecord
    <3>. QED
      BY <1>4, <3>2, <3>3
  <2>. QED
    BY <1>1, <1>4, <2>1, <2>2, <2>3 DEF GoesToCreate
<1>. QED
  BY <1>2, <1>3, <1>4

LEMMA CheckHistoryStep ==
  ASSUME FilesInv, NEW w \in Writers, CheckHistory(w)
  PROVE  FilesInv' /\ (Quiet(w) \/ GoesToCreate(w))
<1>1. pc[w] = "history" /\ StoreTyped' /\ UNCHANGED <<lock, file>>
  BY ReadsLooks DEF CheckHistory
<1>2. CASE HistoryError(w) = "none"
  <2>1. Goto(w, "create")
    BY <1>2 DEF CheckHistory
  <2>2. FilesInv' /\ OnlyCall(w) /\ UNCHANGED <<candidate, slot, series, outcome>>
    BY <1>1, <2>1, AdvanceFiles
  <2>3. pc'[w] = "create"
    BY <2>1, CallFacts DEF Goto, CallsTyped
  <2>. QED
    BY <1>1, <1>2, <2>2, <2>3 DEF GoesToCreate
<1>3. CASE HistoryError(w) # "none"
  <2>1. HistoryError(w) \in Causes \ {"none", "manifest"}
    BY <1>3 DEF HistoryError, Causes
  <2>2. Raise(w, HistoryError(w), "release")
    BY <1>3 DEF CheckHistory
  <2>. QED
    BY <1>1, <2>1, <2>2, RaiseStep DEF Active, InCriticalSection
<1>. QED
  BY <1>2, <1>3

(* A file is not written by anybody else while it is not there or w owns it. *)
LEMMA NoOtherOwner ==
  ASSUME FilesInv, NEW w \in Writers, file[slot[w]] = Absent \/ Owns(w)
  PROVE  /\ \A v \in Writers \ {w} : Owns(v) => slot[v] # slot[w]
         /\ \A x : ~ Settled(slot[w], x)
<1>1. ASSUME NEW v \in Writers \ {w}, Owns(v), slot[v] = slot[w]
      PROVE  FALSE
  <2>1. CASE file[slot[w]] = Absent
    BY <1>1, <2>1, CallFacts, FileStates DEF Owns, OwnsItsFile
  <2>2. CASE Owns(w)
    BY <1>1, <2>2, CallFacts DEF OneOwner
  <2>. QED
    BY <2>1, <2>2
<1>2. ASSUME NEW x, Settled(slot[w], x)
      PROVE  FALSE
  BY <1>2, FileStates DEF Settled, Owned
<1>. QED
  BY <1>1, <1>2

(* Writing one's own path preserves FilesInv when it preserves it for the writer. *)
LEMMA FileStep ==
  ASSUME FilesInv, StoreTyped', CallsTyped', NEW w \in Writers, slot[w] \in Slots,
         file[slot[w]] = Absent \/ Owns(w),
         NEW content, file' = [file EXCEPT ![slot[w]] = content],
         OnlyCall(w), UNCHANGED <<candidate, slot, series, outcome>>,
         CandidateFits(w)', OwnsItsFile(w)', ~ HasWritten(w)'
  PROVE  FilesInv'
<1>1. WellTyped'
  BY TypesSplitNext
<1>2. /\ \A v \in Writers \ {w} : Owns(v) => slot[v] # slot[w]
      /\ \A x : ~ Settled(slot[w], x)
  BY NoOtherOwner
<1>3. \A path \in Slots : path # slot[w] => file'[path] = file[path]
  BY CallFacts DEF StoreTyped
<1>4. \A v \in Writers \ {w} : Owns(v)' <=> Owns(v)
  BY DEF OnlyCall, Owns
<1>5. OneOwner'
  BY <1>2, <1>4, CallFacts DEF OneOwner
<1>6. ASSUME NEW path \in Slots, NEW x, Settled(path, x)
      PROVE  Settled(path, x)'
  <2>1. path # slot[w] /\ ~ Owned(path) /\ file[path] = Complete(x)
    BY <1>2, <1>6 DEF Settled
  <2>2. ~ Owned(path)'
    BY <1>4, <2>1 DEF Owned
  <2>. QED
    BY <1>3, <2>1, <2>2 DEF Settled
<1>7. ASSUME NEW v \in Writers, v # w
      PROVE  CandidateFits(v)' /\ OwnsItsFile(v)' /\ WrittenIsSettled(v)'
  <2>1. CandidateFits(v) /\ OwnsItsFile(v) /\ WrittenIsSettled(v)
    BY CallFacts
  <2>2. CandidateFits(v)'
    BY <1>7, <2>1 DEF OnlyCall, CandidateFits, ForRecord
  <2>3. OwnsItsFile(v)'
    <3>1. Owns(v) => slot[v] \in Slots /\ slot[v] # slot[w]
      BY <1>2, <1>7, <2>1 DEF Owns, CandidateFits
    <3>. QED
      BY <1>3, <1>7, <2>1, <3>1 DEF OnlyCall, OwnsItsFile, Owns
  <2>4. WrittenIsSettled(v)'
    <3>1. SUFFICES ASSUME HasWritten(v)'
                   PROVE  Settled(slot[v], candidate[v])'
      BY DEF WrittenIsSettled, Settled, Owned
    <3>2. HasWritten(v) /\ slot[v] \in Slots
      BY <1>7, <2>1, <3>1 DEF HasWritten, OnlyCall, CandidateFits
    <3>. QED
      BY <1>6, <2>1, <3>2 DEF WrittenIsSettled
  <2>. QED
    BY <2>2, <2>3, <2>4
<1>8. \A v \in Writers : CreatedIsSettled(v)'
  <2>. SUFFICES ASSUME NEW v \in Writers
                PROVE  CreatedIsSettled(v)'
    OBVIOUS
  <2>1. CreatedIsSettled(v)
    BY CallFacts
  <2>. QED
    BY <1>6, <2>1 DEF CreatedIsSettled
<1>. QED
  BY <1>1, <1>5, <1>7, <1>8 DEF FilesInv, WellTyped, WrittenIsSettled

(* What each write does to the one file. *)
Creates(w) ==
  /\ pc[w] = "create" /\ file[slot[w]] = Absent /\ pc'[w] = "fill"
  /\ file' = [file EXCEPT ![slot[w]] = Torn]
  /\ UNCHANGED lock /\ OnlyCall(w) /\ UNCHANGED <<candidate, slot, series>>

Fills(w) ==
  /\ pc[w] = "fill" /\ pc'[w] = "verify"
  /\ file' = [file EXCEPT ![slot[w]] = Complete(candidate[w])]
  /\ UNCHANGED lock /\ OnlyCall(w) /\ UNCHANGED <<candidate, slot, series>>

RollsBack(w) ==
  /\ Owns(w) /\ pc'[w] = "release"
  /\ file' = [file EXCEPT ![slot[w]] = Absent]
  /\ UNCHANGED lock /\ OnlyCall(w) /\ UNCHANGED <<candidate, slot, series>>

(* Any of the three contents keeps the types. *)
LEMMA WriteTyped ==
  ASSUME StoreTyped, NEW path \in Slots,
         NEW content \in {Absent, Torn} \cup {Complete(x) : x \in Content(path)},
         file' = [file EXCEPT ![path] = content],
         UNCHANGED <<lock, environment>>, NoFault \/ Fault
  PROVE  StoreTyped'
<1>1. ASSUME NEW q \in Slots
      PROVE  (FileIsWhole(q) /\ (file[q].status = "complete" => file[q].content \in Content(q)))'
  <2>1. CASE q = path
    <3>1. file'[q] = content
      BY <2>1 DEF StoreTyped
    <3>. QED
      BY <2>1, <3>1, FileStates DEF FileIsWhole, Content
  <2>2. CASE q # path
    BY <2>2 DEF StoreTyped, FileIsWhole, Content
  <2>. QED
    BY <2>1, <2>2
<1>2. faults' \in 0 .. MaxFaults /\ crashes' \in 0 .. MaxCrashes
  BY FaultTyped
<1>3. DOMAIN file' = Slots
  BY DEF StoreTyped
<1>. QED
  BY <1>1, <1>2, <1>3 DEF StoreTyped, environment

LEMMA CreateFileStep ==
  ASSUME FilesInv, NEW w \in Writers, CreateFile(w)
  PROVE  FilesInv' /\ (Quiet(w) \/ Creates(w))
<1>1. pc[w] = "create" /\ UNCHANGED <<lock, environment>> /\ NoFault
  BY DEF CreateFile
<1>2. StoreTyped /\ CallsTyped /\ CandidateFits(w) /\ slot[w] \in Slots
  BY <1>1, CallFacts DEF CandidateFits
<1>3. CASE /\ file[slot[w]] = Absent
           /\ file' = [file EXCEPT ![slot[w]] = Torn]
           /\ Goto(w, "fill")
  <2>1. StoreTyped'
    BY <1>1, <1>2, <1>3, WriteTyped
  <2>2. /\ OnlyCall(w) /\ CallsTyped' /\ pc'[w] = "fill"
        /\ UNCHANGED <<candidate, slot, series, names, cause, outcome>>
    BY <1>2, <1>3, GotoFrame DEF Phases, InCriticalSection
  <2>3. CandidateFits(w)' /\ ~ HasWritten(w)'
    BY <1>1, <1>2, <2>2 DEF CandidateFits, ForRecord, HasWritten
  <2>4. OwnsItsFile(w)'
    BY <1>2, <1>3, <2>2 DEF OwnsItsFile, StoreTyped
  <2>. QED
    BY <1>1, <1>2, <1>3, <2>1, <2>2, <2>3, <2>4, FileStep DEF Creates
<1>4. CASE UNCHANGED file /\ Raise(w, "conflict", "release")
  <2>1. StoreTyped' /\ UNCHANGED <<lock, file>>
    BY <1>1, <1>4, LooksTyped DEF store
  <2>. QED
    BY <1>1, <1>4, <2>1, RaiseStep DEF Causes, Active, InCriticalSection
<1>. QED
  BY <1>3, <1>4 DEF CreateFile

LEMMA FillFileStep ==
  ASSUME FilesInv, NEW w \in Writers, FillFile(w)
  PROVE  FilesInv' /\ Fills(w)
<1>1. /\ pc[w] = "fill" /\ UNCHANGED <<lock, environment>> /\ NoFault
      /\ file' = [file EXCEPT ![slot[w]] = Complete(candidate[w])] /\ Goto(w, "verify")
  BY DEF FillFile
<1>2. /\ StoreTyped /\ CallsTyped /\ CandidateFits(w)
      /\ slot[w] \in Slots /\ candidate[w] \in Content(slot[w])
  BY <1>1, CallFacts DEF CandidateFits
<1>3. StoreTyped'
  BY <1>1, <1>2, WriteTyped
<1>4. /\ OnlyCall(w) /\ CallsTyped' /\ pc'[w] = "verify"
      /\ UNCHANGED <<candidate, slot, series, names, cause, outcome>>
  BY <1>1, <1>2, GotoFrame DEF Phases, InCriticalSection
<1>5. CandidateFits(w)' /\ ~ HasWritten(w)'
  BY <1>1, <1>2, <1>4 DEF CandidateFits, ForRecord, HasWritten
<1>6. OwnsItsFile(w)'
  BY <1>1, <1>2, <1>4 DEF OwnsItsFile, StoreTyped
<1>7. Owns(w)
  BY <1>1 DEF Owns
<1>. QED
  BY <1>1, <1>2, <1>3, <1>4, <1>5, <1>6, <1>7, FileStep DEF Fills

LEMMA RollbackStep ==
  ASSUME FilesInv, NEW w \in Writers, Owns(w), Rollback(w), NEW error \in Causes \ {"none"},
         Raise(w, error, "release"), error = "manifest" => ForRecord(w),
         UNCHANGED <<lock, environment>>, NoFault \/ Fault
  PROVE  FilesInv' /\ RollsBack(w)
<1>1. /\ StoreTyped /\ CallsTyped /\ CandidateFits(w) /\ slot[w] \in Slots
      /\ pc[w] \in {"fill", "verify"}
  BY CallFacts DEF CandidateFits, Owns
<1>2. file' = [file EXCEPT ![slot[w]] = Absent]
  BY DEF Rollback
<1>3. StoreTyped'
  BY <1>1, <1>2, WriteTyped
<1>4. /\ OnlyCall(w) /\ CallsTyped' /\ pc'[w] = "release" /\ cause'[w] = error
      /\ UNCHANGED <<candidate, slot, series, names, outcome>>
  BY <1>1, RaiseFrame DEF Phases, InCriticalSection
<1>5. CandidateFits(w)' /\ ~ HasWritten(w)' /\ OwnsItsFile(w)'
  BY <1>1, <1>4 DEF CandidateFits, ForRecord, HasWritten, OwnsItsFile
<1>. QED
  BY <1>1, <1>2, <1>3, <1>4, <1>5, FileStep DEF RollsBack

LEMMA VerifyFileStep ==
  ASSUME FilesInv, NEW w \in Writers, VerifyFile(w)
  PROVE  FilesInv' /\ (Quiet(w) \/ RollsBack(w))
<1>1. pc[w] = "verify" /\ Owns(w) /\ UNCHANGED <<lock, environment>> /\ NoFault
  BY DEF VerifyFile, Owns
<1>2. CASE Goto(w, "release") /\ UNCHANGED file
  <2>1. StoreTyped' /\ UNCHANGED <<lock, file>>
    BY <1>1, <1>2, LooksTyped DEF store
  <2>2. /\ OnlyCall(w) /\ CallsTyped' /\ pc'[w] = "release"
        /\ UNCHANGED <<candidate, slot, series, names, cause, outcome>>
    BY <1>2, CallFacts, GotoFrame DEF Phases, InCriticalSection
  <2>3. CandidateFits(w)' /\ ~ Owns(w)'
    BY <1>1, <2>2, CallFacts DEF CandidateFits, ForRecord, Owns
  <2>4. WrittenIsSettled(w)'
    <3>1. file[slot[w]] = Complete(candidate[w])
      BY <1>1, CallFacts DEF OwnsItsFile
    <3>2. ~ Owned(slot[w])'
      <4>1. \A v \in Writers \ {w} : Owns(v) => slot[v] # slot[w]
        BY <1>1, NoOtherOwner
      <4>. QED
        BY <2>2, <2>3, <4>1 DEF Owned, OnlyCall, Owns
    <3>. QED
      BY <1>2, <2>2, <3>1, <3>2 DEF WrittenIsSettled, Settled, Owned
  <2>5. CreatedIsSettled(w)'
    <3>1. \A v \in Writers : Owns(v)' => Owns(v) /\ slot'[v] = slot[v]
      BY <2>2, <2>3 DEF OnlyCall, Owns
    <3>. QED
      BY <2>2, <3>1, CallFacts, SettledStays, <1>2 DEF CreatedIsSettled
  <2>6. Quiet(w)
    BY <1>1, <2>1, <2>2 DEF Quiet, Active, InCriticalSection
  <2>. QED
    BY <2>1, <2>2, <2>3, <2>4, <2>5, <2>6, QuietFiles
<1>3. CASE ForRecord(w) /\ Rollback(w) /\ Raise(w, "manifest", "release")
  BY <1>1, <1>3, RollbackStep DEF Causes
<1>. QED
  BY <1>2, <1>3 DEF VerifyFile

(* The service goes on after the writer, whether the lock could be removed or not. *)
LEMMA AfterWriterStep ==
  ASSUME FilesInv, StoreTyped', UNCHANGED file, NEW w \in Writers, pc[w] = "release", AfterWriter(w),
         UNCHANGED lock \/ lock' = [lock EXCEPT ![series[w]] = Nobody]
  PROVE  FilesInv' /\ Quiet(w)
<1>1. PICK phase \in {"confirm", "relist", "reconsider"} :
        /\ Goto(w, phase)
        /\ phase = "confirm" <=> cause[w] = "none"
        /\ phase = "relist" => ForRecord(w)
        /\ phase = "reconsider" => ~ ForRecord(w)
  BY DEF AfterWriter, Reconciliation
<1>2. /\ OnlyCall(w) /\ CallsTyped' /\ pc'[w] = phase
      /\ UNCHANGED <<candidate, slot, series, names, cause, outcome>>
  BY <1>1, CallFacts, GotoFrame DEF Phases, InCriticalSection
<1>3. CandidateFits(w)' /\ ~ Owns(w)' /\ (HasWritten(w)' => HasWritten(w))
  BY <1>1, <1>2, CallFacts DEF CandidateFits, ForRecord, Owns, HasWritten
<1>4. Quiet(w)
  BY <1>2 DEF Quiet, Active, InCriticalSection
<1>. QED
  BY <1>2, <1>3, <1>4, GoOnStep

LEMMA ReleaseLockStep ==
  ASSUME FilesInv, NEW w \in Writers, ReleaseLock(w)
  PROVE  FilesInv' /\ Quiet(w)
<1>1. /\ pc[w] = "release" /\ lock' = [lock EXCEPT ![series[w]] = Nobody] /\ AfterWriter(w)
      /\ UNCHANGED <<file, environment>> /\ NoFault
  BY DEF ReleaseLock
<1>2. StoreTyped'
  BY <1>1, CallFacts DEF StoreTyped, environment, NoFault, FileIsWhole
<1>. QED
  BY <1>1, <1>2, AfterWriterStep

-----------------------------------------------------------------------------
(* The services after the writer. *)

LEMMA ConfirmStep ==
  ASSUME FilesInv, NEW w \in Writers, Confirm(w)
  PROVE  FilesInv' /\ Quiet(w)
<1>1. pc[w] = "confirm" /\ StoreTyped' /\ UNCHANGED <<lock, file>>
  BY ReadsLooks DEF Confirm
<1>2. \/ Return(w, "partial", candidate[w]) \/ Fail(w, "integrity")
      \/ Return(w, "created", candidate[w])
  BY DEF Confirm
<1>3. slot[w] \in Slots /\ Settled(slot[w], candidate[w])
  BY <1>1, CallFacts DEF WrittenIsSettled, HasWritten, CandidateFits
<1>. QED
  BY <1>1, <1>2, <1>3, ExistingStep, FailStep, ReturnStep DEF Kinds

LEMMA RelistStep ==
  ASSUME FilesInv, NEW w \in Writers, Relist(w)
  PROVE  FilesInv' /\ Quiet(w)
<1>1. pc[w] = "relist" /\ StoreTyped' /\ UNCHANGED <<lock, file>>
  BY ReadsLooks DEF Relist
<1>2. CASE ListIds(w, "reload")
  <2>1. /\ OnlyCall(w) /\ CallsTyped' /\ pc'[w] = "reload"
        /\ UNCHANGED <<candidate, slot, series, cause, outcome>>
    BY <1>2, CallFacts, ListIdsFrame DEF Phases
  <2>2. CandidateFits(w)'
    BY <1>1, <2>1, CallFacts DEF CandidateFits, ForRecord
  <2>3. Quiet(w) /\ ~ Owns(w)' /\ ~ HasWritten(w)'
    BY <1>1, <2>1, QuietOutside DEF Active, InCriticalSection, HasWritten
  <2>. QED
    BY <1>1, <2>1, <2>2, <2>3, GoOnStep
<1>3. CASE Fail(w, "integrity")
  BY <1>1, <1>3, FailStep DEF Kinds
<1>. QED
  BY <1>2, <1>3 DEF Relist

LEMMA ReloadStep ==
  ASSUME FilesInv, NEW w \in Writers, Reload(w)
  PROVE  FilesInv' /\ Quiet(w)
<1>1. pc[w] = "reload" /\ StoreTyped' /\ UNCHANGED <<lock, file>>
  BY ReadsLooks DEF Reload
<1>2. \/ \E kind \in {"write_error", "integrity", "conflict"} : Fail(w, kind)
      \/ Reconciled(w) \/ Retry(w)
  BY DEF Reload
<1>. QED
  BY <1>1, <1>2, FailStep, ReconciledStep, RetryStep DEF Kinds

LEMMA ReconsiderStep ==
  ASSUME FilesInv, NEW w \in Writers, Reconsider(w)
  PROVE  FilesInv' /\ Quiet(w)
<1>1. pc[w] = "reconsider" /\ StoreTyped' /\ UNCHANGED <<lock, file>>
  BY ReadsLooks DEF Reconsider
<1>2. cause[w] \in {"none", "conflict", "integrity", "write_error", "read_error"}
  BY <1>1, CallFacts DEF CandidateFits, Causes
<1>3. \/ \E kind \in {"none", "integrity", "conflict", "write_error"} : Fail(w, kind)
      \/ \E x : Return(w, "existing", x)
  BY <1>2 DEF Reconsider
<1>. QED
  BY <1>1, <1>3, FailStep, ExistingStep DEF Kinds

-----------------------------------------------------------------------------
(* Failing file operations, crashes, and the environment. *)

LEMMA FaultLooks ==
  ASSUME FilesInv, UNCHANGED <<store, environment>>, Fault
  PROVE  StoreTyped' /\ UNCHANGED <<lock, file>>
BY LooksTyped

LEMMA FirstReadFailsStep ==
  ASSUME FilesInv, NEW w \in Writers, FirstReadFails(w)
  PROVE  FilesInv' /\ Quiet(w)
<1>1. StoreTyped' /\ UNCHANGED <<lock, file>> /\ Fail(w, "write_error")
  BY FaultLooks DEF FirstReadFails
<1>. QED
  BY <1>1, FailStep DEF Kinds

LEMMA ManifestReadFailsStep ==
  ASSUME FilesInv, NEW w \in Writers, ManifestReadFails(w)
  PROVE  FilesInv' /\ Quiet(w)
<1>1. StoreTyped' /\ UNCHANGED <<lock, file>>
  BY FaultLooks DEF ManifestReadFails
<1>2. CASE Fail(w, "integrity")
  BY <1>1, <1>2, FailStep DEF Kinds
<1>3. CASE pc[w] = "check" /\ ForRecord(w) /\ Raise(w, "manifest", "release")
  BY <1>1, <1>3, RaiseStep DEF Causes, Active, InCriticalSection
<1>4. ASSUME NEW id \in Ids, pc[w] = "generate",
             pc' = [pc EXCEPT ![w] = "relist"],
             \E error \in {"manifest"} \cup {e \in {"integrity"} : series[w] \in Academic} :
               cause' = [cause EXCEPT ![w] = error],
             candidate' = [candidate EXCEPT ![w].publication_id = id],
             slot' = [slot EXCEPT ![w] = <<"record", id>>],
             UNCHANGED <<series, names, attempts, outcome>>
      PROVE  FilesInv' /\ Quiet(w)
  <2>1. PICK error \in Causes : cause' = [cause EXCEPT ![w] = error]
    BY <1>4 DEF Causes
  <2>. QED
    BY <1>1, <1>4, <2>1, IdStep
<1>. QED
  BY <1>2, <1>3, <1>4 DEF ManifestReadFails

LEMMA AcquireFailsStep ==
  ASSUME FilesInv, NEW w \in Writers, AcquireFails(w)
  PROVE  FilesInv' /\ Quiet(w)
<1>1. StoreTyped' /\ UNCHANGED <<lock, file>>
  BY FaultLooks DEF AcquireFails
<1>2. PICK error \in {"write_error", "read_error"} : Raise(w, error, Reconciliation(w))
  BY DEF AcquireFails
<1>. QED
  BY <1>1, <1>2, RaiseStep DEF AcquireFails, Reconciliation, Causes

LEMMA StateReadFailsStep ==
  ASSUME FilesInv, NEW w \in Writers, StateReadFails(w)
  PROVE  FilesInv' /\ Quiet(w)
<1>1. StoreTyped' /\ UNCHANGED <<lock, file>>
  BY FaultLooks DEF StateReadFails
<1>2. PICK error \in {"integrity", "read_error"} : Raise(w, error, "release")
  BY DEF StateReadFails
<1>. QED
  BY <1>1, <1>2, RaiseStep DEF StateReadFails, Causes, Active, InCriticalSection

LEMMA WriteFailsStep ==
  ASSUME FilesInv, NEW w \in Writers, WriteFails(w)
  PROVE  FilesInv' /\ (Quiet(w) \/ RollsBack(w))
<1>1. PICK error \in {"write_error", "manifest"} :
        Raise(w, error, "release") /\ (error = "manifest" => ForRecord(w))
  BY DEF WriteFails
<1>2. UNCHANGED <<lock, environment>> /\ Fault
  BY DEF WriteFails
<1>3. CASE pc[w] = "create" /\ UNCHANGED file
  <2>1. StoreTyped' /\ UNCHANGED <<lock, file>>
    BY <1>2, <1>3, FaultLooks DEF store
  <2>. QED
    BY <1>1, <1>3, <2>1, RaiseStep DEF Causes, Active, InCriticalSection
<1>4. CASE pc[w] \in {"fill", "verify"} /\ Rollback(w)
  BY <1>1, <1>2, <1>4, RollbackStep DEF Causes, Owns
<1>. QED
  BY <1>3, <1>4 DEF WriteFails

LEMMA RollbackFailsStep ==
  ASSUME FilesInv, NEW w \in Writers, RollbackFails(w)
  PROVE  FilesInv' /\ Quiet(w)
<1>1. StoreTyped' /\ UNCHANGED <<lock, file>>
  BY FaultLooks DEF RollbackFails
<1>. QED
  BY <1>1, RaiseStep DEF RollbackFails, Causes, Active, InCriticalSection

LEMMA ReleaseFailsStep ==
  ASSUME FilesInv, NEW w \in Writers, ReleaseFails(w)
  PROVE  FilesInv' /\ Quiet(w)
<1>1. StoreTyped' /\ UNCHANGED <<lock, file>>
  BY FaultLooks DEF ReleaseFails
<1>. QED
  BY <1>1, AfterWriterStep DEF ReleaseFails

LEMMA LastReadFailsStep ==
  ASSUME FilesInv, NEW w \in Writers, LastReadFails(w)
  PROVE  FilesInv' /\ Quiet(w)
<1>1. StoreTyped' /\ UNCHANGED <<lock, file>>
  BY FaultLooks DEF LastReadFails
<1>2. \/ Return(w, "partial", candidate[w]) \/ Fail(w, "integrity") \/ Fail(w, "write_error")
  BY DEF LastReadFails
<1>. QED
  BY <1>1, <1>2, ExistingStep, FailStep DEF Kinds

LEMMA CrashStep ==
  ASSUME FilesInv, NEW w \in Writers, Crash(w)
  PROVE  FilesInv' /\ Quiet(w)
<1>1. StoreTyped /\ crashes' \in 0 .. MaxCrashes /\ faults' \in 0 .. MaxFaults
  <2>1. /\ StoreTyped /\ MaxCrashes \in Nat
        /\ crashes \in 0 .. MaxCrashes /\ faults \in 0 .. MaxFaults
    BY CallFacts, ConstantsAssumption DEF StoreTyped
  <2>. QED
    BY <2>1 DEF Crash
<1>2. StoreTyped' /\ UNCHANGED <<lock, file>>
  BY <1>1, ReadsTyped DEF Crash, store, environment
<1>. QED
  BY <1>2, ReturnStep DEF Crash, Kinds

(* What changes outside the calls: a lock is cleared, or the registration or a manifest changes. *)
Clears(s) ==
  /\ GuardedClearing => ~ Active(lock[s])
  /\ lock[s] # Nobody
  /\ lock' = [lock EXCEPT ![s] = Nobody]

LEMMA OutsideStep ==
  ASSUME FilesInv, StoreTyped', UNCHANGED <<file, call>>
  PROVE  FilesInv'
<1>1. CallsTyped'
  BY TypesSplit DEF FilesInv, WellTyped, CallsTyped, call
<1>2. WellTyped'
  BY <1>1, TypesSplitNext
<1>. QED
  BY <1>2 DEF FilesInv, WellTyped, call, OneOwner, Owns, CandidateFits, ForRecord, OwnsItsFile,
              WrittenIsSettled, HasWritten, CreatedIsSettled, Settled, Owned

LEMMA ClearLockStep ==
  ASSUME FilesInv, NEW s \in Series, ClearLock(s)
  PROVE  FilesInv' /\ Clears(s) /\ UNCHANGED <<file, call>>
<1>1. StoreTyped'
  BY TypesSplit DEF FilesInv, WellTyped, StoreTyped, ClearLock, environment, FileIsWhole
<1>. QED
  BY <1>1, OutsideStep DEF ClearLock, Clears

LEMMA UpdateRegistrationStep ==
  ASSUME FilesInv, UpdateRegistration
  PROVE  FilesInv' /\ UNCHANGED <<lock, file, call>>
<1>1. StoreTyped
  BY TypesSplit DEF FilesInv, WellTyped
<1>2. registration' \in [revision : 0 .. MaxRegistration, lifecycle : {"none", "active", "cancelled"}]
  <2>1. registration.revision + 1 \in 0 .. MaxRegistration
    BY <1>1, ConstantsAssumption DEF StoreTyped, UpdateRegistration
  <2>. QED
    BY <2>1 DEF UpdateRegistration
<1>3. StoreTyped'
  BY <1>1, <1>2 DEF StoreTyped, UpdateRegistration, store, FileIsWhole
<1>. QED
  BY <1>3, OutsideStep DEF UpdateRegistration, store

LEMMA RewriteManifestStep ==
  ASSUME FilesInv, NEW path \in Series \X Revisions, RewriteManifest(path)
  PROVE  FilesInv' /\ UNCHANGED <<lock, file, call>>
<1>1. StoreTyped
  BY TypesSplit DEF FilesInv, WellTyped
<1>2. manifest' \in [Series \X Revisions -> Digests] /\ changes' \in 0 .. MaxChanges
  BY <1>1, ConstantsAssumption DEF StoreTyped, RewriteManifest
<1>3. StoreTyped'
  BY <1>1, <1>2 DEF StoreTyped, RewriteManifest, store, FileIsWhole
<1>. QED
  BY <1>3, OutsideStep DEF RewriteManifest, store

-----------------------------------------------------------------------------
(***************************************************************************)
(* The first layer: FilesInv is inductive, without any lock.               *)
(***************************************************************************)

LEMMA InitFiles == Init => FilesInv
<1>. SUFFICES ASSUME Init
              PROVE  FilesInv
  OBVIOUS
<1>1. StoreTyped
  BY ConstantsAssumption, FileStates DEF Init, StoreTyped, FileIsWhole
<1>2. CallsTyped
  <2>1. "idle" \in Phases /\ "none" \in Causes /\ 0 \in 0 .. MaxAttempts - 1 /\ NoOutcome.kind \in Kinds
    BY ConstantsAssumption DEF Phases, Causes, NoOutcome, Kinds
  <2>. QED
    BY <2>1 DEF Init, CallsTyped
<1>3. WellTyped
  BY <1>1, <1>2, TypesSplit
<1>4. OneOwner
  BY DEF Init, OneOwner, Owns
<1>5. ASSUME NEW w \in Writers
      PROVE  CandidateFits(w) /\ OwnsItsFile(w) /\ WrittenIsSettled(w) /\ CreatedIsSettled(w)
  BY DEF Init, CandidateFits, OwnsItsFile, WrittenIsSettled, HasWritten, CreatedIsSettled, NoOutcome
<1>. QED
  BY <1>3, <1>4, <1>5 DEF FilesInv, WellTyped

(***************************************************************************)
(* What a step can do to files and locks, whichever action takes it.  The  *)
(* later layers only have to look at these.                                *)
(***************************************************************************)
StepOf(w) ==
  \/ Quiet(w) \/ Acquires(w) \/ ListsHistory(w) \/ GoesToCreate(w)
  \/ Creates(w) \/ Fills(w) \/ RollsBack(w)

Outside ==
  /\ UNCHANGED <<file, call>>
  /\ UNCHANGED lock \/ \E s \in Series : Clears(s)

LEMMA WriterSteps ==
  ASSUME FilesInv, NEW w \in Writers, Step(w) \/ FileError(w) \/ Crash(w)
  PROVE  FilesInv' /\ StepOf(w)
<1>1. CASE ListSeries(w) \/ LoadSeries(w) \/ \E id \in Ids : GenerateId(w, id)
  BY <1>1, ListSeriesStep, LoadSeriesStep, GenerateIdStep DEF StepOf
<1>2. CASE AcquireLock(w) \/ PublicationVanished(w)
  BY <1>2, AcquireLockStep, PublicationVanishedStep DEF StepOf
<1>3. CASE CheckRecord(w) \/ CheckWithdrawal(w) \/ CheckHistory(w)
  BY <1>3, CheckRecordStep, CheckWithdrawalStep, CheckHistoryStep DEF StepOf
<1>4. CASE CreateFile(w) \/ FillFile(w) \/ VerifyFile(w) \/ ReleaseLock(w)
  BY <1>4, CreateFileStep, FillFileStep, VerifyFileStep, ReleaseLockStep DEF StepOf
<1>5. CASE Confirm(w) \/ Relist(w) \/ Reload(w) \/ Reconsider(w)
  BY <1>5, ConfirmStep, RelistStep, ReloadStep, ReconsiderStep DEF StepOf
<1>6. CASE FirstReadFails(w) \/ ManifestReadFails(w) \/ AcquireFails(w) \/ StateReadFails(w)
  BY <1>6, FirstReadFailsStep, ManifestReadFailsStep, AcquireFailsStep, StateReadFailsStep DEF StepOf
<1>7. CASE WriteFails(w) \/ RollbackFails(w) \/ ReleaseFails(w) \/ LastReadFails(w) \/ Crash(w)
  BY <1>7, WriteFailsStep, RollbackFailsStep, ReleaseFailsStep, LastReadFailsStep, CrashStep DEF StepOf
<1>. QED
  BY <1>1, <1>2, <1>3, <1>4, <1>5, <1>6, <1>7 DEF Step, FileError

LEMMA NextFiles ==
  ASSUME FilesInv, [Next]_vars
  PROVE  FilesInv' /\ (Outside \/ \E w \in Writers : StepOf(w))
<1>1. ASSUME NEW w \in Writers, NEW s \in Series, NEW r \in Revisions, NEW m \in Metadata,
             NEW reg \in 0 .. MaxRegistration, NEW old \in Ids \cup {None},
             Publish(w, s, r, m, reg, old)
      PROVE  FilesInv' /\ StepOf(w)
  BY <1>1, PublishStep DEF StepOf
<1>2. ASSUME NEW w \in Writers, NEW id \in Ids, NEW reason \in Reasons, Withdraw(w, id, reason)
      PROVE  FilesInv' /\ StepOf(w)
  BY <1>2, WithdrawStep DEF StepOf
<1>3. ASSUME NEW w \in Writers, Step(w) \/ FileError(w) \/ Crash(w)
      PROVE  FilesInv' /\ StepOf(w)
  BY <1>3, WriterSteps
<1>4. ASSUME NEW s \in Series, ClearLock(s)
      PROVE  FilesInv' /\ Outside
  BY <1>4, ClearLockStep DEF Outside
<1>5. CASE UpdateRegistration
  BY <1>5, UpdateRegistrationStep DEF Outside
<1>6. ASSUME NEW path \in Series \X Revisions, RewriteManifest(path)
      PROVE  FilesInv' /\ Outside
  BY <1>6, RewriteManifestStep DEF Outside
<1>7. CASE UNCHANGED vars
  <2>1. StoreTyped' /\ UNCHANGED <<lock, file, call>>
    BY <1>7, TypesSplit DEF FilesInv, WellTyped, StoreTyped, vars, store, environment, FileIsWhole
  <2>. QED
    BY <2>1, OutsideStep DEF Outside
<1>. QED
  BY <1>1, <1>2, <1>3, <1>4, <1>5, <1>6, <1>7 DEF Next

(* FilesInv holds throughout. *)
LEMMA FilesInvariance == Spec => []FilesInv
<1>1. FilesInv /\ [Next]_vars => FilesInv'
  BY NextFiles
<1>. QED
  BY <1>1, InitFiles, PTL DEF Spec

(***************************************************************************)
(* A complete file is only ever removed, by the call that has just filled  *)
(* it.                                                                     *)
(***************************************************************************)
THEOREM SettledFilesAreImmutableHolds == Spec => SettledFilesAreImmutable
<1>. DEFINE Kind ==
       \A path \in Slots :
         file[path].status = "complete" /\ file'[path] # file[path] =>
           /\ file'[path] = Absent
           /\ \E w \in Writers : slot[w] = path /\ pc[w] = "verify" /\ file[path].content = candidate[w]
<1>1. ASSUME FilesInv, [Next]_vars
      PROVE  Kind
  <2>. SUFFICES ASSUME NEW path \in Slots, file[path].status = "complete", file'[path] # file[path]
                PROVE  /\ file'[path] = Absent
                       /\ \E w \in Writers :
                            slot[w] = path /\ pc[w] = "verify" /\ file[path].content = candidate[w]
    OBVIOUS
  <2>1. PICK w \in Writers : Creates(w) \/ Fills(w) \/ RollsBack(w)
    BY <1>1, NextFiles DEF Outside, StepOf, Quiet, Acquires, ListsHistory, GoesToCreate
  <2>2. OwnsItsFile(w) /\ CandidateFits(w) /\ DOMAIN file = Slots
    BY <1>1, CallFacts DEF StoreTyped
  <2>3. slot[w] = path
    BY <2>1, <2>2 DEF Creates, Fills, RollsBack
  <2>4. file[path] # Absent /\ file[path] # Torn
    BY FileStates
  <2>5. RollsBack(w) /\ pc[w] = "verify"
    BY <2>1, <2>2, <2>3, <2>4 DEF Creates, Fills, RollsBack, OwnsItsFile, Owns
  <2>6. file'[path] = Absent
    BY <2>2, <2>3, <2>5 DEF RollsBack
  <2>7. file[path].content = candidate[w]
    BY <2>2, <2>3, <2>5, FileStates DEF OwnsItsFile
  <2>. QED
    BY <2>3, <2>5, <2>6, <2>7
<1>2. FilesInv /\ [Next]_vars => [Kind]_vars
  BY <1>1
<1>. QED
  BY <1>2, FilesInvariance, PTL DEF Spec, SettledFilesAreImmutable

(* What a call reported as created is there, complete and with no owner, for good. *)
THEOREM CreatedIsDurableHolds == Spec => []CreatedIsDurable
<1>1. FilesInv => CreatedIsDurable
  BY DEF FilesInv, CreatedIsSettled, Settled, CreatedIsDurable, Kept
<1>. QED
  BY <1>1, FilesInvariance, PTL

(* Every variable keeps its type, whoever clears locks. *)
THEOREM TypeCorrect == Spec => []TypeOK
<1>1. FilesInv => TypeOK
  BY DEF FilesInv
<1>. QED
  BY <1>1, FilesInvariance, PTL

-----------------------------------------------------------------------------
(***************************************************************************)
(* The second layer: the lock.                                             *)
(***************************************************************************)

LEMMA OneActive ==
  ASSUME NEW v \in Writers, NEW w \in Writers, HoldsItsLock(v), HoldsItsLock(w),
         Active(v), Active(w), series[v] = series[w]
  PROVE  v = w
BY DEF HoldsItsLock

(* No step takes a series lock from the call that is in its critical section. *)
LEMMA LocksKept ==
  ASSUME GuardedClearing, FilesInv, \A v \in Writers : HoldsItsLock(v),
         Outside \/ \E w \in Writers : StepOf(w)
  PROVE  \A v \in Writers : HoldsItsLock(v)'
<1>. SUFFICES ASSUME NEW v \in Writers, Active(v)'
              PROVE  lock'[series'[v]] = v
  BY DEF HoldsItsLock
<1>1. /\ lock \in [Series -> Writers \cup {Nobody}]
      /\ Active(v) => series[v] \in Series /\ lock[series[v]] = v
      /\ Nobody \notin Writers
  BY CallFacts, ConstantsAssumption
  DEF StoreTyped, CandidateFits, Active, InCriticalSection, HoldsItsLock
<1>2. CASE Outside
  <2>1. Active(v) /\ series'[v] = series[v]
    BY <1>2 DEF Outside, call, Active
  <2>2. \A s \in Series : Clears(s) => s # series[v]
    BY <1>1, <2>1 DEF Clears
  <2>. QED
    BY <1>1, <1>2, <2>1, <2>2 DEF Outside, Clears
<1>3. ASSUME NEW w \in Writers, StepOf(w), v # w
      PROVE  lock'[series'[v]] = v
  <2>1. OnlyCall(w)
    BY <1>3 DEF StepOf, Quiet, Acquires, ListsHistory, GoesToCreate, Creates, Fills, RollsBack
  <2>2. Active(v) /\ series'[v] = series[v]
    BY <1>3, <2>1 DEF OnlyCall, Active
  <2>3. \/ UNCHANGED lock
        \/ Active(w) /\ lock' = [lock EXCEPT ![series[w]] = Nobody]
        \/ lock[series[w]] = Nobody /\ lock' = [lock EXCEPT ![series[w]] = w]
    BY <1>3 DEF StepOf, Quiet, Acquires, ListsHistory, GoesToCreate, Creates, Fills, RollsBack,
                Active, InCriticalSection
  <2>4. Active(w) => series[w] # series[v]
    BY <1>3, <2>2, OneActive
  <2>. QED
    BY <1>1, <2>2, <2>3, <2>4
<1>4. ASSUME StepOf(v)
      PROVE  lock'[series'[v]] = v
  <2>1. CASE Quiet(v)
    BY <1>1, <2>1 DEF Quiet
  <2>2. CASE Acquires(v)
    <3>1. series[v] \in Series /\ series'[v] = series[v]
      BY <2>2, CallFacts DEF Acquires, CandidateFits
    <3>. QED
      BY <1>1, <2>2, <3>1 DEF Acquires
  <2>3. CASE ListsHistory(v) \/ GoesToCreate(v) \/ Creates(v) \/ Fills(v) \/ RollsBack(v)
    <3>1. Active(v) /\ UNCHANGED <<lock, series>>
      BY <2>3 DEF ListsHistory, GoesToCreate, Creates, Fills, RollsBack, Owns, Active, InCriticalSection
    <3>. QED
      BY <1>1, <3>1
  <2>. QED
    BY <1>4, <2>1, <2>2, <2>3 DEF StepOf
<1>. QED
  BY <1>2, <1>3, <1>4

-----------------------------------------------------------------------------
(* Series as sets of records. *)

(* What may be a series of this work: finitely many records with an ID each. *)
Records(records) ==
  /\ IsFiniteSet(records)
  /\ \A x \in records : x.publication_id \in Ids
  /\ \A x, y \in records : x.publication_id = y.publication_id => x = y

(* A record that extends a chain makes a longer chain, with itself as the head. *)
LEMMA ExtendedSeries ==
  ASSUME NEW records, Records(records), ValidSeries(records),
         NEW new, new.publication_id \in Ids, Extends(new, records),
         \A x \in records : x.publication_id # new.publication_id
  PROVE  ValidSeries(records \cup {new})
<1>. DEFINE longer == records \cup {new}
<1>1. None \notin Ids
  BY ConstantsAssumption
<1>2. CASE records = {}
  <2>1. longer = {new} /\ new.supersedes = None /\ None # new.publication_id
    BY <1>1, <1>2 DEF Extends
  <2>2. {x \in longer : x.supersedes = None} = {new} /\ Heads(longer) = {new}
    BY <2>1 DEF Heads
  <2>3. /\ Cardinality({x \in longer : x.supersedes = None}) = 1
        /\ Cardinality(Heads(longer)) = 1
    BY <2>2, FS_Singleton
  <2>4. \A a \in longer : a.supersedes # None => \E b \in longer : Supersedes(a, b)
    BY <2>1
  <2>. QED
    BY <2>1, <2>3, <2>4 DEF ValidSeries
<1>3. CASE records # {}
  <2>. DEFINE head == HeadOf(records)
  <2>1. /\ head \in records /\ head \in Heads(records)
        /\ Supersedes(new, head)
        /\ \A x \in records : x.revision # new.revision
    BY <1>3, HeadExists DEF Extends
  <2>2. /\ new.supersedes = head.publication_id /\ new.supersedes \in Ids /\ new.supersedes # None
        /\ new.supersedes # new.publication_id
    BY <1>1, <2>1 DEF Supersedes, Records
  <2>3. Heads(records) = {head}
    <3>1. IsFiniteSet(Heads(records))
      BY FS_Subset DEF Heads, Records
    <3>2. \E x : Heads(records) = {x}
      BY <1>3, <3>1, FS_Singleton DEF ValidSeries
    <3>. QED
      BY <2>1, <3>2
  <2>4. Cardinality({x \in longer : x.supersedes = None}) = 1
    <3>1. {x \in longer : x.supersedes = None} = {x \in records : x.supersedes = None}
      BY <2>2
    <3>. QED
      BY <1>3, <3>1 DEF ValidSeries
  <2>5. Heads(longer) = {new}
    <3>1. ASSUME NEW x \in records
          PROVE  x.supersedes # new.publication_id
      BY <1>1, <1>3 DEF ValidSeries, Supersedes
    <3>2. new \in Heads(longer)
      BY <2>2, <3>1 DEF Heads
    <3>3. ASSUME NEW x \in Heads(longer), x # new
          PROVE  FALSE
      <4>1. x \in records /\ x \in Heads(records)
        BY <3>3 DEF Heads
      <4>2. x = head
        BY <2>3, <4>1
      <4>. QED
        BY <2>2, <4>2, <3>3 DEF Heads
    <3>. QED
      BY <3>2, <3>3
  <2>6. Cardinality(Heads(longer)) = 1
    BY <2>5, FS_Singleton
  <2>7. \A a, b \in longer : a.revision = b.revision => a = b
    BY <1>3, <2>1 DEF ValidSeries
  <2>8. \A a, b \in longer : a.supersedes = b.supersedes => a = b
    <3>1. \A x \in records : x.supersedes # new.supersedes
      BY <2>1, <2>2 DEF Heads
    <3>. QED
      BY <1>3, <3>1 DEF ValidSeries
  <2>9. \A a \in longer : a.supersedes # None => \E b \in longer : Supersedes(a, b)
    BY <1>3, <2>1 DEF ValidSeries
  <2>. QED
    BY <2>4, <2>6, <2>7, <2>8, <2>9 DEF ValidSeries
<1>. QED
  BY <1>2, <1>3

(* The published records of a series are what the complete record files hold. *)
LEMMA PublishedMembers ==
  ASSUME FilesInv, NEW s
  PROVE  \A x : x \in Published(s) <=>
           x.publication_id \in Ids /\ RecordFile(x.publication_id) = Complete(x) /\ x.series = s
<1>1. ASSUME NEW x \in Published(s)
      PROVE  x.publication_id \in Ids /\ RecordFile(x.publication_id) = Complete(x) /\ x.series = s
  <2>1. PICK id \in Ids : /\ RecordFile(id).status = "complete"
                          /\ x = RecordFile(id).content /\ x.series = s
    BY DEF Published
  <2>2. RecordFile(id) = Complete(x) /\ x.publication_id = id
    BY <2>1, SlotFacts, WholeFiles DEF RecordFile
  <2>. QED
    BY <2>1, <2>2
<1>2. ASSUME NEW x, x.publication_id \in Ids, RecordFile(x.publication_id) = Complete(x), x.series = s
      PROVE  x \in Published(s)
  BY <1>2, FileStates DEF Published
<1>. QED
  BY <1>1, <1>2

LEMMA PublishedMembersNext ==
  ASSUME FilesInv', NEW s
  PROVE  \A x : x \in Published(s)' <=>
           x.publication_id \in Ids /\ RecordFile(x.publication_id)' = Complete(x) /\ x.series = s
<1>1. \A path \in Slots :
        FileIsWhole(path)' /\ (file'[path].status = "complete" => file'[path].content \in Content(path))
  BY TypesSplitNext DEF FilesInv, WellTyped, StoreTyped, Content
<1>2. ASSUME NEW x \in Published(s)'
      PROVE  x.publication_id \in Ids /\ RecordFile(x.publication_id)' = Complete(x) /\ x.series = s
  <2>1. PICK id \in Ids : /\ file'[<<"record", id>>].status = "complete"
                          /\ x = file'[<<"record", id>>].content /\ x.series = s
    BY <1>2 DEF Published, RecordFile
  <2>2. <<"record", id>> \in Slots /\ <<"record", id>>[2] = id
    BY SlotFacts
  <2>3. file'[<<"record", id>>] = Complete(x) /\ x.publication_id = id
    BY <1>1, <2>1, <2>2, FileStates DEF FileIsWhole, Content
  <2>. QED
    BY <2>1, <2>3 DEF RecordFile
<1>3. ASSUME NEW x, x.publication_id \in Ids, RecordFile(x.publication_id)' = Complete(x), x.series = s
      PROVE  x \in Published(s)'
  BY <1>3, FileStates DEF Published, RecordFile
<1>. QED
  BY <1>2, <1>3

LEMMA PublishedAreRecords ==
  ASSUME FilesInv, NEW s, NEW records \in SUBSET Published(s)
  PROVE  Records(records)
<1>1. \A x \in records :
        x.publication_id \in Ids /\ RecordFile(x.publication_id) = Complete(x)
  BY PublishedMembers
<1>2. \A x, y \in records : x.publication_id = y.publication_id => x = y
  BY <1>1, FileStates
<1>3. IsFiniteSet(records)
  <2>. DEFINE f == [x \in records |-> x.publication_id]
  <2>1. f \in Injection(records, Ids)
    BY <1>1, <1>2 DEF Injection, IsInjective
  <2>. QED
    BY <2>1, FS_Injection, IdsAssumption
<1>. QED
  BY <1>1, <1>2, <1>3 DEF Records

(* A step that leaves the record files alone leaves every series alone. *)
LEMMA SameSeries ==
  ASSUME FilesInv, FilesInv', \A id \in Ids : RecordFile(id)' = RecordFile(id)
  PROVE  \A s : Published(s)' = Published(s)
BY DEF Published

(* A step of w that writes its record changes its own series only, and only by its own record. *)
LEMMA OwnSeries ==
  ASSUME FilesInv, FilesInv', NEW w \in Writers, ForRecord(w), Creates(w) \/ Fills(w) \/ RollsBack(w),
         NEW own, own = series[w], NEW new, new = candidate[w]
  PROVE  /\ \A s : s # own => Published(s)' = Published(s)
         /\ Others(w)' = Others(w)
         /\ Fills(w) => Published(own)' = Others(w) \cup {new}
         /\ ~ Fills(w) => Published(own)' = Others(w)
         /\ new.publication_id \in Ids
         /\ \A x \in Others(w) : x.publication_id # new.publication_id
<1>. DEFINE id == new.publication_id
<1>1. /\ slot[w] \in Slots /\ slot[w] = <<"record", id>> /\ id \in Ids
      /\ new.series = own /\ OwnsItsFile(w) /\ DOMAIN file = Slots
  <2>1. CandidateFits(w) /\ OwnsItsFile(w) /\ DOMAIN file = Slots
    BY CallFacts DEF StoreTyped
  <2>2. slot[w] \in Slots /\ candidate[w] \in Content(slot[w]) /\ candidate[w].series = series[w]
    BY <2>1 DEF CandidateFits, Creates, Fills, RollsBack, Owns
  <2>3. id = slot[w][2] /\ slot[w][1] = "record"
    BY <2>2 DEF Content, ForRecord
  <2>. QED
    BY <2>1, <2>2, <2>3, SlotFacts
<1>2. \A i \in Ids : i # id => RecordFile(i)' = RecordFile(i)
  <2>1. PICK content : file' = [file EXCEPT ![slot[w]] = content]
    BY DEF Creates, Fills, RollsBack
  <2>2. ASSUME NEW i \in Ids, i # id
        PROVE  <<"record", i>> \in Slots /\ <<"record", i>> # slot[w]
    <3>1. <<"record", i>>[2] = i /\ <<"record", id>>[2] = id /\ <<"record", i>> \in Slots
      BY <1>1, SlotFacts
    <3>. QED
      BY <1>1, <2>2, <3>1
  <2>. QED
    BY <1>1, <2>1, <2>2 DEF RecordFile
<1>3. RecordFile(id)' = IF Fills(w) THEN Complete(new)
                        ELSE IF Creates(w) THEN Torn ELSE Absent
  BY <1>1, FileStates DEF RecordFile, Creates, Fills, RollsBack, Owns
<1>4. RecordFile(id) \in {Absent, Torn, Complete(new)}
  BY <1>1 DEF RecordFile, OwnsItsFile, Owns, Creates, Fills, RollsBack
<1>5. /\ \A s, x : x \in Published(s) <=>
           x.publication_id \in Ids /\ RecordFile(x.publication_id) = Complete(x) /\ x.series = s
      /\ \A s, x : x \in Published(s)' <=>
           x.publication_id \in Ids /\ RecordFile(x.publication_id)' = Complete(x) /\ x.series = s
  BY PublishedMembers, PublishedMembersNext
<1>6. ASSUME NEW s, NEW x, x.publication_id # id
      PROVE  x \in Published(s)' <=> x \in Published(s)
  <2>1. x.publication_id \in Ids => RecordFile(x.publication_id)' = RecordFile(x.publication_id)
    BY <1>2, <1>6
  <2>. QED
    BY <1>5, <2>1
<1>7. ASSUME NEW s, NEW x, x.publication_id = id
      PROVE  /\ x \in Published(s) => x = new /\ s = own
             /\ x \in Published(s)' <=> x = new /\ s = own /\ Fills(w)
  <2>1. x \in Published(s) => x = new /\ s = own
    <3>1. x \in Published(s) => RecordFile(id) = Complete(x) /\ x.series = s
      BY <1>5, <1>7
    <3>. QED
      BY <1>1, <1>4, <3>1, FileStates
  <2>2. x \in Published(s)' <=> RecordFile(id)' = Complete(x) /\ x.series = s
    BY <1>1, <1>5, <1>7
  <2>3. RecordFile(id)' = Complete(x) <=> Fills(w) /\ x = new
    BY <1>3, FileStates
  <2>. QED
    BY <1>1, <2>1, <2>2, <2>3
<1>8. /\ Others(w) = {x \in Published(own) : x.publication_id # id}
      /\ Others(w)' = {x \in Published(own)' : x.publication_id # id}
  <2>1. candidate'[w] = new /\ series'[w] = own
    BY DEF Creates, Fills, RollsBack
  <2>. QED
    BY <2>1 DEF Others
<1>9. ASSUME NEW s, s # own
      PROVE  Published(s)' = Published(s)
  <2>1. \A x : x \in Published(s)' <=> x \in Published(s)
    BY <1>6, <1>7, <1>9
  <2>. QED
    BY <2>1
<1>10. Others(w)' = Others(w)
  BY <1>6, <1>8
<1>11. \A x : x \in Published(own)' <=> x \in Others(w) \/ (x = new /\ Fills(w))
  BY <1>6, <1>7, <1>8
<1>. QED
  BY <1>1, <1>8, <1>9, <1>10, <1>11

(* The view of a call stays right while its series does not change. *)
LEMMA ViewKept ==
  ASSUME NEW v \in Writers, HistoryIsListed(v), CandidateExtends(v),
         pc'[v] = pc[v], candidate'[v] = candidate[v], slot'[v] = slot[v], series'[v] = series[v],
         names'[v] = names[v],
         NEW s, s = series[v],
         pc[v] \in {"history", "create", "fill", "verify"} => Published(s)' = Published(s)
  PROVE  HistoryIsListed(v)' /\ CandidateExtends(v)'
<1>1. pc[v] \in {"history", "create", "fill", "verify"} => Others(v)' = Others(v)
  BY DEF Others
<1>. QED
  BY <1>1 DEF HistoryIsListed, CandidateExtends, ForRecord

(* While no file changes, only the view of the call that takes the step can. *)
LEMMA StillFiles ==
  ASSUME FilesInv, ChainInv, UNCHANGED file, \A v \in Writers : HoldsItsLock(v)',
         NEW w \in Writers, OnlyCall(w), HistoryIsListed(w)', CandidateExtends(w)'
  PROVE  ChainInv'
<1>1. \A s : Published(s)' = Published(s)
  BY DEF Published, RecordFile
<1>2. SeriesIsChain'
  BY <1>1 DEF ChainInv, SeriesIsChain
<1>3. ASSUME NEW v \in Writers, v # w
      PROVE  HistoryIsListed(v)' /\ CandidateExtends(v)'
  BY <1>1, <1>3, ViewKept DEF OnlyCall, ChainInv
<1>. QED
  BY <1>2, <1>3 DEF ChainInv

LEMMA QuietChain ==
  ASSUME FilesInv, ChainInv, \A v \in Writers : HoldsItsLock(v)', NEW w \in Writers,
         Quiet(w) \/ Acquires(w)
  PROVE  ChainInv'
<1>1. pc'[w] \notin {"history", "create", "fill", "verify"} /\ UNCHANGED file /\ OnlyCall(w)
  BY DEF Quiet, Acquires, Active, InCriticalSection
<1>2. HistoryIsListed(w)' /\ CandidateExtends(w)'
  BY <1>1 DEF HistoryIsListed, CandidateExtends
<1>. QED
  BY <1>1, <1>2, StillFiles

(* The names listed under the lock are those of the series; the path was free. *)
LEMMA ListsHistoryChain ==
  ASSUME FilesInv, ChainInv, \A v \in Writers : HoldsItsLock(v)', NEW w \in Writers, ListsHistory(w)
  PROVE  ChainInv'
<1>. DEFINE own == candidate[w].publication_id
<1>1. /\ pc'[w] = "history" /\ names'[w] = Present /\ UNCHANGED <<file, candidate, series>>
      /\ OnlyCall(w) /\ file[slot[w]] = Absent
  BY DEF ListsHistory
<1>2. CandidateFits(w) /\ slot[w] \in Slots /\ candidate[w] \in Content(slot[w]) /\ ForRecord(w)
  BY CallFacts DEF ListsHistory, CandidateFits
<1>3. own \notin Present
  <2>1. own = slot[w][2] /\ slot[w] = <<"record", own>>
    BY <1>2, SlotFacts DEF Content, ForRecord
  <2>. QED
    BY <1>1, <2>1 DEF Present, RecordFile
<1>4. \A x \in Others(w) : x.publication_id \in Present
  BY PublishedMembers, FileStates DEF Others, Present
<1>5. Others(w)' = Others(w)
  BY <1>1 DEF Others, Published, RecordFile
<1>6. HistoryIsListed(w)' /\ CandidateExtends(w)'
  BY <1>1, <1>3, <1>4, <1>5 DEF HistoryIsListed, CandidateExtends
<1>. QED
  BY <1>1, <1>6, StillFiles

(* The history a call accepts is the other records of its series, and the candidate extends it. *)
LEMMA GoesToCreateChain ==
  ASSUME FilesInv, ChainInv, \A v \in Writers : HoldsItsLock(v)', NEW w \in Writers, GoesToCreate(w)
  PROVE  ChainInv'
<1>1. pc'[w] = "create" /\ UNCHANGED <<file, candidate, slot, series>> /\ OnlyCall(w)
  BY DEF GoesToCreate
<1>2. Others(w)' = Others(w)
  BY <1>1 DEF Others, Published, RecordFile
<1>3. ASSUME ForRecord(w)
      PROVE  ValidSeries(Others(w)) /\ Extends(candidate[w], Others(w))
  <2>1. pc[w] = "history" /\ HistoryError(w) = "none" /\ HistoryIsListed(w)
    BY <1>3 DEF GoesToCreate, ChainInv
  <2>2. LoadErrors(w) = {} /\ SameLogicalRevision(w) = {}
    BY <2>1 DEF HistoryError
  <2>3. Loaded(w) = Others(w)
    <3>1. ASSUME NEW x \in Others(w)
          PROVE  x \in Loaded(w)
      <4>1. x.publication_id \in names[w] /\ RecordFile(x.publication_id) = Complete(x) /\ x.series = series[w]
        BY <2>1, PublishedMembers DEF HistoryIsListed, Others
      <4>. QED
        BY <4>1, FileStates DEF Loaded
    <3>2. ASSUME NEW x \in Loaded(w)
          PROVE  x \in Others(w)
      <4>1. /\ x.publication_id \in names[w] /\ x.publication_id \in Ids /\ x.series = series[w]
            /\ RecordFile(x.publication_id) \notin {Absent, Torn}
            /\ x = RecordFile(x.publication_id).content
        BY <2>2, LoadedRecords
      <4>2. RecordFile(x.publication_id) = Complete(x)
        <5>1. <<"record", x.publication_id>> \in Slots
          BY <4>1, SlotFacts
        <5>2. file[<<"record", x.publication_id>>] \notin {Absent, Torn}
          BY <4>1 DEF RecordFile
        <5>3. FileIsWhole(<<"record", x.publication_id>>)
          BY <5>1 DEF FilesInv
        <5>4. file[<<"record", x.publication_id>>] = Complete(file[<<"record", x.publication_id>>].content)
          BY <5>2, <5>3 DEF FileIsWhole
        <5>. QED
          BY <4>1, <5>4 DEF RecordFile
      <4>. QED
        BY <2>1, <4>1, <4>2, PublishedMembers DEF HistoryIsListed, Others
    <3>. QED
      BY <3>1, <3>2
  <2>4. ValidSeries(Others(w))
    BY <2>2, <2>3, LoadedRecords
  <2>5. \A x \in Others(w) : x.revision # candidate[w].revision
    BY <2>2, <2>3 DEF SameLogicalRevision
  <2>6. IF Others(w) = {} THEN candidate[w].supersedes = None
                          ELSE Supersedes(candidate[w], HeadOf(Others(w)))
    BY <2>1, <2>2, <2>3 DEF HistoryError
  <2>. QED
    BY <2>4, <2>5, <2>6 DEF Extends
<1>4. HistoryIsListed(w)' /\ CandidateExtends(w)'
  BY <1>1, <1>2, <1>3 DEF HistoryIsListed, CandidateExtends, ForRecord
<1>. QED
  BY <1>1, <1>4, StillFiles

(* Creating, filling and removing a file under the lock. *)
LEMMA WritesChain ==
  ASSUME FilesInv, FilesInv', ChainInv, \A v \in Writers : HoldsItsLock(v)', NEW w \in Writers,
         Creates(w) \/ Fills(w) \/ RollsBack(w)
  PROVE  ChainInv'
<1>1. /\ OnlyCall(w) /\ Active(w) /\ UNCHANGED <<candidate, slot, series>>
      /\ pc[w] \in {"create", "fill", "verify"} /\ pc'[w] \in {"fill", "verify", "release"}
  BY DEF Creates, Fills, RollsBack, Owns, Active, InCriticalSection
<1>2. CASE ForRecord(w)
  <2>1. PICK own, new : own = series[w] /\ new = candidate[w]
    OBVIOUS
  <2>2. /\ \A s : s # own => Published(s)' = Published(s)
        /\ Others(w)' = Others(w)
        /\ Fills(w) => Published(own)' = Others(w) \cup {new}
        /\ ~ Fills(w) => Published(own)' = Others(w)
        /\ new.publication_id \in Ids
        /\ \A x \in Others(w) : x.publication_id # new.publication_id
    BY <1>2, <2>1, OwnSeries
  <2>3. ValidSeries(Others(w)) /\ Extends(new, Others(w))
    BY <1>1, <1>2, <2>1 DEF ChainInv, CandidateExtends
  <2>4. ValidSeries(Published(own)')
    <3>1. Records(Others(w))
      BY PublishedAreRecords DEF Others
    <3>. QED
      BY <2>2, <2>3, <3>1, ExtendedSeries
  <2>5. SeriesIsChain'
    <3>. SUFFICES ASSUME NEW s \in Series
                  PROVE  ValidSeries(Published(s)')
      BY DEF SeriesIsChain, ValidSeries, Heads, Supersedes
    <3>. QED
      BY <2>2, <2>4 DEF ChainInv, SeriesIsChain
  <2>6. HistoryIsListed(w)' /\ CandidateExtends(w)'
    BY <1>1, <1>2, <2>1, <2>2, <2>3 DEF HistoryIsListed, CandidateExtends, ForRecord
  <2>7. ASSUME NEW v \in Writers, v # w
        PROVE  HistoryIsListed(v)' /\ CandidateExtends(v)'
    <3>1. pc[v] \in {"history", "create", "fill", "verify"} => series[v] # own
      BY <1>1, <2>1, <2>7, OneActive DEF ChainInv, Active, InCriticalSection
    <3>. QED
      BY <1>1, <2>2, <2>7, <3>1, ViewKept DEF ChainInv, OnlyCall
  <2>. QED
    BY <2>5, <2>6, <2>7 DEF ChainInv
<1>3. CASE ~ ForRecord(w)
  <2>1. ASSUME NEW id \in Ids
        PROVE  RecordFile(id)' = RecordFile(id)
    <3>1. <<"record", id>>[1] = "record" /\ <<"record", id>> \in Slots
      BY SlotFacts
    <3>2. slot[w] # <<"record", id>>
      BY <1>3, <3>1 DEF ForRecord
    <3>3. DOMAIN file = Slots
      BY DEF FilesInv, TypeOK
    <3>. QED
      BY <3>1, <3>2, <3>3 DEF RecordFile, Creates, Fills, RollsBack
  <2>2. \A s : Published(s)' = Published(s)
    BY <2>1, SameSeries
  <2>3. SeriesIsChain'
    BY <2>2 DEF ChainInv, SeriesIsChain
  <2>4. HistoryIsListed(w)' /\ CandidateExtends(w)'
    BY <1>1, <1>3 DEF HistoryIsListed, CandidateExtends, ForRecord
  <2>5. ASSUME NEW v \in Writers, v # w
        PROVE  HistoryIsListed(v)' /\ CandidateExtends(v)'
    BY <1>1, <2>2, <2>5, ViewKept DEF ChainInv, OnlyCall
  <2>. QED
    BY <2>3, <2>4, <2>5 DEF ChainInv
<1>. QED
  BY <1>2, <1>3

(* Every step keeps the second layer. *)
LEMMA ChainStep ==
  ASSUME GuardedClearing, FilesInv, FilesInv', ChainInv,
         Outside \/ \E w \in Writers : StepOf(w)
  PROVE  ChainInv'
<1>1. \A v \in Writers : HoldsItsLock(v)'
  BY LocksKept DEF ChainInv
<1>2. CASE Outside
  <2>1. UNCHANGED <<file, pc, candidate, slot, series, names>>
    BY <1>2 DEF Outside, call
  <2>2. \A s : Published(s)' = Published(s)
    BY <2>1 DEF Published, RecordFile
  <2>3. SeriesIsChain'
    BY <2>2 DEF ChainInv, SeriesIsChain
  <2>4. \A v \in Writers : HistoryIsListed(v)' /\ CandidateExtends(v)'
    BY <2>1, <2>2, ViewKept DEF ChainInv
  <2>. QED
    BY <1>1, <2>3, <2>4 DEF ChainInv
<1>3. ASSUME NEW w \in Writers, StepOf(w)
      PROVE  ChainInv'
  BY <1>1, <1>3, QuietChain, ListsHistoryChain, GoesToCreateChain, WritesChain DEF StepOf
<1>. QED
  BY <1>2, <1>3

LEMMA InitChain == Init => ChainInv
<1>. SUFFICES ASSUME Init
              PROVE  ChainInv
  OBVIOUS
<1>1. \A id \in Ids : RecordFile(id).status # "complete"
  BY SlotFacts, FileStates DEF Init, RecordFile
<1>2. SeriesIsChain
  BY <1>1 DEF SeriesIsChain, ValidSeries, Published
<1>3. \A w \in Writers : HoldsItsLock(w) /\ HistoryIsListed(w) /\ CandidateExtends(w)
  BY DEF Init, HoldsItsLock, Active, InCriticalSection, HistoryIsListed, CandidateExtends
<1>. QED
  BY <1>2, <1>3 DEF ChainInv

-----------------------------------------------------------------------------
(***************************************************************************)
(* The third layer: withdrawals.  With one series, the lock admits one     *)
(* call at a time whatever it writes.                                      *)
(***************************************************************************)

(* The withdrawal that a path of the collection holds, if any, names its record by the path. *)
LEMMA WithdrawalFacts ==
  ASSUME FilesInv, NEW id \in Ids, WithdrawalFile(id).status = "complete"
  PROVE  WithdrawalFile(id).content.publication_id = id
<1>1. <<"withdrawal", id>> \in Slots /\ <<"withdrawal", id>>[2] = id
  BY SlotFacts
<1>. QED
  BY <1>1, WholeFiles DEF WithdrawalFile

(* Nobody else is in a critical section. *)
LEMMA Alone ==
  ASSUME OneSeries, FilesInv, ChainInv, NEW v \in Writers, NEW w \in Writers, Active(v), Active(w)
  PROVE  v = w
<1>1. series[v] \in Series /\ series[w] \in Series
  BY CallFacts DEF CandidateFits, Active, InCriticalSection
<1>. QED
  BY <1>1, OneActive DEF OneSeries, ChainInv

(* A step that changes no file and lets no call own one, except a withdrawal that was checked. *)
LEMMA StillWithdrawals ==
  ASSUME FilesInv, FilesInv', WithdrawalInv, UNCHANGED file,
         \A v \in Writers : Owns(v)' => Owns(v) /\ slot'[v] = slot[v],
         \A v \in Writers :
           (pc[v] \in {"create", "fill", "verify"} /\ ~ ForRecord(v))' =>
             Withdraws(candidate[v]) /\ candidate'[v] = candidate[v]
  PROVE  WithdrawalInv'
<1>1. ASSUME NEW x, Withdraws(x)
      PROVE  Withdraws(x)'
  <2>. DEFINE path == <<"record", x.publication_id>>
  <2>1. Owned(path)' => Owned(path)
    BY DEF Owned
  <2>. QED
    BY <1>1, <2>1 DEF Withdraws
<1>2. ASSUME NEW id \in Ids, (WithdrawalFile(id).status = "complete")'
      PROVE  Withdraws(WithdrawalFile(id).content)'
  <2>1. PICK x : x = WithdrawalFile(id).content
    OBVIOUS
  <2>2. Withdraws(x) /\ x = WithdrawalFile(id)'.content
    BY <1>2, <2>1 DEF WithdrawalInv, WithdrawalFile
  <2>. QED
    BY <1>1, <2>2 DEF Withdraws
<1>3. ASSUME NEW v \in Writers, (pc[v] \in {"create", "fill", "verify"} /\ ~ ForRecord(v))'
      PROVE  Withdraws(candidate[v])'
  <2>1. PICK x : x = candidate[v]
    OBVIOUS
  <2>2. Withdraws(x) /\ x = candidate'[v]
    BY <1>3, <2>1
  <2>. QED
    BY <1>1, <2>2 DEF Withdraws
<1>. QED
  BY <1>2, <1>3 DEF WithdrawalInv

LEMMA QuietWithdrawals ==
  ASSUME FilesInv, FilesInv', WithdrawalInv,
         Outside \/ \E w \in Writers : Quiet(w) \/ Acquires(w) \/ ListsHistory(w)
  PROVE  WithdrawalInv'
<1>1. CASE Outside
  <2>1. UNCHANGED <<file, pc, candidate, slot>>
    BY <1>1 DEF Outside, call
  <2>. QED
    BY <2>1, StillWithdrawals DEF Owns, ForRecord, WithdrawalInv
<1>2. ASSUME NEW w \in Writers, Quiet(w) \/ Acquires(w) \/ ListsHistory(w)
      PROVE  WithdrawalInv'
  <2>1. pc'[w] \notin {"create", "fill", "verify"} /\ UNCHANGED file /\ OnlyCall(w)
    BY <1>2 DEF Quiet, Acquires, ListsHistory, Active, InCriticalSection
  <2>2. \A v \in Writers : Owns(v)' => Owns(v) /\ slot'[v] = slot[v]
    BY <2>1 DEF OnlyCall, Owns
  <2>3. \A v \in Writers :
          (pc[v] \in {"create", "fill", "verify"} /\ ~ ForRecord(v))' =>
            Withdraws(candidate[v]) /\ candidate'[v] = candidate[v]
    BY <2>1 DEF OnlyCall, ForRecord, WithdrawalInv
  <2>. QED
    BY <2>1, <2>2, <2>3, StillWithdrawals
<1>. QED
  BY <1>1, <1>2

(* The record is looked at under the lock, and no other call can be writing it. *)
LEMMA GoesToCreateWithdrawals ==
  ASSUME OneSeries, FilesInv, FilesInv', ChainInv, WithdrawalInv, NEW w \in Writers, GoesToCreate(w)
  PROVE  WithdrawalInv'
<1>1. /\ pc[w] \in {"check", "history"} /\ pc'[w] = "create" /\ OnlyCall(w)
      /\ UNCHANGED <<file, candidate, slot>>
  BY DEF GoesToCreate
<1>2. \A v \in Writers : Owns(v)' => Owns(v) /\ slot'[v] = slot[v]
  BY <1>1 DEF OnlyCall, Owns
<1>3. ASSUME ~ ForRecord(w)
      PROVE  Withdraws(candidate[w])
  <2>1. pc[w] = "check" /\ CandidateFits(w)
    BY <1>1, <1>3, CallFacts DEF CandidateFits
  <2>2. candidate[w].publication_id = slot[w][2] /\ slot[w][2] \in Ids
    BY <2>1, SlotFacts DEF CandidateFits, Content
  <2>3. /\ RecordFile(slot[w][2]).status = "complete"
        /\ candidate[w].withdrawn_at >= RecordFile(slot[w][2]).content.published_at
    BY <2>1, <2>2, RecordFacts DEF GoesToCreate
  <2>4. \A v \in Writers : ~ Owns(v)
    BY <1>1, Alone DEF Owns, Active, InCriticalSection
  <2>. QED
    BY <2>2, <2>3, <2>4 DEF Withdraws, Owned, RecordFile
<1>4. \A v \in Writers :
        (pc[v] \in {"create", "fill", "verify"} /\ ~ ForRecord(v))' =>
          Withdraws(candidate[v]) /\ candidate'[v] = candidate[v]
  BY <1>1, <1>3 DEF OnlyCall, ForRecord, WithdrawalInv
<1>. QED
  BY <1>1, <1>2, <1>4, StillWithdrawals

(* A write is never at the path of a record that can be withdrawn: that one is there and not owned. *)
LEMMA WritesWithdrawals ==
  ASSUME OneSeries, FilesInv, FilesInv', ChainInv, WithdrawalInv, NEW w \in Writers,
         Creates(w) \/ Fills(w) \/ RollsBack(w)
  PROVE  WithdrawalInv'
<1>1. /\ OnlyCall(w) /\ Active(w) /\ UNCHANGED <<candidate, slot>>
      /\ pc[w] \in {"create", "fill", "verify"}
  BY DEF Creates, Fills, RollsBack, Owns, Active, InCriticalSection
<1>2. /\ CandidateFits(w) /\ slot[w] \in Slots /\ DOMAIN file = Slots
      /\ candidate[w] \in Content(slot[w])
  BY <1>1, CallFacts DEF CandidateFits, StoreTyped
<1>3. file[slot[w]] = Absent \/ Owned(slot[w])
  BY DEF Creates, Fills, RollsBack, Owns, Owned
<1>4. \A path \in Slots : path # slot[w] => file'[path] = file[path]
  BY <1>2 DEF Creates, Fills, RollsBack
<1>5. ASSUME NEW x, x.publication_id \in Ids, Withdraws(x)
      PROVE  Withdraws(x)'
  <2>. DEFINE path == <<"record", x.publication_id>>
  <2>1. path \in Slots
    BY <1>5, SlotFacts
  <2>2. /\ file[path].status = "complete" /\ ~ Owned(path)
        /\ x.withdrawn_at >= file[path].content.published_at
    BY <1>5 DEF Withdraws
  <2>3. path # slot[w]
    BY <1>3, <2>2, FileStates
  <2>4. file'[path] = file[path]
    BY <1>4, <2>1, <2>3
  <2>5. ~ Owned(path)'
    BY <1>1, <2>2, <2>3 DEF Owned, Owns, OnlyCall
  <2>6. Withdraws(x)' <=> /\ file'[path].status = "complete" /\ ~ Owned(path)'
                          /\ x.withdrawn_at >= file'[path].content.published_at
    BY DEF Withdraws
  <2>. QED
    BY <2>2, <2>4, <2>5, <2>6
<1>6. ~ ForRecord(w) => Withdraws(candidate[w]) /\ candidate[w].publication_id \in Ids
  BY <1>1, <1>2, SlotFacts DEF WithdrawalInv, Content
<1>7. ASSUME NEW id \in Ids, (WithdrawalFile(id).status = "complete")'
      PROVE  Withdraws(WithdrawalFile(id).content)'
  <2>. DEFINE path == <<"withdrawal", id>>
  <2>1. path \in Slots /\ path[1] = "withdrawal" /\ file'[path].status = "complete"
    BY <1>7, SlotFacts DEF WithdrawalFile
  <2>2. PICK x : x = file'[path].content
    OBVIOUS
  <2>3. CASE path # slot[w]
    <3>1. WithdrawalFile(id).status = "complete" /\ x = WithdrawalFile(id).content
      BY <1>4, <2>1, <2>2, <2>3 DEF WithdrawalFile
    <3>2. x.publication_id \in Ids /\ Withdraws(x)
      BY <3>1, WithdrawalFacts DEF WithdrawalInv
    <3>3. Withdraws(x)'
      BY <1>5, <3>2
    <3>. QED
      BY <2>2, <3>3 DEF Withdraws, WithdrawalFile
  <2>4. CASE path = slot[w]
    <3>1. file'[path] \in {Torn, Absent, Complete(candidate[w])}
      BY <1>2, <2>4 DEF Creates, Fills, RollsBack
    <3>2. x = candidate[w]
      BY <2>1, <2>2, <3>1, FileStates
    <3>3. ~ ForRecord(w)
      BY <2>1, <2>4 DEF ForRecord
    <3>4. Withdraws(x)'
      BY <1>5, <1>6, <3>2, <3>3
    <3>. QED
      BY <2>2, <3>4 DEF Withdraws, WithdrawalFile
  <2>. QED
    BY <2>3, <2>4
<1>8. ASSUME NEW v \in Writers, (pc[v] \in {"create", "fill", "verify"} /\ ~ ForRecord(v))'
      PROVE  Withdraws(candidate[v])'
  <2>1. v = w
    <3>1. ASSUME v # w
          PROVE  Active(v)
      BY <1>1, <1>8, <3>1 DEF OnlyCall, Active, InCriticalSection
    <3>. QED
      BY <1>1, <3>1, Alone
  <2>2. PICK x : x = candidate[w]
    OBVIOUS
  <2>3. ~ ForRecord(w) /\ candidate'[v] = x
    BY <1>1, <1>8, <2>1, <2>2 DEF ForRecord
  <2>4. Withdraws(x)'
    BY <1>5, <1>6, <2>2, <2>3
  <2>. QED
    BY <2>3, <2>4 DEF Withdraws
<1>. QED
  BY <1>7, <1>8 DEF WithdrawalInv

LEMMA InitWithdrawals == Init => WithdrawalInv
<1>. SUFFICES ASSUME Init
              PROVE  WithdrawalInv
  OBVIOUS
<1>1. \A id \in Ids : WithdrawalFile(id).status # "complete"
  BY SlotFacts, FileStates DEF Init, WithdrawalFile
<1>. QED
  BY <1>1 DEF Init, WithdrawalInv

-----------------------------------------------------------------------------
(***************************************************************************)
(* The invariant of the store, all layers together: what exclusive         *)
(* creation guarantees whoever clears locks, and what the lock adds to it  *)
(* under the procedure of the recovery guide.                              *)
(***************************************************************************)
THEOREM PublicationInvariance == Spec => []PublicationInv
<1>1. Init => PublicationInv
  BY InitFiles, InitChain, InitWithdrawals DEF PublicationInv
<1>2. ASSUME PublicationInv, [Next]_vars
      PROVE  PublicationInv'
  <2>1. FilesInv /\ FilesInv' /\ (Outside \/ \E w \in Writers : StepOf(w))
    BY <1>2, NextFiles DEF PublicationInv
  <2>2. ASSUME GuardedClearing
        PROVE  ChainInv /\ ChainInv'
    BY <1>2, <2>1, <2>2, ChainStep DEF PublicationInv
  <2>3. ASSUME GuardedClearing, OneSeries
        PROVE  WithdrawalInv'
    BY <1>2, <2>1, <2>2, <2>3, QuietWithdrawals, GoesToCreateWithdrawals, WritesWithdrawals
    DEF PublicationInv, StepOf
  <2>. QED
    BY <2>1, <2>2, <2>3 DEF PublicationInv, OneSeries
<1>3. PublicationInv /\ [Next]_vars => PublicationInv'
  BY <1>2
<1>. QED
  BY <1>1, <1>3, PTL DEF Spec

(***************************************************************************)
(* Under guarded clearing every series is one unbranched chain, whatever   *)
(* else goes wrong: the history a writer read under the lock is still the  *)
(* history when its record appears.                                        *)
(***************************************************************************)
THEOREM SeriesIsChainHolds ==
  ASSUME GuardedClearing
  PROVE  Spec => []SeriesIsChain
<1>1. PublicationInv => SeriesIsChain
  BY DEF PublicationInv, ChainInv
<1>. QED
  BY <1>1, PublicationInvariance, PTL

(***************************************************************************)
(* Under guarded clearing nobody of the same series writes while a call    *)
(* reads the history under the lock, so that a torn record it meets is not *)
(* a colleague's.                                                          *)
(***************************************************************************)
THEOREM LockedHistoryIsSettledHolds ==
  ASSUME GuardedClearing
  PROVE  Spec => []LockedHistoryIsSettled
<1>1. PublicationInv => LockedHistoryIsSettled
  BY OneActive DEF PublicationInv, ChainInv, LockedHistoryIsSettled, Active, InCriticalSection
<1>. QED
  BY <1>1, PublicationInvariance, PTL

(***************************************************************************)
(* Under guarded clearing a withdrawal has its record and is not older     *)
(* than it, in a work of one series.  With several, a record that is       *)
(* rolled back and whose ID is drawn again for another series would have a *)
(* lock the withdrawal does not hold.                                      *)
(***************************************************************************)
THEOREM WithdrawalHasRecordHolds ==
  ASSUME GuardedClearing, OneSeries
  PROVE  Spec => []WithdrawalHasRecord
<1>1. PublicationInv => WithdrawalHasRecord
  <2>. SUFFICES ASSUME PublicationInv, NEW id \in Ids, WithdrawalFile(id).status = "complete"
                PROVE  /\ RecordFile(id).status = "complete"
                       /\ WithdrawalFile(id).content.withdrawn_at >= RecordFile(id).content.published_at
    BY DEF WithdrawalHasRecord
  <2>1. FilesInv /\ WithdrawalInv
    BY DEF PublicationInv
  <2>2. WithdrawalFile(id).content.publication_id = id /\ Withdraws(WithdrawalFile(id).content)
    BY <2>1, WithdrawalFacts DEF WithdrawalInv
  <2>. QED
    BY <2>2 DEF Withdraws, RecordFile
<1>. QED
  BY <1>1, PublicationInvariance, PTL
=============
