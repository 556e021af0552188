---------------------------- MODULE PublicationStore ----------------------------
(***************************************************************************)
(* The Publication Records and withdrawals of one work:                    *)
(*                                                                         *)
(*     publications/<publication_id>.json                                  *)
(*     withdrawals/<publication_id>.json                                   *)
(*     .locks/publications/.../<record_set_id>.lock    one per series      *)
(*                                                                         *)
(* written once by publish_manifest_revision, supersede_manifest_revision  *)
(* and withdraw_publication of registry_services, which processes call     *)
(* concurrently.  There is no pointer: the series is the set of its        *)
(* records, each naming its predecessor, and the current record is the     *)
(* head of that chain.  Publication IDs are random, so that two records    *)
(* never meet at one path and only the series lock keeps the chain         *)
(* unbranched.                                                             *)
(*                                                                         *)
(* One action is one file operation of a call, or a run of reads that      *)
(* only decide to give up.  Listing the collection takes two: the names,   *)
(* then the contents.  The registration of the work, which                 *)
(* update_academic_work_registration changes under another lock, and the   *)
(* producer's manifests belong to the environment.                         *)
(***************************************************************************)
EXTENDS Integers, FiniteSets

CONSTANTS
  Writers,          \* the processes that call the services
  Series,           \* record-set series of the work
  Academic,         \* the series of kind academic_result_set
  Ids,              \* publication IDs
  Metadata,         \* source record, capabilities and contract version of a request
  Reasons,          \* reasons of a withdrawal
  Digests,          \* contents of a manifest
  Stamps,           \* values of the service clock
  MaxRevision,      \* bound on record_set_revision
  MaxRegistration,  \* bound on registration revisions
  MaxChanges,       \* bound on manifests rewritten by their producer
  MaxFaults,        \* bound on failing file operations (a write and its removal are one)
  MaxCrashes,       \* bound on crashes
  MaxAttempts,      \* _PUBLICATION_ID_ATTEMPTS
  GuardedClearing,  \* TRUE: locks are cleared only after the procedure of the recovery guide
  Nobody,           \* no lock file
  None              \* Python's None

ASSUME ConstantsAssumption ==
  /\ Academic \subseteq Series
  /\ Stamps \subseteq Nat \ {0}
  /\ {MaxRevision, MaxRegistration, MaxAttempts} \subseteq Nat \ {0}
  /\ {MaxChanges, MaxFaults, MaxCrashes} \subseteq Nat
  /\ GuardedClearing \in BOOLEAN
  /\ Nobody \notin Writers
  /\ None \notin Ids

(* "pub_" and 32 hexadecimal digits. *)
ASSUME IdsAssumption == IsFiniteSet(Ids)

Revisions == 1 .. MaxRevision

PublicationRecord ==
  [publication_id : Ids, series : Series, revision : Revisions, metadata : Metadata,
   digest : Digests, published_at : Stamps, registration : 0 .. MaxRegistration,
   supersedes : Ids \cup {None}]

PublicationWithdrawal == [publication_id : Ids, withdrawn_at : Stamps, reason : Reasons]

Slots == {"record", "withdrawal"} \X Ids

Absent == [status |-> "absent", content |-> None]
Torn == [status |-> "torn", content |-> None]
Complete(content) == [status |-> "complete", content |-> content]

VARIABLES
  lock,         \* the writer whose lock file of a series is there, or Nobody
  file,         \* the record and withdrawal files
  registration, \* what the work's current registration is: revision and lifecycle
  manifest,     \* the bytes at the manifest path of each series and revision
  pc,           \* the next file operation of each writer's call
  candidate,    \* the record or withdrawal the call wants to write
  slot,         \* the path it is for
  series,       \* the series whose lock the call needs
  names,        \* the publication IDs the call has listed
  cause,        \* the storage error the service is reconciling
  attempts,     \* publication IDs generated so far
  outcome,      \* what the last call of a writer returned or raised
  changes,      \* manifests rewritten so far
  faults,       \* failing operations so far
  crashes       \* crashes so far

store == <<lock, file>>
environment == <<registration, manifest, changes>>
call == <<pc, candidate, slot, series, names, cause, attempts, outcome>>
vars == <<store, environment, call, faults, crashes>>

InCriticalSection == {"check", "history", "create", "fill", "verify", "release"}
Phases ==
  {"idle", "names", "load", "generate", "acquire", "confirm", "relist", "reload", "reconsider"}
    \cup InCriticalSection

Causes == {"none", "conflict", "integrity", "write_error", "read_error", "manifest"}

(* "created" and "existing" are dispositions, the rest exceptions of the services. *)
Kinds == {"none", "created", "existing", "not_found", "conflict", "integrity", "write_error", "partial"}

NoOutcome == [kind |-> "none", content |-> None]

-----------------------------------------------------------------------------
(* The collection of records. *)

RecordFile(id) == file[<<"record", id>>]
WithdrawalFile(id) == file[<<"withdrawal", id>>]
Present == {id \in Ids : RecordFile(id) # Absent}

(* list_publication_record_set over the names a call has listed. *)
Loaded(w) ==
  {record \in {RecordFile(id).content : id \in names[w]} : record.series = series[w]}

Heads(records) ==
  {record \in records : \A other \in records : other.supersedes # record.publication_id}

(* validate_publication_supersession, for records of one series. *)
Supersedes(new, old) ==
  /\ new.supersedes = old.publication_id
  /\ new.revision > old.revision
  /\ new.published_at >= old.published_at

(***************************************************************************)
(* validate_publication_record_series: one root, every other record        *)
(* properly supersedes another one, nothing branches.  Revisions grow      *)
(* along the links, so that there is no cycle and one root leaves one      *)
(* chain.                                                                  *)
(***************************************************************************)
ValidSeries(records) ==
  records # {} =>
    /\ Cardinality({record \in records : record.supersedes = None}) = 1
    /\ Cardinality(Heads(records)) = 1
    /\ \A a, b \in records : a.revision = b.revision => a = b
    /\ \A a, b \in records : a.supersedes = b.supersedes => a = b
    /\ \A a \in records : a.supersedes # None => \E b \in records : Supersedes(a, b)

HeadOf(records) == CHOOSE record \in Heads(records) : TRUE

(***************************************************************************)
(* What can go wrong with the second half of a listing: a file rolled back *)
(* since is noticed when it is opened ("vanished") or when is_file finds   *)
(* no file under its entry ("unread", as is a file whose content is not    *)
(* there yet), whichever comes first; or the series is no chain.           *)
(***************************************************************************)
LoadErrors(w) ==
  LET vanished == {e \in {"vanished"} : \E id \in names[w] : RecordFile(id) = Absent}
      unread == {e \in {"unread"} : \E id \in names[w] : RecordFile(id) \in {Absent, Torn}}
  IN IF vanished \cup unread # {} THEN vanished \cup unread
     ELSE {e \in {"invalid"} : ~ ValidSeries(Loaded(w))}

SameLogicalRevision(w) == {record \in Loaded(w) : record.revision = candidate[w].revision}

(* _replay_metadata: everything but the ID and the time. *)
Replays(w, record) ==
  LET own == candidate[w]
  IN /\ record.metadata = own.metadata
     /\ record.digest = own.digest
     /\ record.registration = own.registration
     /\ record.supersedes = own.supersedes

RegistrationAccepts(w) ==
  series[w] \in Academic =>
    /\ registration.revision # 0
    /\ registration.revision = candidate[w].registration
    /\ registration.lifecycle # "cancelled"

ManifestMatches(w) == manifest[<<series[w], candidate[w].revision>>] = candidate[w].digest

Later(now, floor) == IF now < floor THEN floor ELSE now

ForRecord(w) == slot[w][1] = "record"

-----------------------------------------------------------------------------
Init ==
  /\ lock = [s \in Series |-> Nobody]
  /\ file = [path \in Slots |-> Absent]
  /\ registration = [revision |-> 0, lifecycle |-> "none"]
  /\ manifest \in [Series \X Revisions -> Digests]
  /\ pc = [w \in Writers |-> "idle"]
  /\ candidate = [w \in Writers |-> None]
  /\ slot = [w \in Writers |-> None]
  /\ series = [w \in Writers |-> None]
  /\ names = [w \in Writers |-> {}]
  /\ cause = [w \in Writers |-> "none"]
  /\ attempts = [w \in Writers |-> 0]
  /\ outcome = [w \in Writers |-> NoOutcome]
  /\ changes = 0 /\ faults = 0 /\ crashes = 0

(* The call of w ends; what it held in memory is gone. *)
Return(w, kind, content) ==
  /\ pc' = [pc EXCEPT ![w] = "idle"]
  /\ candidate' = [candidate EXCEPT ![w] = None]
  /\ slot' = [slot EXCEPT ![w] = None]
  /\ series' = [series EXCEPT ![w] = None]
  /\ names' = [names EXCEPT ![w] = {}]
  /\ cause' = [cause EXCEPT ![w] = "none"]
  /\ attempts' = [attempts EXCEPT ![w] = 0]
  /\ outcome' = [outcome EXCEPT ![w] = [kind |-> kind, content |-> content]]

Fail(w, kind) == Return(w, kind, None)

Goto(w, phase) ==
  /\ pc' = [pc EXCEPT ![w] = phase]
  /\ UNCHANGED <<candidate, slot, series, names, cause, attempts, outcome>>

Raise(w, error, phase) ==
  /\ pc' = [pc EXCEPT ![w] = phase]
  /\ cause' = [cause EXCEPT ![w] = error]
  /\ UNCHANGED <<candidate, slot, series, names, attempts, outcome>>

(* The first half of a listing. *)
ListIds(w, phase) ==
  /\ pc' = [pc EXCEPT ![w] = phase]
  /\ names' = [names EXCEPT ![w] = Present]
  /\ UNCHANGED <<candidate, slot, series, cause, attempts, outcome>>

NoFault == UNCHANGED <<faults, crashes>>
Fault == faults < MaxFaults /\ faults' = faults + 1 /\ UNCHANGED crashes
Reads == UNCHANGED <<store, environment>> /\ NoFault

-----------------------------------------------------------------------------
(* publish_manifest_revision and supersede_manifest_revision. *)

(***************************************************************************)
(* A request and the digest of its manifest.  `supersedes` is the expected *)
(* current publication, None in publish_manifest_revision.                 *)
(***************************************************************************)
Publish(w, s, r, metadata, reg, supersedes) ==
  /\ pc[w] = "idle"
  /\ s \in Academic <=> reg # 0
  /\ pc' = [pc EXCEPT ![w] = "names"]
  /\ series' = [series EXCEPT ![w] = s]
  /\ candidate' = [candidate EXCEPT ![w] =
       [publication_id |-> None, series |-> s, revision |-> r, metadata |-> metadata,
        digest |-> manifest[<<s, r>>], published_at |-> 0, registration |-> reg,
        supersedes |-> supersedes]]
  /\ outcome' = [outcome EXCEPT ![w] = NoOutcome]
  /\ UNCHANGED <<slot, names, cause, attempts>> /\ Reads

ListSeries(w) ==
  /\ pc[w] = "names"
  /\ ListIds(w, "load")
  /\ Reads

(* What an identical or contradictory revision in the series makes of the call. *)
Reconciled(w) ==
  \E record \in SameLogicalRevision(w) :
    IF Replays(w, record) /\ WithdrawalFile(record.publication_id) # Torn
    THEN Return(w, "existing", record)
    ELSE Fail(w, "integrity")

LoadSeries(w) ==
  /\ pc[w] = "load"
  /\ LET own == candidate[w]
         records == Loaded(w)
     IN \/ \E error \in LoadErrors(w) :
             Fail(w, IF error = "vanished" THEN "write_error" ELSE "integrity")
        \/ /\ LoadErrors(w) = {}
           /\ \/ Reconciled(w)
              \/ /\ SameLogicalRevision(w) = {}
                 /\ \/ own.supersedes = None /\ records # {} /\ Fail(w, "conflict")
                    \/ own.supersedes # None /\ records = {} /\ Fail(w, "not_found")
                    \/ /\ own.supersedes # None /\ records # {}
                       /\ \/ HeadOf(records).publication_id # own.supersedes
                          \/ own.revision <= HeadOf(records).revision
                       /\ Fail(w, "conflict")
                    \/ /\ IF own.supersedes = None
                          THEN records = {}
                          ELSE /\ records # {}
                               /\ HeadOf(records).publication_id = own.supersedes
                               /\ own.revision > HeadOf(records).revision
                       /\ IF ~ RegistrationAccepts(w)
                          THEN Fail(w, "conflict")
                          ELSE \E now \in Stamps :
                                 /\ pc' = [pc EXCEPT ![w] = "generate"]
                                 /\ candidate' = [candidate EXCEPT ![w].published_at =
                                      IF records = {} THEN now
                                      ELSE Later(now, HeadOf(records).published_at)]
                                 /\ UNCHANGED <<slot, series, names, cause, attempts, outcome>>
  /\ Reads

(* Mutant of Retry: one round too many. *)
RetryOffByOne(w) ==
  IF attempts[w] = MaxAttempts
  THEN Fail(w, "conflict")
  ELSE /\ pc' = [pc EXCEPT ![w] = "generate"]
       /\ attempts' = [attempts EXCEPT ![w] = @ + 1]
       /\ cause' = [cause EXCEPT ![w] = "none"]
       /\ UNCHANGED <<candidate, slot, series, names, outcome>>

(* Another round of the loop, or the end of it. *)
Retry(w) ==
  IF attempts[w] + 1 = MaxAttempts
  THEN Fail(w, "conflict")
  ELSE /\ pc' = [pc EXCEPT ![w] = "generate"]
       /\ attempts' = [attempts EXCEPT ![w] = @ + 1]
       /\ cause' = [cause EXCEPT ![w] = "none"]
       /\ UNCHANGED <<candidate, slot, series, names, outcome>>

(* A random ID, and write_publication_record up to its lock. *)
GenerateId(w, id) ==
  /\ pc[w] = "generate"
  /\ \/ RecordFile(id) = Torn /\ Fail(w, "integrity")
     \/ RecordFile(id) \notin {Absent, Torn} /\ Retry(w)
     \/ /\ RecordFile(id) = Absent
        /\ pc' = [pc EXCEPT ![w] = IF ManifestMatches(w) /\ RegistrationAccepts(w)
                                   THEN "acquire" ELSE "relist"]
        /\ cause' = [cause EXCEPT ![w] = CASE ~ ManifestMatches(w) -> "manifest"
                                           [] ManifestMatches(w) /\ ~ RegistrationAccepts(w) -> "conflict"
                                           [] OTHER -> "none"]
        /\ candidate' = [candidate EXCEPT ![w].publication_id = id]
        /\ slot' = [slot EXCEPT ![w] = <<"record", id>>]
        /\ UNCHANGED <<series, names, attempts, outcome>>
  /\ Reads

-----------------------------------------------------------------------------
(* withdraw_publication up to the lock. *)

Withdraw(w, id, reason) ==
  /\ pc[w] = "idle"
  /\ LET record == RecordFile(id)
         withdrawal == WithdrawalFile(id)
     IN \/ record = Absent /\ Fail(w, "not_found")
        \/ record = Torn /\ Fail(w, "integrity")
        \/ /\ record \notin {Absent, Torn}
           /\ \/ withdrawal = Torn /\ Fail(w, "integrity")
              \/ /\ withdrawal \notin {Absent, Torn}
                 /\ IF withdrawal.content.reason = reason
                    THEN Return(w, "existing", withdrawal.content)
                    ELSE Fail(w, "conflict")
              \/ /\ withdrawal = Absent
                 /\ \E now \in Stamps :
                      candidate' = [candidate EXCEPT ![w] =
                        [publication_id |-> id, reason |-> reason,
                         withdrawn_at |-> Later(now, record.content.published_at)]]
                 /\ pc' = [pc EXCEPT ![w] = "acquire"]
                 /\ slot' = [slot EXCEPT ![w] = <<"withdrawal", id>>]
                 /\ series' = [series EXCEPT ![w] = record.content.series]
                 /\ outcome' = [outcome EXCEPT ![w] = NoOutcome]
                 /\ UNCHANGED <<names, cause, attempts>>
  /\ Reads

-----------------------------------------------------------------------------
(* write_publication_record and write_publication_withdrawal. *)

(* Where the service goes on after an error of the writer. *)
Reconciliation(w) == IF ForRecord(w) THEN "relist" ELSE "reconsider"

(* Mutant of AcquireLock: a lock file that is there is taken over. *)
AcquireLockAnyway(w) ==
  /\ pc[w] = "acquire"
  /\ lock' = [lock EXCEPT ![series[w]] = w]
  /\ Goto(w, "check")
  /\ UNCHANGED <<file, environment>> /\ NoFault

AcquireLock(w) ==
  /\ pc[w] = "acquire"
  /\ \/ /\ lock[series[w]] = Nobody
        /\ lock' = [lock EXCEPT ![series[w]] = w]
        /\ Goto(w, "check")
     \/ /\ lock[series[w]] # Nobody
        /\ UNCHANGED lock
        /\ Raise(w, "conflict", Reconciliation(w))
  /\ UNCHANGED <<file, environment>> /\ NoFault

(* The record of a withdrawal is loaded again before the lock. *)
PublicationVanished(w) ==
  /\ pc[w] = "acquire" /\ ~ ForRecord(w)
  /\ RecordFile(slot[w][2]) \in {Absent, Torn}
  /\ Raise(w, "read_error", "reconsider")
  /\ Reads

(* Mutant of CheckRecord: the history listed before the lock is trusted. *)
CheckRecordOnly(w) ==
  /\ pc[w] = "check" /\ ForRecord(w)
  /\ \/ ~ ManifestMatches(w) /\ Raise(w, "manifest", "release")
     \/ /\ ManifestMatches(w)
        /\ IF ~ RegistrationAccepts(w) \/ file[slot[w]] # Absent
           THEN Raise(w, "conflict", "release")
           ELSE Goto(w, "history")
  /\ Reads

(* Manifest, registration and target once more, and the names of the history. *)
CheckRecord(w) ==
  /\ pc[w] = "check" /\ ForRecord(w)
  /\ \/ ~ ManifestMatches(w) /\ Raise(w, "manifest", "release")
     \/ /\ ManifestMatches(w)
        /\ IF ~ RegistrationAccepts(w) \/ file[slot[w]] # Absent
           THEN Raise(w, "conflict", "release")
           ELSE ListIds(w, "history")
  /\ Reads

(* Mutant of CheckWithdrawal: the record loaded before the lock is trusted. *)
CheckWithdrawalOnly(w) ==
  /\ pc[w] = "check" /\ ~ ForRecord(w)
  /\ CASE file[slot[w]] = Torn -> Raise(w, "read_error", "release")
       [] file[slot[w]] = Absent -> Goto(w, "create")
       [] OTHER -> Raise(w, "conflict", "release")
  /\ Reads

CheckWithdrawal(w) ==
  /\ pc[w] = "check" /\ ~ ForRecord(w)
  /\ IF RecordFile(slot[w][2]) \in {Absent, Torn} \/ file[slot[w]] = Torn
     THEN Raise(w, "read_error", "release")
     ELSE IF file[slot[w]] # Absent
     THEN Raise(w, "conflict", "release")
     ELSE IF candidate[w].withdrawn_at < RecordFile(slot[w][2]).content.published_at
     THEN Raise(w, "write_error", "release")
     ELSE Goto(w, "create")
  /\ Reads

(* The candidate against the loaded history. *)
HistoryError(w) ==
  LET own == candidate[w]
      records == Loaded(w)
  IN IF LoadErrors(w) # {} THEN "integrity"
     ELSE IF SameLogicalRevision(w) # {}
     THEN IF \E record \in SameLogicalRevision(w) :
               Replays(w, record) /\ record.published_at = own.published_at
          THEN "conflict" ELSE "integrity"
     ELSE IF records = {}
     THEN IF own.supersedes # None THEN "conflict" ELSE "none"
     ELSE IF Supersedes(own, HeadOf(records)) THEN "none" ELSE "conflict"

CheckHistory(w) ==
  /\ pc[w] = "history"
  /\ IF HistoryError(w) = "none"
     THEN Goto(w, "create")
     ELSE Raise(w, HistoryError(w), "release")
  /\ Reads

(* Mutant of CreateFile: the file is opened for writing, not exclusively. *)
CreateFileOverwriting(w) ==
  /\ pc[w] = "create"
  /\ file' = [file EXCEPT ![slot[w]] = Torn]
  /\ Goto(w, "fill")
  /\ UNCHANGED <<lock, environment>> /\ NoFault

(* Mutant of CreateFile: the file of another call is discarded as one's own. *)
CreateFileDiscarding(w) ==
  /\ pc[w] = "create"
  /\ \/ /\ file[slot[w]] = Absent
        /\ file' = [file EXCEPT ![slot[w]] = Torn]
        /\ Goto(w, "fill")
     \/ /\ file[slot[w]] # Absent
        /\ file' = [file EXCEPT ![slot[w]] = Absent]
        /\ Raise(w, "conflict", "release")
  /\ UNCHANGED <<lock, environment>> /\ NoFault

CreateFile(w) ==
  /\ pc[w] = "create"
  /\ \/ /\ file[slot[w]] = Absent
        /\ file' = [file EXCEPT ![slot[w]] = Torn]
        /\ Goto(w, "fill")
     \/ /\ file[slot[w]] # Absent
        /\ UNCHANGED file
        /\ Raise(w, "conflict", "release")
  /\ UNCHANGED <<lock, environment>> /\ NoFault

FillFile(w) ==
  /\ pc[w] = "fill"
  /\ file' = [file EXCEPT ![slot[w]] = Complete(candidate[w])]
  /\ Goto(w, "verify")
  /\ UNCHANGED <<lock, environment>> /\ NoFault

(* Discard what this call created. *)
Rollback(w) == file' = [file EXCEPT ![slot[w]] = Absent]

(* The file is read back, and the manifest of a record hashed a third time. *)
VerifyFile(w) ==
  /\ pc[w] = "verify"
  /\ IF ForRecord(w) => ManifestMatches(w)
     THEN Goto(w, "release") /\ UNCHANGED file
     ELSE Rollback(w) /\ Raise(w, "manifest", "release")
  /\ UNCHANGED <<lock, environment>> /\ NoFault

AfterWriter(w) == Goto(w, IF cause[w] = "none" THEN "confirm" ELSE Reconciliation(w))

ReleaseLock(w) ==
  /\ pc[w] = "release"
  /\ lock' = [lock EXCEPT ![series[w]] = Nobody]
  /\ AfterWriter(w)
  /\ UNCHANGED <<file, environment>> /\ NoFault

-----------------------------------------------------------------------------
(* The services after the writer. *)

Confirm(w) ==
  /\ pc[w] = "confirm"
  /\ LET id == slot[w][2]
     IN IF {file[slot[w]], RecordFile(id)} \cap {Absent, Torn} # {}
        THEN Return(w, "partial", candidate[w])
        ELSE IF file[slot[w]] # Complete(candidate[w]) \/ WithdrawalFile(id) = Torn
        THEN Fail(w, "integrity")
        ELSE Return(w, "created", candidate[w])
  /\ Reads

(* _reconcile_after_publication_error: the manifest and the names again ... *)
Relist(w) ==
  /\ pc[w] = "relist"
  /\ IF ManifestMatches(w) THEN ListIds(w, "reload") ELSE Fail(w, "integrity")
  /\ Reads

(***************************************************************************)
(* ... and the contents.  Nothing to reconcile with: the writer's error    *)
(* stands, but a conflict may have been one over the publication ID.       *)
(***************************************************************************)
Reload(w) ==
  /\ pc[w] = "reload"
  /\ \/ \E error \in LoadErrors(w) :
          Fail(w, IF error = "vanished" /\ cause[w] # "manifest" THEN "write_error" ELSE "integrity")
     \/ /\ LoadErrors(w) = {}
        /\ \/ Reconciled(w)
           \/ /\ SameLogicalRevision(w) = {}
              /\ CASE cause[w] \in {"integrity", "manifest"} -> Fail(w, "integrity")
                   [] cause[w] = "write_error" -> Fail(w, "write_error")
                   [] cause[w] = "conflict" /\ file[slot[w]] = Absent -> Fail(w, "conflict")
                   [] cause[w] = "conflict" /\ file[slot[w]] = Torn -> Fail(w, "integrity")
                   [] OTHER -> Retry(w)
  /\ Reads

(* _reconcile_withdrawal. *)
Reconsider(w) ==
  /\ pc[w] = "reconsider"
  /\ LET record == RecordFile(candidate[w].publication_id)
         withdrawal == WithdrawalFile(candidate[w].publication_id)
     IN \/ (record \in {Absent, Torn} \/ withdrawal = Torn) /\ Fail(w, "integrity")
        \/ /\ record \notin {Absent, Torn} /\ withdrawal = Absent
           /\ Fail(w, IF cause[w] = "read_error" THEN "integrity" ELSE cause[w])
        \/ /\ record \notin {Absent, Torn} /\ withdrawal \notin {Absent, Torn}
           /\ IF withdrawal.content.reason = candidate[w].reason
              THEN Return(w, "existing", withdrawal.content)
              ELSE Fail(w, "conflict")
  /\ Reads

-----------------------------------------------------------------------------
(* File operations that fail with an OSError. *)

FirstReadFails(w) ==
  /\ pc[w] \in {"idle", "names", "load", "generate"}
  /\ Fail(w, "write_error")
  /\ UNCHANGED <<store, environment>> /\ Fault

ManifestReadFails(w) ==
  /\ \/ pc[w] \in {"idle", "relist"} /\ Fail(w, "integrity")
     \/ pc[w] = "generate" /\ \E id \in Ids :
          /\ RecordFile(id) = Absent
          /\ pc' = [pc EXCEPT ![w] = "relist"]
          /\ \E error \in {"manifest"} \cup {e \in {"integrity"} : series[w] \in Academic} :
               cause' = [cause EXCEPT ![w] = error]
          /\ candidate' = [candidate EXCEPT ![w].publication_id = id]
          /\ slot' = [slot EXCEPT ![w] = <<"record", id>>]
          /\ UNCHANGED <<series, names, attempts, outcome>>
     \/ pc[w] = "check" /\ ForRecord(w) /\ Raise(w, "manifest", "release")
  /\ UNCHANGED <<store, environment>> /\ Fault

AcquireFails(w) ==
  /\ pc[w] = "acquire"
  /\ \E error \in {"write_error"} \cup {e \in {"read_error"} : ~ ForRecord(w)} :
       Raise(w, error, Reconciliation(w))
  /\ UNCHANGED <<store, environment>> /\ Fault

StateReadFails(w) ==
  /\ pc[w] \in {"check", "history"}
  /\ Raise(w, IF ForRecord(w) THEN "integrity" ELSE "read_error", "release")
  /\ UNCHANGED <<store, environment>> /\ Fault

(* What the call created is removed again ... *)
WriteFails(w) ==
  /\ \/ pc[w] = "create" /\ UNCHANGED file
     \/ pc[w] \in {"fill", "verify"} /\ Rollback(w)
  /\ \E error \in {"write_error"} \cup {e \in {"manifest"} : pc[w] = "verify" /\ ForRecord(w)} :
       Raise(w, error, "release")
  /\ UNCHANGED <<lock, environment>> /\ Fault

(* ... unless the removal fails too. *)
RollbackFails(w) ==
  /\ pc[w] \in {"fill", "verify"}
  /\ Raise(w, "write_error", "release")
  /\ UNCHANGED <<store, environment>> /\ Fault

ReleaseFails(w) ==
  /\ pc[w] = "release"
  /\ AfterWriter(w)
  /\ UNCHANGED <<store, environment>> /\ Fault

LastReadFails(w) ==
  /\ \/ pc[w] = "confirm" /\ Return(w, "partial", candidate[w])
     \/ pc[w] \in {"reload", "reconsider"} /\ Fail(w, IF cause[w] = "manifest" THEN "integrity" ELSE "write_error")
  /\ UNCHANGED <<store, environment>> /\ Fault

-----------------------------------------------------------------------------
(* The environment. *)

Crash(w) ==
  /\ pc[w] # "idle"
  /\ crashes < MaxCrashes /\ crashes' = crashes + 1
  /\ Return(w, "none", None)
  /\ UNCHANGED <<store, environment, faults>>

Active(w) == pc[w] \in InCriticalSection

(* registry_audit.clear_registry_lock; every series lock file has the same bytes. *)
ClearLock(s) ==
  /\ lock[s] # Nobody
  /\ GuardedClearing => ~ Active(lock[s])
  /\ lock' = [lock EXCEPT ![s] = Nobody]
  /\ UNCHANGED <<file, environment, call, faults, crashes>>

(* update_academic_work_registration by anybody, under a lock of its own. *)
UpdateRegistration ==
  /\ registration.revision < MaxRegistration
  /\ \E lifecycle \in {"active", "cancelled"} :
       registration' = [revision |-> registration.revision + 1, lifecycle |-> lifecycle]
  /\ UNCHANGED <<store, manifest, changes, call, faults, crashes>>

(* The producer rewrites a manifest it should have left alone. *)
RewriteManifest(path) ==
  /\ changes < MaxChanges /\ changes' = changes + 1
  /\ \E digest \in Digests \ {manifest[path]} : manifest' = [manifest EXCEPT ![path] = digest]
  /\ UNCHANGED <<store, registration, call, faults, crashes>>

Step(w) ==
  \/ ListSeries(w) \/ LoadSeries(w)
  \/ \E id \in Ids : GenerateId(w, id)
  \/ AcquireLock(w) \/ PublicationVanished(w) \/ CheckRecord(w) \/ CheckWithdrawal(w) \/ CheckHistory(w)
  \/ CreateFile(w) \/ FillFile(w) \/ VerifyFile(w) \/ ReleaseLock(w)
  \/ Confirm(w) \/ Relist(w) \/ Reload(w) \/ Reconsider(w)

FileError(w) ==
  \/ FirstReadFails(w) \/ ManifestReadFails(w) \/ AcquireFails(w) \/ StateReadFails(w)
  \/ WriteFails(w) \/ RollbackFails(w) \/ ReleaseFails(w) \/ LastReadFails(w)

Next ==
  \/ \E w \in Writers :
       \/ \E s \in Series, r \in Revisions, metadata \in Metadata, reg \in 0 .. MaxRegistration,
             supersedes \in Ids \cup {None} : Publish(w, s, r, metadata, reg, supersedes)
       \/ \E id \in Ids, reason \in Reasons : Withdraw(w, id, reason)
       \/ Step(w)
       \/ FileError(w)
       \/ Crash(w)
  \/ \E s \in Series : ClearLock(s)
  \/ UpdateRegistration
  \/ \E path \in Series \X Revisions : RewriteManifest(path)

Spec == Init /\ [][Next]_vars

-----------------------------------------------------------------------------
(* Type correctness: files hold records and withdrawals, calls candidates for their own path. *)
TypeOK ==
  /\ lock \in [Series -> Writers \cup {Nobody}]
  /\ DOMAIN file = Slots
  /\ \A path \in Slots :
       file[path].status = "complete" =>
         /\ file[path].content \in IF path[1] = "record" THEN PublicationRecord ELSE PublicationWithdrawal
         /\ file[path].content.publication_id = path[2]
  /\ registration \in [revision : 0 .. MaxRegistration, lifecycle : {"none", "active", "cancelled"}]
  /\ manifest \in [Series \X Revisions -> Digests]
  /\ pc \in [Writers -> Phases]
  /\ slot \in [Writers -> Slots \cup {None}]
  /\ series \in [Writers -> Series \cup {None}]
  /\ names \in [Writers -> SUBSET Ids]
  /\ cause \in [Writers -> Causes]
  /\ attempts \in [Writers -> 0 .. MaxAttempts - 1]
  /\ \A w \in Writers : outcome[w].kind \in Kinds
  /\ changes \in 0 .. MaxChanges /\ faults \in 0 .. MaxFaults /\ crashes \in 0 .. MaxCrashes

Published(s) ==
  {record \in {RecordFile(id).content : id \in {i \in Ids : RecordFile(i).status = "complete"}} :
     record.series = s}

(***************************************************************************)
(* Every series is one unbranched chain at every moment, records in the    *)
(* middle of a call included: no two processes supersede the same head, no *)
(* revision is used twice, and numbers and times grow along the chain.     *)
(***************************************************************************)
SeriesIsChain == \A s \in Series : ValidSeries(Published(s))

(***************************************************************************)
(* A withdrawal never outlives or precedes its publication: its record is  *)
(* there, and is not withdrawn before it was published.                    *)
(***************************************************************************)
WithdrawalHasRecord ==
  \A id \in Ids :
    WithdrawalFile(id).status = "complete" =>
      /\ RecordFile(id).status = "complete"
      /\ WithdrawalFile(id).content.withdrawn_at >= RecordFile(id).content.published_at

(* What the caller was told to have created stays as it was created. *)
Kept(content) ==
  \E path \in Slots : file[path] = Complete(content)

CreatedIsDurable == \A w \in Writers : outcome[w].kind = "created" => Kept(outcome[w].content)

(***************************************************************************)
(* A complete record or withdrawal is never changed, and only the call     *)
(* that created it may remove it, before it has left the writer.           *)
(***************************************************************************)
SettledFilesAreImmutable ==
  [][\A path \in Slots :
       file[path].status = "complete" /\ file'[path] # file[path] =>
         /\ file'[path] = Absent
         /\ \E w \in Writers : slot[w] = path /\ pc[w] = "verify" /\ file[path].content = candidate[w]]_vars

(***************************************************************************)
(* A process that finds the history of its series unreadable or broken     *)
(* while it holds the lock has no live colleague of the same series to     *)
(* blame: the torn record belongs to a dead call or to another series.     *)
(***************************************************************************)
LockedHistoryIsSettled ==
  \A w \in Writers :
    pc[w] = "history" =>
      ~ \E v \in Writers \ {w} : series[v] = series[w] /\ pc[v] \in {"create", "fill", "verify"}

-----------------------------------------------------------------------------
(***************************************************************************)
(* Claims of the repository that the code does not keep.                   *)
(***************************************************************************)

(***************************************************************************)
(* "An academic publication requires the exact current Academic Work       *)
(* Registration revision and a non-cancelled lifecycle": when a record     *)
(* appears, its registration is current and not cancelled.                 *)
(***************************************************************************)
RegistrationIsCurrent ==
  [][\A w \in Writers :
       pc[w] = "fill" /\ pc'[w] = "verify" /\ ForRecord(w) => RegistrationAccepts(w)]_vars

(***************************************************************************)
(* "Exact replay returns `existing`": what a call reported as existing is  *)
(* a Publication Record, and those are immutable.                          *)
(***************************************************************************)
ExistingIsDurable == \A w \in Writers : outcome[w].kind = "existing" => Kept(outcome[w].content)
=============================================================================
