-------------------------- MODULE PublicationInvariant --------------------------
(***************************************************************************)
(* The inductive invariant of PublicationStore, in three layers: what the  *)
(* exclusive creation of files gives by itself, what the series lock adds  *)
(* when it is only cleared by the procedure of the recovery guide, and     *)
(* what a withdrawal adds to that.                                         *)
(***************************************************************************)
EXTENDS PublicationStore

-----------------------------------------------------------------------------
(* Files: who may still change them, without any lock. *)

Content(path) ==
  {x \in IF path[1] = "record" THEN PublicationRecord ELSE PublicationWithdrawal :
     x.publication_id = path[2]}

(* A file is not there, torn, or complete. *)
FileIsWhole(path) == file[path] \in {Absent, Torn, Complete(file[path].content)}

(* The request of a publication before it has a publication ID and a time. *)
Draft ==
  [publication_id : Ids \cup {None}, series : Series, revision : Revisions, metadata : Metadata,
   digest : Digests, published_at : Stamps \cup {0}, registration : 0 .. MaxRegistration,
   supersedes : Ids \cup {None}]

(* What a call holds at each phase. *)
CandidateFits(w) ==
  /\ pc[w] \in {"names", "load", "generate"} =>
       candidate[w] \in Draft /\ candidate[w].series = series[w]
  /\ pc[w] = "generate" => candidate[w].published_at \in Stamps
  /\ pc[w] \notin {"idle", "names", "load", "generate"} =>
       /\ slot[w] \in Slots
       /\ series[w] \in Series
       /\ candidate[w] \in Content(slot[w])
       /\ ForRecord(w) => candidate[w].series = series[w]
  /\ pc[w] \in {"history", "relist", "reload"} => ForRecord(w)
  /\ pc[w] = "reconsider" => ~ ForRecord(w)
  /\ pc[w] = "idle" => cause[w] = "none"
  /\ pc[w] \notin {"idle", "names", "load", "generate"} /\ ~ ForRecord(w) => cause[w] # "manifest"

(* The call has created the file at its path and may still remove it. *)
Owns(w) == pc[w] \in {"fill", "verify"}

Owned(path) == \E w \in Writers : Owns(w) /\ slot[w] = path

OwnsItsFile(w) ==
  /\ pc[w] = "fill" => file[slot[w]] = Torn
  /\ pc[w] = "verify" => file[slot[w]] = Complete(candidate[w])

OneOwner == \A v, w \in Writers : Owns(v) /\ Owns(w) /\ slot[v] = slot[w] => v = w

(* The writer of the call has finished without an error. *)
HasWritten(w) == pc[w] = "confirm" \/ (pc[w] = "release" /\ cause[w] = "none")

Settled(path, content) == file[path] = Complete(content) /\ ~ Owned(path)

WrittenIsSettled(w) == HasWritten(w) => Settled(slot[w], candidate[w])

CreatedIsSettled(w) ==
  outcome[w].kind = "created" => \E path \in Slots : Settled(path, outcome[w].content)

FilesInv ==
  /\ TypeOK
  /\ DOMAIN candidate = Writers /\ DOMAIN outcome = Writers
  /\ \A path \in Slots : FileIsWhole(path)
  /\ OneOwner
  /\ \A w \in Writers :
       CandidateFits(w) /\ OwnsItsFile(w) /\ WrittenIsSettled(w) /\ CreatedIsSettled(w)

-----------------------------------------------------------------------------
(* Series: what the lock keeps still while its owner reads, decides and writes. *)

HoldsItsLock(w) == Active(w) => lock[series[w]] = w

(* The records of the call's series in other files than its own. *)
Others(w) == {record \in Published(series[w]) : record.publication_id # candidate[w].publication_id}

(* A record that may follow those of a series. *)
Extends(record, records) ==
  /\ \A other \in records : other.revision # record.revision
  /\ IF records = {} THEN record.supersedes = None ELSE Supersedes(record, HeadOf(records))

(* The names the call has listed are still those of its series, its own not among them. *)
HistoryIsListed(w) ==
  pc[w] = "history" =>
    /\ candidate[w].publication_id \notin names[w]
    /\ \A record \in Others(w) : record.publication_id \in names[w]

CandidateExtends(w) ==
  pc[w] \in {"create", "fill", "verify"} /\ ForRecord(w) =>
    ValidSeries(Others(w)) /\ Extends(candidate[w], Others(w))

ChainInv ==
  /\ SeriesIsChain
  /\ \A w \in Writers : HoldsItsLock(w) /\ HistoryIsListed(w) /\ CandidateExtends(w)

-----------------------------------------------------------------------------
(* Withdrawals: their record is there, settled, and not younger. *)

Withdraws(withdrawal) ==
  LET path == <<"record", withdrawal.publication_id>>
  IN /\ file[path].status = "complete"
     /\ ~ Owned(path)
     /\ withdrawal.withdrawn_at >= file[path].content.published_at

WithdrawalInv ==
  /\ \A id \in Ids :
       WithdrawalFile(id).status = "complete" => Withdraws(WithdrawalFile(id).content)
  /\ \A w \in Writers :
       pc[w] \in {"create", "fill", "verify"} /\ ~ ForRecord(w) => Withdraws(candidate[w])

(***************************************************************************)
(* A withdrawal takes the lock of the series its record had when it was    *)
(* read.  That is the record's lock for good unless the record is rolled   *)
(* back and its ID drawn again for another series.                         *)
(***************************************************************************)
OneSeries == \A s, t \in Series : s = t

(* The inductive invariant. *)
PublicationInv ==
  /\ FilesInv
  /\ GuardedClearing => ChainInv
  /\ GuardedClearing /\ OneSeries => WithdrawalInv
=============================================================================
