------------------------- MODULE RegistrationInvariant -------------------------
(***************************************************************************)
(* The inductive invariant of RegistrationStore: what each call may rely   *)
(* on at each file operation, in terms of what is in the directory.  It    *)
(* does not mention the lock.                                              *)
(***************************************************************************)
EXTENDS RegistrationStore

(* w's call runs and its own unselected revision file is there. *)
Holder(w) == pc[w] # "idle" /\ trace[w] = "orphan"

File(w) == revision[candidate[w].revision]

(* Where a call is, what error it carries, and what it has left in the directory so far. *)
Fits(phase, error, left) ==
  /\ phase \notin {"release", "reconcile", "classify", "select"} => error = "none"
  /\ phase \in {"list", "acquire", "validate", "scan", "create", "reconcile"} => left = "nothing"
  /\ phase \in {"fill", "verify", "publish"} => left = "orphan"
  /\ phase \in {"confirm", "reload"} => left = "committed"
  /\ phase = "release" /\ error = "none" => left = "committed"
  /\ error \in {"conflict", "read_error"} => left = "nothing"
  /\ phase = "reconcile" => error = "conflict"
  /\ phase = "classify" => error \in {"conflict", "integrity", "write_error"}

TraceFitsPhase(w) == Fits(pc[w], cause[w], trace[w])

(***************************************************************************)
(* The candidate continues the revision it was made from, and the pointer  *)
(* has not gone back behind that.                                          *)
(***************************************************************************)
CandidateContinues(w) ==
  pc[w] # "idle" =>
    /\ candidate[w] \in Registration
    /\ Expected(w) <= current
    /\ Expected(w) # 0 =>
         /\ candidate[w].created_at = revision[Expected(w)].content.created_at
         /\ candidate[w].updated_at >= revision[Expected(w)].content.updated_at

(* An unselected revision of a running call is the next one. *)
HolderIsNext(w) ==
  Holder(w) =>
    /\ Expected(w) = current
    /\ File(w) \in {Torn, Complete(candidate[w])}
    /\ pc[w] \in {"verify", "publish"} => File(w) = Complete(candidate[w])

CommittedIsSelected(w) ==
  pc[w] # "idle" /\ trace[w] = "committed" =>
    /\ candidate[w].revision <= current
    /\ File(w) = Complete(candidate[w])

(* What a call with a file of its own finds at its path is its candidate. *)
PersistedIsOwn(w) == pc[w] = "select" /\ trace[w] # "nothing" => persisted[w] = candidate[w]

(* What the last call of w reported; nothing while the next one runs. *)
AnswerIsTrue(w) ==
  /\ pc[w] # "idle" => outcome[w] = NoOutcome
  /\ outcome[w].kind \in {"created", "updated", "existing", "partial_selected"} =>
       InSelectedHistory(outcome[w].registration)
  /\ outcome[w].kind \in {"not_found", "conflict", "write_error", "read_error"} =>
       trace[w] = "nothing"

CallInv(w) ==
  /\ TraceFitsPhase(w)
  /\ CandidateContinues(w)
  /\ HolderIsNext(w)
  /\ CommittedIsSelected(w)
  /\ PersistedIsOwn(w)
  /\ AnswerIsTrue(w)

NothingBeyondNext == \A r \in Listed : r <= current + 1
OneHolder == \A v, w \in Writers : Holder(v) /\ Holder(w) => v = w

(* The inductive invariant: the store is sound and every call's view of it is. *)
IInv ==
  /\ TypeOK
  /\ ReachableComplete
  /\ Chained
  /\ NothingBeyondNext
  /\ OneHolder
  /\ \A w \in Writers : CallInv(w)
=============================================================================
