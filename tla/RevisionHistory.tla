---------------------------- MODULE RevisionHistory ----------------------------
(***************************************************************************)
(* What the registration services promise their callers, without files,    *)
(* locks or error reconciliation: one history of registrations that only   *)
(* grows, at most one registration of a call in it, and an answer that     *)
(* says truthfully whether the call's registration is there.               *)
(*                                                                         *)
(*   Invoke   a call begins                                                *)
(*   Commit   its registration becomes the last of the history             *)
(*   Answer   the call returns or raises                                   *)
(*   Vanish   the process dies and its call is never answered              *)
(***************************************************************************)
EXTENDS Integers, Sequences

CONSTANTS Callers, Values, None

VARIABLES
  history,  \* the registrations selected so far, the last one current
  pending,  \* callers whose call is not answered
  done,     \* callers whose last call has appended to the history
  answer    \* the last answer of each caller

absVars == <<history, pending, done, answer>>

Absence == {"not_found", "conflict", "write_error", "read_error"}
Presence == {"created", "updated", "existing", "partial_selected"}
Doubt == {"integrity", "partial_unselected", "partial_uncertain"}

NoAnswer == [kind |-> "none", registration |-> None]
Answer == [kind : Absence \cup Presence \cup Doubt, registration : Values \cup {None}]

AbsInit ==
  /\ history = <<>>
  /\ pending = {}
  /\ done = {}
  /\ answer = [c \in Callers |-> NoAnswer]

Invoke(c) ==
  /\ c \notin pending
  /\ pending' = pending \cup {c}
  /\ done' = done \ {c}
  /\ answer' = [answer EXCEPT ![c] = NoAnswer]
  /\ UNCHANGED history

(* The new registration continues the one it was made from: the last one.  *)
Continues(value) ==
  /\ value.revision = Len(history) + 1
  /\ history # <<>> =>
       /\ value.created_at = history[Len(history)].created_at
       /\ value.updated_at >= history[Len(history)].updated_at

Commit(c) ==
  /\ c \in pending \ done
  /\ Len(history') = Len(history) + 1
  /\ LET value == history'[Len(history')]
     IN value \in Values /\ Continues(value) /\ history' = Append(history, value)
  /\ done' = done \cup {c}
  /\ UNCHANGED <<pending, answer>>

InHistory(value) == \E i \in DOMAIN history : history[i] = value

(***************************************************************************)
(* A disposition, or a partial success that says "selected", names a       *)
(* registration of the history.  A plain failure says that the call        *)
(* appended nothing.  Only a finding for the operator ("integrity") and    *)
(* the explicitly uncertain answers leave that open.                       *)
(***************************************************************************)
Truthful(c, a) ==
  /\ a.kind \in Presence => InHistory(a.registration)
  /\ a.kind \in {"created", "updated"} => c \in done
  /\ a.kind \in Absence => c \notin done

(* c is given the answer a; the other answers stand. *)
Told(c, a) == a \in Answer /\ answer' = [answer EXCEPT ![c] = a]

Reply(c) ==
  /\ c \in pending
  /\ Truthful(c, answer'[c])
  /\ Told(c, answer'[c])
  /\ pending' = pending \ {c}
  /\ UNCHANGED <<history, done>>

(* A call decided by its first look at the history. *)
ReplyAtOnce(c) ==
  /\ c \notin pending
  /\ done' = done \ {c}
  /\ answer'[c].kind \in Presence => InHistory(answer'[c].registration)
  /\ answer'[c].kind \notin {"created", "updated"}
  /\ Told(c, answer'[c])
  /\ UNCHANGED <<history, pending>>

Vanish(c) ==
  /\ c \in pending
  /\ pending' = pending \ {c}
  /\ UNCHANGED <<history, done, answer>>

AbsNext ==
  \E c \in Callers : Invoke(c) \/ Commit(c) \/ Reply(c) \/ ReplyAtOnce(c) \/ Vanish(c)

AbsSpec == AbsInit /\ [][AbsNext]_absVars
=============================================================================
