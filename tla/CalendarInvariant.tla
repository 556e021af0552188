--------------------------- MODULE CalendarInvariant ---------------------------
(***************************************************************************)
(* The inductive invariant of CalendarStore.  Callers choose the numbers   *)
(* of their revisions, so that it rests on the lock: who holds it knows    *)
(* all files above the pointer, and nobody else changes any.               *)
(***************************************************************************)
EXTENDS CalendarStore

MutualExclusion == \A w \in Writers : pc[w] \in InCriticalSection => lock = w

Own(w) == candidate[w].calendar_revision

(* An idle process has no request; who expects no calendar yet writes the first. *)
RequestFits(w) ==
  pc[w] \notin {"idle", "load"} => candidate[w] \in Documents /\ (expected[w] = None => Own(w) = 1)

(* The call has created its file, and the pointer does not name it yet. *)
Owns(w) == pc[w] \in {"fill", "verify", "publish"}

Unselected(r) == Exists(r) /\ (current = None \/ r > current)

(***************************************************************************)
(* What the call found when it validated is still so: the pointer is what  *)
(* its caller expected, its calendar may follow the selected one, and it   *)
(* has no file above the pointer but its own.                              *)
(***************************************************************************)
Continues(w) ==
  pc[w] \in {"create", "fill", "verify", "publish"} =>
    /\ current = expected[w]
    /\ current # None => ValidTransition(Selected, candidate[w])
    /\ \A r \in Revisions : Unselected(r) => Owns(w) /\ r = Own(w)

FileFits(w) ==
  /\ pc[w] = "fill" => revision[Own(w)] = Torn
  /\ pc[w] \in {"verify", "publish", "confirm"} => revision[Own(w)] = Complete(candidate[w])
  /\ pc[w] = "confirm" => current = Own(w)

(* The pointer a reader has read may be old, but what it named is still there. *)
ReadsHistory(w) ==
  pc[w] = "load" =>
    /\ expected[w] # None /\ current # None
    /\ expected[w] <= current /\ Exists(expected[w])

CallInv(w) == RequestFits(w) /\ Continues(w) /\ FileFits(w) /\ ReadsHistory(w)

CalendarInv ==
  /\ TypeOK
  /\ HistoryIsChained
  /\ OrphanNeedsDisturbance
  /\ ReadersFindCalendar
  /\ MutualExclusion
  /\ \A w \in Writers : CallInv(w)
=============================================================================
