-------------------------- MODULE MCRegistrationStore --------------------------
(* RegistrationStore on small instances, and the history it implements. *)
EXTENDS RegistrationInvariant, TLC

(* Writers and metadata values are interchangeable: no formula names one. *)
Symmetry == Permutations(Writers) \cup Permutations(Metadata)

History == [r \in 1 .. current |-> revision[r].content]
Calls == {w \in Writers : pc[w] # "idle"}
Committed == {w \in Writers : trace[w] = "committed"}

Abstract == INSTANCE RevisionHistory
  WITH Callers <- Writers, Values <- Registration, None <- NoRegistration,
       history <- History, pending <- Calls, done <- Committed, answer <- outcome

(***************************************************************************)
(* The services implement the one growing history of RevisionHistory: a    *)
(* call takes effect atomically when its pointer is replaced, or not at    *)
(* all, and is answered accordingly.                                       *)
(***************************************************************************)
ImplementsHistory == Abstract!AbsSpec
=============================================================================
