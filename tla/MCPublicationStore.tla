-------------------------- MODULE MCPublicationStore --------------------------
(* PublicationStore on small instances. *)
EXTENDS PublicationInvariant, TLC

(* No formula names a writer, an ID, a digest or a value of the metadata. *)
Symmetry ==
  Permutations(Writers) \cup Permutations(Ids) \cup Permutations(Digests)
    \cup Permutations(Metadata)

(* Faults, crashes and rewritten manifests share one budget, and manifests start out alike. *)
FewDisturbances ==
  /\ faults + crashes + changes <= 1
  /\ changes = 0 => \E digest \in Digests : \A path \in Series \X Revisions : manifest[path] = digest
=============================================================================
