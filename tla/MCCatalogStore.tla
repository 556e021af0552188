------------------------------- MODULE MCCatalogStore -------------------------------
EXTENDS CatalogInvariant, TLC

RecordOf(revision, supersedes, registration) ==
  [series |-> "s", revision |-> revision, supersedes |-> supersedes, registration |-> registration]

(* b and c both supersede a; c was made for the second registration. *)
MCRecord == [a |-> RecordOf(1, None, 1), b |-> RecordOf(2, "a", 1), c |-> RecordOf(2, "a", 2)]

Publication(p) == <<"publications", p>>
Registration(n) == <<"registrations", n>>
OneRegistration == Registration(0) :> 1 @@ Registration(1) :> 1
OnePublication == OneRegistration @@ Publication("a") :> 1
ClassOne == Class :> 102
Store(files, pending) == [files |-> files, pending |-> pending]

(* With class metadata, without, and nothing at all; and what crashes and faults left behind: *)
(* two heads, a revision not selected, a torn publication; and class metadata that does not load. *)
MCStores ==
  {Store(OnePublication @@ ClassOne, {}),
   Store(OneRegistration @@ Class :> Torn, {}),
   Store(NoFiles, {}),
   Store(OnePublication @@ Publication("b") :> 1 @@ Publication("c") :> 1, {}),
   Store(OnePublication @@ Registration(2) :> 1, {Registration(2)}),
   Store(OneRegistration @@ Publication("a") :> Torn @@ ClassOne, {Publication("a")})}

(* Every way to leave out, to damage and to point at some of these files. *)
SomePaths == {Registration(1), Registration(2), Publication("a"), Publication("b"), Publication("c"), <<"withdrawals", "a">>, Class}
Damaged ==
  UNION {UNION {{rest, rest @@ Registration(0) :> 1, rest @@ Registration(0) :> 2} : rest \in [paths -> {1, Torn}]} :
           paths \in SUBSET SomePaths}

Symmetry == Permutations(Workers)
=============================================================================
