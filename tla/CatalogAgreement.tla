---------------------------- MODULE CatalogAgreement ----------------------------
(***************************************************************************)
(* The three implementations of a valid registry, for every finite set of  *)
(* files, whole or damaged: what a rebuild projects, what it verifies in   *)
(* the database, and what the audit finds in the files agree, but that     *)
(* only the audit asks for the directory of the work and only the rebuild  *)
(* for class metadata that loads.                                          *)
(***************************************************************************)
EXTENDS CatalogProofs, FiniteSetTheorems, WellFoundedInduction

-----------------------------------------------------------------------------
(* Finite sets. *)

(* A finite set of numbers that is not empty has a greatest one. *)
LEMMA GreatestExists ==
  ASSUME NEW S \in SUBSET Nat, IsFiniteSet(S), S # {}
  PROVE  Latest(S) \in S /\ \A n \in S : n <= Latest(S)
<1> DEFINE HasGreatest(U) == \E n \in U : \A m \in U : m <= n
           Bad == {U \in FiniteSubsetsOf(S) : U # {} /\ ~ HasGreatest(U)}
<1>1. Bad = {}
  <2> SUFFICES ASSUME Bad # {} PROVE FALSE
    OBVIOUS
  <2>1. IsWellFoundedOn(StrictSubsetOrdering(S), FiniteSubsetsOf(S))
    BY FS_StrictSubsetOrderingWellFounded
  <2>2. Bad \subseteq FiniteSubsetsOf(S)
    OBVIOUS
  <2>3. PICK U \in Bad : \A V \in Bad : ~ (<<V, U>> \in StrictSubsetOrdering(S))
    <3> HIDE DEF Bad
    <3> QED BY <2>1, <2>2, WFMin, Zenon
  <2>4. PICK x \in U : TRUE
    OBVIOUS
  <2>5. U \in SUBSET S /\ IsFiniteSet(U)
    BY DEF FiniteSubsetsOf
  <2>6. IsFiniteSet(U \ {x})
    BY <2>5, FS_RemoveElement
  <2>7. HasGreatest(U \ {x}) \/ U \ {x} = {}
    <3>1. U \ {x} \in FiniteSubsetsOf(S) /\ U \in FiniteSubsetsOf(S)
      BY <2>5, <2>6 DEF FiniteSubsetsOf
    <3>2. <<U \ {x}, U>> \in StrictSubsetOrdering(S)
      BY <2>4, <2>5 DEF StrictSubsetOrdering
    <3>3. U \ {x} \notin Bad
      BY <2>3, <3>2
    <3> QED BY <3>1, <3>3
  <2>8. CASE U \ {x} = {}
    <3>1. U = {x} /\ x \in Nat
      BY <2>4, <2>5, <2>8
    <3>2. HasGreatest(U)
      BY <3>1
    <3> QED BY <3>2
  <2>9. CASE HasGreatest(U \ {x})
    <3>1. PICK n \in U \ {x} : \A m \in U \ {x} : m <= n
      BY <2>9
    <3>2. n \in Nat /\ x \in Nat /\ U \subseteq Nat
      BY <2>4, <2>5
    <3>3. CASE x <= n
      <4>1. \A m \in U : m <= n
        BY <3>1, <3>3
      <4> QED BY <3>1, <4>1
    <3>4. CASE n <= x
      <4>1. \A m \in U : m <= x
        BY <3>1, <3>2, <3>4
      <4> QED BY <2>4, <4>1
    <3> QED BY <3>2, <3>3, <3>4
  <2> QED BY <2>7, <2>8, <2>9
<1>2. S \in FiniteSubsetsOf(S)
  BY DEF FiniteSubsetsOf
<1>3. HasGreatest(S)
  BY <1>1, <1>2
<1> QED BY <1>3 DEF Latest

(* The first parts of pairs in a finite set are finitely many, and so are the second parts. *)
LEMMA SecondsAreFinite ==
  ASSUME NEW S, IsFiniteSet(S)
  PROVE  IsFiniteSet({path[2] : path \in S})
<1> DEFINE f == [path \in S |-> path[2]]
           T == {path[2] : path \in S}
<1>1. f \in Surjection(S, T)
  BY DEF Surjection
<1> QED BY <1>1, FS_Surjection

-----------------------------------------------------------------------------
(* What there is, by paths. *)

LEMMA NamesAreFinite ==
  ASSUME NEW files, IsFiniteSet(DOMAIN files), NEW kind
  PROVE  IsFiniteSet(Ids(files, kind)) /\ IsFiniteSet(Revisions(files, kind))
<1>1. IsFiniteSet({q \in DOMAIN files : q[1] = kind})
  BY FS_Subset
<1>2. IsFiniteSet({path[2] : path \in {q \in DOMAIN files : q[1] = kind}})
  BY <1>1, SecondsAreFinite
<1>3. IsFiniteSet(Ids(files, kind))
  BY <1>2 DEF Ids
<1>4. Revisions(files, kind) \subseteq {path[2] : path \in {q \in DOMAIN files : q[1] = kind}}
  BY DEF Revisions
<1>5. IsFiniteSet(Revisions(files, kind))
  BY <1>2, <1>4, FS_Subset
<1> QED BY <1>3, <1>5

LEMMA FilesByName ==
  ASSUME NEW files, AreCanonical(files)
  PROVE  /\ \A h \in Histories \cup {"registrations"} : \A n :
              n \in Revisions(files, h) <=> <<h, n>> \in DOMAIN files /\ n \in Nat /\ n > 0
         /\ \A p : p \in Published(files) <=> <<"publications", p>> \in DOMAIN files
         /\ \A p : p \in Withdrawn(files) <=> <<"withdrawals", p>> \in DOMAIN files
         /\ \A path \in DOMAIN files :
              \/ path \in Pointers \cup {Class}
              \/ path[1] \in Histories /\ path[2] \in Revisions(files, path[1]) /\ path = <<path[1], path[2]>>
              \/ path[1] = "publications" /\ path[2] \in Published(files) /\ path = <<path[1], path[2]>>
              \/ path[1] = "withdrawals" /\ path[2] \in Withdrawn(files) /\ path = <<path[1], path[2]>>
<1>1. \A path \in DOMAIN files : path \in BasePaths \/ path = Class
  BY DEF AreCanonical
<1>2. ASSUME NEW h \in Histories \cup {"registrations"}, NEW n
      PROVE  n \in Revisions(files, h) <=> <<h, n>> \in DOMAIN files /\ n \in Nat /\ n > 0
  <2>1. ASSUME n \in Revisions(files, h) PROVE <<h, n>> \in DOMAIN files /\ n \in Nat /\ n > 0
    <3>1. PICK path \in DOMAIN files : path[1] = h /\ n = path[2] /\ n > 0
      BY <2>1 DEF Revisions
    <3>2. path \in BasePaths \/ path = Class
      BY <1>1
    <3> QED BY <3>1, <3>2, PathFacts
  <2>2. ASSUME <<h, n>> \in DOMAIN files, n \in Nat, n > 0 PROVE n \in Revisions(files, h)
    BY <2>2 DEF Revisions
  <2> QED BY <2>1, <2>2
<1>3. ASSUME NEW p, NEW kind \in {"publications", "withdrawals"}
      PROVE  p \in Ids(files, kind) <=> <<kind, p>> \in DOMAIN files
  <2>1. ASSUME p \in Ids(files, kind) PROVE <<kind, p>> \in DOMAIN files
    <3>1. PICK path \in DOMAIN files : path[1] = kind /\ p = path[2]
      BY <2>1 DEF Ids
    <3>2. path \in BasePaths \/ path = Class
      BY <1>1
    <3> QED BY <3>1, <3>2, PathFacts
  <2>2. ASSUME <<kind, p>> \in DOMAIN files PROVE p \in Ids(files, kind)
    BY <2>2 DEF Ids
  <2> QED BY <2>1, <2>2
<1>4. ASSUME NEW path \in DOMAIN files, path \notin Pointers, path # Class
      PROVE  \/ path[1] \in Histories /\ path[2] \in Revisions(files, path[1]) /\ path = <<path[1], path[2]>>
             \/ path[1] = "publications" /\ path[2] \in Published(files) /\ path = <<path[1], path[2]>>
             \/ path[1] = "withdrawals" /\ path[2] \in Withdrawn(files) /\ path = <<path[1], path[2]>>
  <2>1. path \in BasePaths
    BY <1>1, <1>4
  <2>2. path = <<path[1], path[2]>>
    BY <2>1, PathFacts
  <2>3. CASE path[1] \in Histories /\ path[2] \in Nat
    <3>1. path[2] # 0
      BY <1>4, <2>2, <2>3 DEF Pointers, Pointer
    <3> QED BY <1>2, <2>2, <2>3, <3>1
  <2>4. CASE path[1] \in {"publications", "withdrawals"}
    BY <1>3, <2>2, <2>4 DEF Published, Withdrawn
  <2> QED BY <2>1, <2>3, <2>4, PathFacts
<1>5. \A p : p \in Published(files) <=> <<"publications", p>> \in DOMAIN files
  BY <1>3 DEF Published
<1>6. \A p : p \in Withdrawn(files) <=> <<"withdrawals", p>> \in DOMAIN files
  BY <1>3 DEF Withdrawn
<1> QED BY <1>2, <1>4, <1>5, <1>6

LEMMA RecordsAreNotClass ==
  /\ \A h \in Histories : \A n : <<h, n>> # Class
  /\ \A p : <<"publications", p>> # Class /\ <<"withdrawals", p>> # Class
BY PathFacts DEF Class

(* Nothing but class metadata is torn exactly if every revision, record and withdrawal loads. *)
LEMMA NothingIsTorn ==
  ASSUME NEW files, AreCanonical(files)
  PROVE  (\A path \in DOMAIN files \ {Class} : files[path] # Torn)
           <=> /\ \A h \in Histories : Whole(files, h) = Revisions(files, h)
               /\ Loaded(files, "publications") = Published(files)
               /\ Loaded(files, "withdrawals") = Withdrawn(files)
<1>1. \A path \in DOMAIN files \cap Pointers : files[path] # Torn
  BY DEF AreCanonical
<1>2. ASSUME \A path \in DOMAIN files \ {Class} : files[path] # Torn
      PROVE  /\ \A h \in Histories : Whole(files, h) = Revisions(files, h)
             /\ Loaded(files, "publications") = Published(files)
             /\ Loaded(files, "withdrawals") = Withdrawn(files)
  <2>1. \A h \in Histories : \A n \in Revisions(files, h) : files[<<h, n>>] # Torn
    BY <1>2, FilesByName, RecordsAreNotClass
  <2>2. \A p \in Published(files) : files[<<"publications", p>>] # Torn
    BY <1>2, FilesByName, RecordsAreNotClass
  <2>3. \A p \in Withdrawn(files) : files[<<"withdrawals", p>>] # Torn
    BY <1>2, FilesByName, RecordsAreNotClass
  <2> QED BY <2>1, <2>2, <2>3 DEF Whole, Loaded, Published, Withdrawn
<1>3. ASSUME \A h \in Histories : Whole(files, h) = Revisions(files, h),
             Loaded(files, "publications") = Published(files),
             Loaded(files, "withdrawals") = Withdrawn(files),
             NEW path \in DOMAIN files \ {Class}
      PROVE  files[path] # Torn
  <2>1. CASE path \in Pointers
    BY <1>1, <2>1
  <2>2. CASE path[1] \in Histories /\ path[2] \in Revisions(files, path[1]) /\ path = <<path[1], path[2]>>
    BY <1>3, <2>2 DEF Whole
  <2>3. CASE path[1] = "publications" /\ path[2] \in Published(files) /\ path = <<path[1], path[2]>>
    BY <1>3, <2>3 DEF Loaded
  <2>4. CASE path[1] = "withdrawals" /\ path[2] \in Withdrawn(files) /\ path = <<path[1], path[2]>>
    BY <1>3, <2>4 DEF Loaded
  <2> QED BY <2>1, <2>2, <2>3, <2>4, FilesByName
<1> QED BY <1>2, <1>3

-----------------------------------------------------------------------------
(* Series and their heads. *)

(* All but the first record of a chain supersede one each, so that just one is superseded by none. *)
LEMMA ChainHasOneHead ==
  ASSUME NEW ids, IsFiniteSet(ids), ValidSeries(ids)
  PROVE  \E head : ids \ Superseded(ids) = {head}
<1> DEFINE roots == {p \in ids : Record[p].supersedes = None}
<1>1. Cardinality(roots) = 1
  BY DEF ValidSeries
<1>2. IsFiniteSet(roots)
  BY FS_Subset
<1>3. PICK root : roots = {root}
  BY <1>1, <1>2, FS_Singleton
<1> DEFINE others == ids \ {root}
           f == [p \in others |-> Record[p].supersedes]
<1>4. root \in ids /\ \A p \in ids : Record[p].supersedes = None <=> p = root
  BY <1>3
<1>5. IsFiniteSet(others) /\ Cardinality(others) = Cardinality(ids) - 1
  BY <1>4, FS_RemoveElement
<1>6. Superseded(ids) = {Record[p].supersedes : p \in others}
  BY <1>4 DEF Superseded
<1>7. f \in Surjection(others, Superseded(ids))
  BY <1>6 DEF Surjection
<1>8. f \in Injection(others, Superseded(ids))
  <2>1. \A p, q \in others : f[p] = f[q] => p = q
    BY <1>4 DEF ValidSeries
  <2>2. f \in [others -> Superseded(ids)]
    BY <1>6
  <2> HIDE DEF f, others
  <2> QED BY <2>1, <2>2 DEF Injection, IsInjective
<1>9. IsFiniteSet(Superseded(ids)) /\ Cardinality(Superseded(ids)) = Cardinality(others)
  <2> HIDE DEF f, others
  <2> QED BY <1>5, <1>7, <1>8, FS_Surjection
<1>10. Superseded(ids) \subseteq ids
  BY <1>6, <1>4 DEF ValidSeries
<1>11. ids \cap Superseded(ids) = Superseded(ids)
  BY <1>10
<1>12. IsFiniteSet(ids \ Superseded(ids))
  BY FS_Difference
<1>13. Cardinality(ids \ Superseded(ids)) = 1
  <2>1. Cardinality(ids \ Superseded(ids)) = Cardinality(ids) - Cardinality(ids \cap Superseded(ids))
    BY FS_Difference
  <2>2. Cardinality(ids) \in Nat
    BY FS_CardinalityType
  <2>3. Cardinality(ids \cap Superseded(ids)) = Cardinality(ids) - 1
    BY <1>5, <1>9, <1>11, Zenon
  <2> QED BY <2>1, <2>2, <2>3
<1> QED BY <1>12, <1>13, FS_Singleton

LEMMA SeriesAreFinite ==
  ASSUME NEW files, AreCanonical(files), NEW p
  PROVE  IsFiniteSet(SeriesOf(files, p))
<1>1. IsFiniteSet(Published(files))
  BY NamesAreFinite DEF Published, AreCanonical
<1> QED BY <1>1, FS_Subset DEF SeriesOf

(* A record of a valid registry is superseded within its series or not at all. *)
LEMMA SupersededInSeries ==
  ASSUME NEW files, SeriesProjectable(files), NEW p \in Published(files), NEW q \in SeriesOf(files, p)
  PROVE  q \in Superseded(Published(files)) <=> q \in Superseded(SeriesOf(files, p))
<1>1. ASSUME q \in Superseded(Published(files)) PROVE q \in Superseded(SeriesOf(files, p))
  <2>1. PICK r \in Published(files) : Record[r].supersedes = q /\ q # None
    BY <1>1 DEF Superseded
  <2>2. ValidSeries(SeriesOf(files, r)) /\ r \in SeriesOf(files, r)
    BY DEF SeriesProjectable, SeriesOf
  <2>3. q \in SeriesOf(files, r)
    BY <2>1, <2>2 DEF ValidSeries
  <2>4. r \in SeriesOf(files, p)
    BY <2>3 DEF SeriesOf
  <2> QED BY <2>1, <2>4 DEF Superseded
<1>2. ASSUME q \in Superseded(SeriesOf(files, p)) PROVE q \in Superseded(Published(files))
  BY <1>2 DEF Superseded, SeriesOf
<1> QED BY <1>1, <1>2

LEMMA SeriesHasOneHead ==
  ASSUME NEW files, AreCanonical(files), SeriesProjectable(files), NEW p \in Published(files)
  PROVE  \E head : SeriesOf(files, p) \ Superseded(Published(files)) = {head}
<1>1. \E head : SeriesOf(files, p) \ Superseded(SeriesOf(files, p)) = {head}
  BY ChainHasOneHead, SeriesAreFinite DEF SeriesProjectable
<1> QED BY <1>1, SupersededInSeries

-----------------------------------------------------------------------------
(* What the rebuild accepts is what the audit finds no fault with, but for a missing directory of the work. *)

LEMMA RegistrationsLoad ==
  ASSUME NEW files, AreCanonical(files), \A h \in Histories : Whole(files, h) = Revisions(files, h)
  PROVE  Whole(files, "registrations") = Revisions(files, "registrations")
<1>1. CASE "registrations" \in Histories
  BY <1>1
<1>2. CASE "registrations" \notin Histories
  <2>1. \A n : <<"registrations", n>> \notin BasePaths \cup {Class}
    BY <1>2, PathFacts
  <2>2. Revisions(files, "registrations") = {}
    BY <2>1, FilesByName DEF AreCanonical
  <2> QED BY <2>2 DEF Whole
<1> QED BY <1>1, <1>2

LEMMA HistoryAgrees ==
  ASSUME NEW files, AreCanonical(files), NEW h \in Histories
  PROVE  HistoryErrors(files, h) = {}
           <=> /\ Whole(files, h) = Revisions(files, h)
               /\ \A step \in Consecutive(Revisions(files, h)) : Transition(h, step[1], step[2])
               /\ Pointer(h) \in DOMAIN files <=> Revisions(files, h) # {}
               /\ Revisions(files, h) # {} => files[Pointer(h)] = Latest(Revisions(files, h))
<1> DEFINE revisions == Revisions(files, h)
           valid == Whole(files, h)
           pointed == Pointer(h) \in DOMAIN files
           current == {n \in valid : pointed /\ n = files[Pointer(h)]}
           Invalid == valid # revisions
           Unchained == \E step \in Consecutive(valid) : ~ Transition(h, step[1], step[2])
           Mispointed == (pointed /\ current = {}) \/ (current # {} /\ current # {Latest(valid)})
           Unpointed == valid # {} /\ ~ pointed
<1>1. HistoryErrors(files, h) = {} <=> ~ Invalid /\ ~ Unchained /\ ~ Mispointed /\ ~ Unpointed
  BY DEF HistoryErrors
<1>2. revisions # {} => Latest(revisions) \in revisions
  <2>1. IsFiniteSet(revisions) /\ revisions \in SUBSET Nat
    BY NamesAreFinite, FilesByName DEF AreCanonical
  <2> QED BY <2>1, GreatestExists
<1>3. ASSUME valid = revisions
      PROVE  ~ Mispointed /\ ~ Unpointed
               <=> /\ pointed <=> revisions # {}
                   /\ revisions # {} => files[Pointer(h)] = Latest(revisions)
  <2>1. ASSUME ~ Mispointed, ~ Unpointed
        PROVE  (pointed <=> revisions # {}) /\ (revisions # {} => files[Pointer(h)] = Latest(revisions))
    BY <1>3, <2>1
  <2>2. ASSUME pointed <=> revisions # {}, revisions # {} => files[Pointer(h)] = Latest(revisions)
        PROVE  ~ Mispointed /\ ~ Unpointed
    BY <1>2, <1>3, <2>2
  <2> QED BY <2>1, <2>2
<1> HIDE DEF valid, revisions, pointed, current, Mispointed, Unpointed
<1>4. ASSUME valid = revisions PROVE ~ Unchained <=> \A step \in Consecutive(revisions) : Transition(h, step[1], step[2])
  BY <1>4
<1> QED BY <1>1, <1>3, <1>4 DEF valid, revisions, pointed

LEMMA PublicationsAgree ==
  ASSUME NEW files, AreCanonical(files),
         Whole(files, "registrations") = Revisions(files, "registrations")
  PROVE  PublicationErrors(files) = {}
           <=> /\ Loaded(files, "publications") = Published(files)
               /\ Loaded(files, "withdrawals") = Withdrawn(files)
               /\ \A p \in Published(files) :
                    Record[p].registration # None => Record[p].registration \in Revisions(files, "registrations")
               /\ SeriesProjectable(files)
               /\ Withdrawn(files) \subseteq Published(files)
<1> DEFINE records == Loaded(files, "publications")
           Of(p) == {q \in records : Record[q].series = Record[p].series}
           Unregistered == \E p \in records : Record[p].registration # None
                                              /\ Record[p].registration \notin Whole(files, "registrations")
           Duplicate == \E p \in records : \E q \in Of(p) : p # q /\ Record[p].revision = Record[q].revision
           Unchained == \E p \in records : ~ ValidSeries(Of(p))
           Competing == \E p \in records : Cardinality(Of(p) \ Superseded(Of(p))) > 1
<1>1. PublicationErrors(files) = {}
        <=> /\ records = Published(files) /\ Loaded(files, "withdrawals") = Withdrawn(files)
            /\ ~ Unregistered /\ ~ Duplicate /\ ~ Unchained /\ ~ Competing
            /\ Loaded(files, "withdrawals") \subseteq records
  BY DEF PublicationErrors
<1>2. ASSUME records = Published(files) PROVE \A p : Of(p) = SeriesOf(files, p)
  BY <1>2 DEF SeriesOf
<1>3. ASSUME records = Published(files) PROVE ~ Unchained <=> SeriesProjectable(files)
  BY <1>2, <1>3 DEF SeriesProjectable
<1>4. ASSUME records = Published(files), SeriesProjectable(files) PROVE ~ Duplicate /\ ~ Competing
  <2>1. ASSUME NEW p \in records, NEW q \in Of(p), Record[p].revision = Record[q].revision PROVE p = q
    <3>1. ValidSeries(SeriesOf(files, p)) /\ p \in SeriesOf(files, p) /\ q \in SeriesOf(files, p)
      BY <1>2, <1>4, <2>1 DEF SeriesProjectable, SeriesOf
    <3> QED BY <2>1, <3>1 DEF ValidSeries
  <2>2. ASSUME NEW p \in records PROVE ~ (Cardinality(Of(p) \ Superseded(Of(p))) > 1)
    <3>1. ValidSeries(Of(p)) /\ IsFiniteSet(Of(p))
      BY <1>2, <1>4, <2>2, SeriesAreFinite DEF SeriesProjectable
    <3>2. PICK head : Of(p) \ Superseded(Of(p)) = {head}
      BY <3>1, ChainHasOneHead
    <3>3. Cardinality(Of(p) \ Superseded(Of(p))) = 1
      BY <3>2, FS_Singleton
    <3> QED BY <3>3
  <2> QED BY <2>1, <2>2
<1>5. ASSUME records = Published(files)
      PROVE  ~ Unregistered <=> \A p \in Published(files) :
               Record[p].registration # None => Record[p].registration \in Revisions(files, "registrations")
  BY <1>5
<1> HIDE DEF records, Of, Unregistered, Duplicate, Unchained, Competing
<1> QED BY <1>1, <1>3, <1>4, <1>5 DEF records

LEMMA AuditAgrees ==
  ASSUME NEW files, AreCanonical(files)
  PROVE  \A hasRoot \in BOOLEAN : Projectable(files) <=> CanonicalErrors(files, hasRoot) \subseteq {"producer_work_missing"}
<1> DEFINE Chained(h) ==
      /\ \A step \in Consecutive(Revisions(files, h)) : Transition(h, step[1], step[2])
      /\ Pointer(h) \in DOMAIN files <=> Revisions(files, h) # {}
      /\ Revisions(files, h) # {} => files[Pointer(h)] = Latest(Revisions(files, h))
  Registered == \A p \in Published(files) :
    Record[p].registration # None => Record[p].registration \in Revisions(files, "registrations")
<1>1. Projectable(files)
        <=> /\ \A path \in DOMAIN files \ {Class} : files[path] # Torn
            /\ \A h \in Histories : Chained(h)
            /\ Registered /\ SeriesProjectable(files) /\ Withdrawn(files) \subseteq Published(files)
  BY DEF Projectable
<1>2. ASSUME NEW hasRoot \in BOOLEAN
      PROVE  CanonicalErrors(files, hasRoot) \subseteq {"producer_work_missing"}
               <=> (\A h \in Histories : HistoryErrors(files, h) = {}) /\ PublicationErrors(files) = {}
  <2>1. RootErrors(files, hasRoot) \subseteq {"producer_work_missing"}
    BY DEF RootErrors
  <2>2. \A h \in Histories : "producer_work_missing" \notin HistoryErrors(files, h)
    BY DEF HistoryErrors
  <2>3. "producer_work_missing" \notin PublicationErrors(files)
    BY DEF PublicationErrors
  <2> QED BY <2>1, <2>2, <2>3 DEF CanonicalErrors
<1>3. \A h \in Histories : HistoryErrors(files, h) = {} <=> Whole(files, h) = Revisions(files, h) /\ Chained(h)
  BY HistoryAgrees
<1>4. (\A h \in Histories : Whole(files, h) = Revisions(files, h))
        => (PublicationErrors(files) = {}
              <=> /\ Loaded(files, "publications") = Published(files)
                  /\ Loaded(files, "withdrawals") = Withdrawn(files)
                  /\ Registered /\ SeriesProjectable(files) /\ Withdrawn(files) \subseteq Published(files))
  BY PublicationsAgree, RegistrationsLoad
<1> HIDE DEF Chained, Registered
<1> QED BY <1>1, <1>2, <1>3, <1>4, NothingIsTorn

-----------------------------------------------------------------------------
(* What the rebuild writes into the database passes its verification. *)

LEMMA HistoryIsVerified ==
  ASSUME NEW files, AreCanonical(files), Projectable(files), NEW h \in Histories
  PROVE  LET history == {r \in RevisionRows(files) : r.history = h}
             current == {r \in history : r.is_current}
         IN /\ \A step \in Consecutive({r.revision : r \in history}) : Transition(h, step[1], step[2])
            /\ history # {} =>
                 Cardinality(current) = 1 /\ \A r \in history, c \in current : r.revision <= c.revision
<1> DEFINE Row(n) == [history |-> h, revision |-> n, is_current |-> n = files[Pointer(h)]]
           history == {r \in RevisionRows(files) : r.history = h}
           current == {r \in history : r.is_current}
           revisions == Revisions(files, h)
<1>1. history = {Row(n) : n \in revisions}
  <2>1. \A r : r \in RevisionRows(files)
          <=> \E g \in Histories : \E n \in Revisions(files, g) :
                r = [history |-> g, revision |-> n, is_current |-> n = files[Pointer(g)]]
    BY DEF RevisionRows
  <2> QED BY <2>1
<1>2. {r.revision : r \in history} = revisions
  <2>1. \A n \in revisions : Row(n) \in history /\ Row(n).revision = n
    BY <1>1
  <2>2. \A r \in history : r.revision \in revisions
    BY <1>1
  <2> HIDE DEF history, revisions, Row
  <2> QED BY <2>1, <2>2
<1>3. \A step \in Consecutive({r.revision : r \in history}) : Transition(h, step[1], step[2])
  <2> HIDE DEF history
  <2> QED BY <1>2 DEF Projectable
<1>4. ASSUME history # {}
      PROVE  Cardinality(current) = 1 /\ \A r \in history, c \in current : r.revision <= c.revision
  <2>1. revisions # {}
    BY <1>1, <1>4
  <2>2. IsFiniteSet(revisions) /\ revisions \in SUBSET Nat
    BY NamesAreFinite, FilesByName DEF AreCanonical
  <2>3. files[Pointer(h)] = Latest(revisions)
    BY <2>1 DEF Projectable
  <2>4. Latest(revisions) \in revisions /\ \A n \in revisions : n <= Latest(revisions)
    BY <2>1, <2>2, GreatestExists
  <2>5. current = {Row(Latest(revisions))}
    <3>1. Row(Latest(revisions)) \in history /\ Row(Latest(revisions)).is_current
      BY <1>1, <2>3, <2>4
    <3>2. ASSUME NEW r \in history, r.is_current PROVE r = Row(Latest(revisions))
      <4>1. PICK n \in revisions : r = Row(n)
        BY <1>1
      <4>2. n = files[Pointer(h)]
        BY <3>2, <4>1
      <4> QED BY <2>3, <4>1, <4>2
    <3> HIDE DEF history, Row
    <3> QED BY <3>1, <3>2
  <2>6. Cardinality(current) = 1
    <3> HIDE DEF current, Row
    <3> QED BY <2>5, FS_Singleton
  <2>7. \A r \in history, c \in current : r.revision <= c.revision
    BY <1>1, <2>4, <2>5
  <2> QED BY <2>6, <2>7
<1> QED BY <1>3, <1>4

LEMMA RowsArePublications ==
  ASSUME NEW files
  PROVE  /\ \A row \in PublicationRows(files) :
              /\ row.publication_id \in Published(files)
              /\ row.is_series_head <=> row.publication_id \notin Superseded(Published(files))
              /\ row.is_withdrawn <=> row.publication_id \in Withdrawn(files)
              /\ row.is_current_selectable <=> row.is_series_head /\ ~ row.is_withdrawn
         /\ {row.publication_id : row \in PublicationRows(files)} = Published(files)
         /\ \A row, other \in PublicationRows(files) : row.publication_id = other.publication_id => row = other
<1> DEFINE Row(p) ==
      [publication_id |-> p, is_series_head |-> p \notin Superseded(Published(files)),
       is_withdrawn |-> p \in Withdrawn(files),
       is_current_selectable |-> p \notin Superseded(Published(files)) /\ ~ p \in Withdrawn(files)]
<1>1. PublicationRows(files) = {Row(p) : p \in Published(files)}
  BY DEF PublicationRows
<1>2. \A row \in PublicationRows(files) : row.publication_id \in Published(files) /\ row = Row(row.publication_id)
  BY <1>1
<1>3. \A row \in PublicationRows(files) :
        /\ row.publication_id \in Published(files)
        /\ row.is_series_head <=> row.publication_id \notin Superseded(Published(files))
        /\ row.is_withdrawn <=> row.publication_id \in Withdrawn(files)
        /\ row.is_current_selectable <=> row.is_series_head /\ ~ row.is_withdrawn
  <2>1. ASSUME NEW p \in Published(files)
        PROVE  /\ Row(p).publication_id \in Published(files)
               /\ Row(p).is_series_head <=> Row(p).publication_id \notin Superseded(Published(files))
               /\ Row(p).is_withdrawn <=> Row(p).publication_id \in Withdrawn(files)
               /\ Row(p).is_current_selectable <=> Row(p).is_series_head /\ ~ Row(p).is_withdrawn
    OBVIOUS
  <2> HIDE DEF Row
  <2> QED BY <1>1, <2>1
<1>4. {row.publication_id : row \in PublicationRows(files)} = Published(files)
  <2>1. \A p \in Published(files) : Row(p) \in PublicationRows(files) /\ Row(p).publication_id = p
    BY <1>1
  <2> HIDE DEF Row
  <2> QED BY <1>2, <2>1
<1>5. \A row, other \in PublicationRows(files) : row.publication_id = other.publication_id => row = other
  BY <1>2
<1> QED BY <1>3, <1>4, <1>5

LEMMA SeriesAreVerified ==
  ASSUME NEW files, AreCanonical(files), Projectable(files)
  PROVE  Verified(RevisionRows(files), PublicationRows(files), files)
<1> DEFINE rows == PublicationRows(files)
           ids(row) == {r.publication_id : r \in rows} \cap SeriesOf(files, row.publication_id)
<1>1. \A row \in rows : ids(row) = SeriesOf(files, row.publication_id)
  BY RowsArePublications DEF SeriesOf
<1>2. ASSUME NEW row \in rows
      PROVE  /\ ValidSeries(ids(row))
             /\ row.is_series_head <=> row.publication_id \notin Superseded(ids(row))
             /\ row.is_current_selectable <=> row.is_series_head /\ ~ row.is_withdrawn
             /\ row.is_withdrawn <=> row.publication_id \in Withdrawn(files)
  <2>1. row.publication_id \in Published(files) /\ row.publication_id \in SeriesOf(files, row.publication_id)
    BY RowsArePublications DEF SeriesOf
  <2>2. SeriesProjectable(files)
    BY DEF Projectable
  <2>3. ValidSeries(ids(row))
    BY <1>1, <2>1, <2>2 DEF SeriesProjectable
  <2>4. row.publication_id \in Superseded(Published(files)) <=> row.publication_id \in Superseded(ids(row))
    BY <1>1, <2>1, <2>2, SupersededInSeries
  <2> HIDE DEF ids
  <2> QED BY <2>3, <2>4, RowsArePublications
<1>3. Withdrawn(files) \subseteq {row.publication_id : row \in rows}
  BY RowsArePublications DEF Projectable
<1>4. \A h \in Histories :
        LET history == {r \in RevisionRows(files) : r.history = h}
            current == {r \in history : r.is_current}
        IN /\ \A step \in Consecutive({r.revision : r \in history}) : Transition(h, step[1], step[2])
           /\ history # {} =>
                Cardinality(current) = 1 /\ \A r \in history, c \in current : r.revision <= c.revision
  BY HistoryIsVerified
<1> QED BY <1>2, <1>3, <1>4 DEF Verified

LEMMA QueriesAgree ==
  ASSUME NEW files, AreCanonical(files), Projectable(files)
  PROVE  LET rows == PublicationRows(files)
             Query(state) == query_publication_catalog(rows, state)
         IN /\ \A p \in Published(files) :
                 Cardinality({row \in Query("series_heads") : row.publication_id \in SeriesOf(files, p)}) = 1
            /\ Query("current") = Query("series_heads") \ Query("withdrawn")
<1> DEFINE rows == PublicationRows(files)
           Query(state) == query_publication_catalog(rows, state)
<1>1. /\ Query("series_heads") = {row \in rows : row.is_series_head}
      /\ Query("withdrawn") = {row \in rows : row.is_withdrawn}
      /\ Query("current") = {row \in rows : row.is_current_selectable}
  BY DEF query_publication_catalog
<1>2. Query("current") = Query("series_heads") \ Query("withdrawn")
  <2> HIDE DEF Query
  <2> QED BY <1>1, RowsArePublications
<1>3. ASSUME NEW p \in Published(files)
      PROVE  Cardinality({row \in Query("series_heads") : row.publication_id \in SeriesOf(files, p)}) = 1
  <2> DEFINE heads == {row \in Query("series_heads") : row.publication_id \in SeriesOf(files, p)}
  <2>1. PICK head : SeriesOf(files, p) \ Superseded(Published(files)) = {head}
    BY SeriesHasOneHead DEF Projectable
  <2>2. head \in Published(files)
    BY <2>1 DEF SeriesOf
  <2>3. PICK row \in rows : row.publication_id = head
    BY <2>2, RowsArePublications
  <2>4. row \in heads
    <3>1. row.is_series_head
      BY <2>1, <2>3, RowsArePublications
    <3> QED BY <1>1, <2>1, <2>3, <3>1
  <2>5. ASSUME NEW other \in heads PROVE other = row
    <3>1. other \in rows /\ other.is_series_head /\ other.publication_id \in SeriesOf(files, p)
      BY <1>1
    <3>2. other.publication_id = head
      BY <2>1, <3>1, RowsArePublications
    <3> QED BY <2>3, <3>1, <3>2, RowsArePublications
  <2>6. heads = {row}
    <3> HIDE DEF heads
    <3> QED BY <2>4, <2>5
  <2> HIDE DEF heads
  <2>7. Cardinality(heads) = 1
    BY <2>6, FS_Singleton
  <2> QED BY <2>7 DEF heads
<1> QED BY <1>2, <1>3

(***************************************************************************)
(* Whatever files there are, finitely many and with pointers that were     *)
(* written whole: _load_projection accepts all but the class metadata      *)
(* exactly if the audit finds no fault with them but that the directory of *)
(* the work is missing; what _insert_projection makes of accepted files    *)
(* passes _verify_semantic_histories, and every series has one head.       *)
(***************************************************************************)
THEOREM EveryRegistryIsSound == \A files : AreCanonical(files) => Sound(files)
<1> SUFFICES ASSUME NEW files, AreCanonical(files) PROVE Sound(files)
  OBVIOUS
<1>1. \A hasRoot \in BOOLEAN : Projectable(files) <=> CanonicalErrors(files, hasRoot) \subseteq {"producer_work_missing"}
  BY AuditAgrees
<1>2. ASSUME Projectable(files) PROVE Verified(RevisionRows(files), PublicationRows(files), files)
  BY <1>2, SeriesAreVerified
<1> QED BY <1>1, <1>2, QueriesAgree DEF Sound

-----------------------------------------------------------------------------
(* The stores write such files only. *)

LEMMA InitIsCanonical == Init => PastIsCanonical
<1> SUFFICES ASSUME Init PROVE PastIsCanonical
  OBVIOUS
<1>1. PICK store \in InitialStores : past = <<store>>
  BY DEF Init
<1>2. AreCanonical(store.files)
  BY InitialAssumption
<1> QED BY <1>1, <1>2 DEF PastIsCanonical, Instants

LEMMA BecomesIsCanonical ==
  ASSUME PastInv, PastIsCanonical, NEW files, NEW pending, Becomes(files, pending), AreCanonical(files)
  PROVE  PastIsCanonical'
<1>1. past' = Append(past, [files |-> files, pending |-> pending]) /\ past \in Seq({past[k] : k \in DOMAIN past})
  BY DEF Becomes, PastInv
<1>2. Len(past') = Len(past) + 1 /\ Len(past) \in Nat
  BY <1>1
<1>3. ASSUME NEW k \in 1 .. Len(past) PROVE past'[k] = past[k]
  BY <1>1
<1>4. past'[Len(past) + 1].files = files
  BY <1>1
<1> QED BY <1>2, <1>3, <1>4 DEF PastIsCanonical, Instants

LEMMA PutIsCanonical ==
  ASSUME AreCanonical(Files), NEW path \in BasePaths \cup {Class}, NEW content,
         path \in Pointers => content # Torn
  PROVE  AreCanonical(Put(path, content))
<1>1. /\ DOMAIN Put(path, content) = DOMAIN Files \cup {path}
      /\ Put(path, content)[path] = content
      /\ \A q \in DOMAIN Files \ {path} : Put(path, content)[q] = Files[q]
  BY DEF Put
<1>2. IsFiniteSet(DOMAIN Files \cup {path})
  BY FS_AddElement DEF AreCanonical
<1> QED BY <1>1, <1>2 DEF AreCanonical

LEMMA WriteIsCanonical ==
  ASSUME PastInv, PastIsCanonical, Write
  PROVE  PastIsCanonical'
<1>1. AreCanonical(Files) /\ Len(past) \in Instants /\ Len(past) \in Nat
  BY PastFacts DEF PastIsCanonical
<1>2. ASSUME NEW path \in BasePaths \ Pointers, Create(path) PROVE PastIsCanonical'
  <2>1. AreCanonical(Put(path, Torn))
    BY <1>1, PutIsCanonical, PathFacts
  <2> QED BY <1>2, <2>1, BecomesIsCanonical DEF Create
<1>3. ASSUME NEW h \in Histories, CreateRevision(h) PROVE PastIsCanonical'
  <2>1. Selected(Files, h) \in Nat
    BY StateNow
  <2>2. <<h, Selected(Files, h) + 1>> \in BasePaths \ Pointers
    BY <2>1 DEF BasePaths, Pointers, Pointer
  <2> QED BY <1>2, <1>3, <2>2 DEF CreateRevision
<1>4. ASSUME NEW h \in Histories, MovePointer(h) PROVE PastIsCanonical'
  <2> DEFINE n == Selected(Files, h) + 1
  <2>1. n \in Nat /\ n # Torn
    BY StateNow, StoresAssumption
  <2>2. Becomes(Put(Pointer(h), n), Now.pending \ {<<h, n>>})
    BY <1>4 DEF MovePointer
  <2>3. AreCanonical(Put(Pointer(h), n))
    <3> HIDE DEF n
    <3> QED BY <1>1, <2>1, PutIsCanonical, PathFacts
  <2> HIDE DEF n
  <2> QED BY <2>2, <2>3, BecomesIsCanonical
<1>5. ASSUME NEW p \in Publications, CreatePublication(p) \/ CreateWithdrawal(p) PROVE PastIsCanonical'
  <2>1. <<"publications", p>> \in BasePaths \ Pointers /\ <<"withdrawals", p>> \in BasePaths \ Pointers
    BY PathFacts DEF BasePaths, Pointers, Pointer
  <2> QED BY <1>2, <1>5, <2>1 DEF CreatePublication, CreateWithdrawal
<1>6. ASSUME NEW path \in Now.pending, Fill(path) PROVE PastIsCanonical'
  <2>1. path \in DOMAIN Files \ (Pointers \cup {Class}) /\ path \in BasePaths
    BY <1>1, StateNow DEF AreCanonical
  <2>2. AreCanonical(Put(path, Len(past) + 1))
    BY <1>1, <2>1, PutIsCanonical
  <2> QED BY <1>6, <2>2, BecomesIsCanonical DEF Fill
<1>7. ASSUME NEW path \in Now.pending, TakeBack(path) PROVE PastIsCanonical'
  <2> DEFINE files == [q \in DOMAIN Files \ {path} |-> Files[q]]
  <2>1. IsFiniteSet(DOMAIN Files \ {path})
    BY <1>1, FS_RemoveElement DEF AreCanonical
  <2>2. AreCanonical(files)
    BY <1>1, <2>1 DEF AreCanonical
  <2> HIDE DEF files
  <2>3. Becomes(files, Now.pending \ {path})
    BY <1>7 DEF TakeBack, files
  <2> QED BY <2>2, <2>3, BecomesIsCanonical
<1>8. ASSUME NEW path \in Now.pending, Settle(path) PROVE PastIsCanonical'
  <2>1. past' = [past EXCEPT ![Len(past)] = [files |-> Files, pending |-> Now.pending \ {path}]]
    BY <1>8 DEF Settle
  <2>2. past \in Seq({past[k] : k \in DOMAIN past}) /\ Files = past[Len(past)].files
    BY PastFacts DEF PastInv
  <2>3. Len(past') = Len(past) /\ DOMAIN past = 1 .. Len(past)
    BY <2>1, <2>2
  <2>4. \A k \in Instants : past'[k].files = past[k].files
    BY <2>1, <2>2, <2>3 DEF Instants
  <2> QED BY <2>3, <2>4 DEF PastIsCanonical, Instants
<1>9. ASSUME NEW content \in ClassContents, ReplaceClass(content) PROVE PastIsCanonical'
  <2>1. AreCanonical(Put(Class, content))
    BY <1>1, PutIsCanonical, PathFacts
  <2> QED BY <1>9, <2>1, BecomesIsCanonical DEF ReplaceClass
<1> QED BY <1>3, <1>4, <1>5, <1>6, <1>7, <1>8, <1>9 DEF Write

(* No call of the catalog changes canonical files. *)
LEMMA CallsOnlyRead ==
  ASSUME NEW w, Step(w) \/ OperationFails(w) \/ Crash(w)
  PROVE  past' = past
<1>1. Stop(w) => past' = past
  BY DEF Stop, Answer, Reads
<1>2. Reads => past' = past
  BY DEF Reads
<1>3. \A op, phase, stored : Begin(w, op, phase, stored) => past' = past
  BY DEF Begin
<1>4. rebuild_academic_catalog(w) \/ remove_academic_catalog(w) \/ _scan_catalog(w) => past' = past
  BY <1>3 DEF rebuild_academic_catalog, remove_academic_catalog, _scan_catalog
<1>5. _discover_base_paths(w) \/ ReadFiles(w) \/ ReadClass(w) => past' = past
  BY <1>1, <1>2 DEF _discover_base_paths, ReadFiles, ReadClass
<1>6. ReadAgain(w) \/ ListAgain(w) \/ CheckMissingClass(w) => past' = past
  BY <1>1, <1>2 DEF ReadAgain, ListAgain, CheckMissingClass
<1>7. AcquireLock(w) \/ Replace(w) \/ Unlink(w) \/ Unlock(w) => past' = past
  BY DEF AcquireLock, Replace, Unlink, Unlock
<1>8. Compare(w) => past' = past
  BY DEF Compare, Answer
<1>9. OperationFails(w) \/ Crash(w) => past' = past
  BY DEF OperationFails, Crash
<1> QED BY <1>4, <1>5, <1>6, <1>7, <1>8, <1>9 DEF Step

LEMMA NextIsCanonical ==
  ASSUME PastInv, PastIsCanonical, [Next]_vars
  PROVE  PastIsCanonical'
<1>1. CASE Write
  BY <1>1, WriteIsCanonical
<1>2. CASE past' = past
  BY <1>2 DEF PastIsCanonical, Instants
<1>3. ASSUME NEW w \in Workers, Step(w) \/ OperationFails(w) \/ Crash(w) PROVE past' = past
  BY <1>3, CallsOnlyRead
<1>4. ASSUME ClearLock PROVE past' = past
  BY <1>4 DEF ClearLock
<1>5. ASSUME UNCHANGED vars PROVE past' = past
  BY <1>5 DEF vars
<1> QED BY <1>1, <1>2, <1>3, <1>4, <1>5 DEF Next

(***************************************************************************)
(* The invariants of the calls, of the past and of the files: at every     *)
(* moment, and for every other set of files, rebuild, verification and     *)
(* audit agree about what is valid as EveryRegistryIsSound says.           *)
(***************************************************************************)
THEOREM CatalogHoldsAlways == Spec => []CatalogHolds
<1>1. Init => PastIsCanonical
  BY InitIsCanonical
<1>2. CatalogInv /\ PastIsCanonical /\ [Next]_vars => PastIsCanonical'
  BY NextIsCanonical DEF CatalogInv
<1>3. CatalogInv /\ PastIsCanonical => CatalogHolds
  <2> SUFFICES ASSUME CatalogInv, PastIsCanonical PROVE AcceptedStateIsSound
    BY DEF CatalogHolds
  <2>1. AreCanonical(Files)
    BY PastFacts DEF CatalogInv, PastIsCanonical
  <2> QED BY <2>1, EveryRegistryIsSound, OtherFilesAssumption DEF AcceptedStateIsSound, DamagedFilesAreSound
<1> QED BY <1>1, <1>2, <1>3, CatalogInvariance, PTL DEF Spec
=============================================================================
