----------------------------- MODULE CatalogProofs -----------------------------
(***************************************************************************)
(* Theorems about CatalogStore: the inductive invariant and the properties *)
(* it implies, for any number of workers, histories, publications, changes *)
(* of the canonical files and disturbances.                                *)
(***************************************************************************)
EXTENDS CatalogInvariant, SequenceTheorems, TLAPS

-----------------------------------------------------------------------------
(* Paths and the order of the listing. *)

LEMMA PathFacts ==
  /\ Class \notin BasePaths /\ Class \notin Pointers /\ Pointers \subseteq BasePaths
  /\ Class[1] = "class"
  /\ \A path \in BasePaths :
       /\ path = <<path[1], path[2]>>
       /\ \/ path[1] \in Histories /\ path[2] \in Nat
          \/ path[1] \in {"publications", "withdrawals"} /\ path[2] \in Publications
       /\ path[1] # "class"
  /\ \A h \in Histories : Pointer(h) \in Pointers /\ Pointer(h)[1] = h /\ Pointer(h)[2] = 0
  /\ "publications" \notin Histories /\ "withdrawals" \notin Histories /\ "class" \notin Histories
<1>1. "publications" \notin Histories /\ "withdrawals" \notin Histories /\ "class" \notin Histories
  BY StoresAssumption
<1>2. \A path \in BasePaths :
        /\ path = <<path[1], path[2]>>
        /\ \/ path[1] \in Histories /\ path[2] \in Nat
           \/ path[1] \in {"publications", "withdrawals"} /\ path[2] \in Publications
  BY DEF BasePaths
<1>3. \A path \in BasePaths : path[1] # "class"
  BY <1>1, <1>2
<1>4. Class[1] = "class"
  BY DEF Class
<1>5. Pointers \subseteq BasePaths
  BY DEF Pointers, Pointer, BasePaths
<1>6. \A h \in Histories : Pointer(h) \in Pointers /\ Pointer(h)[1] = h /\ Pointer(h)[2] = 0
  BY DEF Pointers, Pointer
<1>. QED
  BY <1>1, <1>2, <1>3, <1>4, <1>5, <1>6

(* A base path that is no pointer has another second part. *)
LEMMA NotPointer ==
  ASSUME NEW path \in BasePaths, path[1] \in Histories, path \notin Pointers
  PROVE  path[2] \in Nat /\ path[2] > 0
<1>1. path = <<path[1], path[2]>> /\ path[2] \in Nat
  BY PathFacts
<1>2. path[2] # 0
  BY <1>1 DEF Pointers, Pointer
<1>. QED
  BY <1>1, <1>2

LEMMA Concatenations ==
  ASSUME NEW a, NEW b, NEW c, NEW d
  PROVE  /\ << >> \o << >> = << >>
         /\ << >> \o <<a, b>> = <<a, b>>
         /\ <<a, b>> \o << >> = <<a, b>>
         /\ <<a, b>> \o <<c, d>> = <<a, b, c, d>>
<1>. DEFINE S == {a, b, c, d}
<1>1. /\ << >> \in Seq(S) /\ <<a, b>> \in Seq(S) /\ <<c, d>> \in Seq(S)
      /\ <<a, b, c, d>> \in Seq(S)
  OBVIOUS
<1>2. << >> \o << >> = << >> /\ << >> \o <<a, b>> = <<a, b>> /\ <<a, b>> \o << >> = <<a, b>>
  BY <1>1, ConcatEmptySeq
<1>3. <<a, b>> \o <<c, d>> = <<a, b, c, d>>
  <2>. DEFINE s == <<a, b>> \o <<c, d>>
              t == <<a, b, c, d>>
  <2>1. s \in Seq(S) /\ Len(s) = Len(<<a, b>>) + Len(<<c, d>>)
    BY <1>1, ConcatProperties
  <2>2. \A i \in 1 .. Len(<<a, b>>) + Len(<<c, d>>) :
          s[i] = IF i <= Len(<<a, b>>) THEN <<a, b>>[i] ELSE <<c, d>>[i - Len(<<a, b>>)]
    BY <1>1, ConcatProperties
  <2>3. Len(<<a, b>>) = 2 /\ Len(<<c, d>>) = 2 /\ Len(t) = 4
    OBVIOUS
  <2>4. s[1] = a /\ s[2] = b /\ s[3] = c /\ s[4] = d
    BY <2>2, <2>3
  <2>. HIDE DEF s
  <2>5. Len(s) = 4
    BY <2>1, <2>3
  <2>6. \A i \in 1 .. Len(s) : s[i] = t[i]
    BY <2>5, <2>4
  <2>7. s = t
    BY <2>1, <2>3, <2>5, <2>6, <1>1, SeqEqual
  <2>. QED
    BY <2>7 DEF s
<1>. QED
  BY <1>2, <1>3

LEMMA LongConcatenation ==
  ASSUME NEW a, NEW b, NEW c, NEW d, NEW e, NEW f
  PROVE  <<a, b, c, d>> \o <<e, f>> = <<a, b, c, d, e, f>>
<1>. DEFINE S == {a, b, c, d, e, f}
<1>0. <<a, b, c, d>> \in Seq(S) /\ <<e, f>> \in Seq(S) /\ <<a, b, c, d, e, f>> \in Seq(S)
  OBVIOUS
<1>. DEFINE s == <<a, b, c, d>> \o <<e, f>>
            t == <<a, b, c, d, e, f>>
<1>1. s \in Seq(S) /\ Len(s) = Len(<<a, b, c, d>>) + Len(<<e, f>>)
  BY <1>0, ConcatProperties
<1>2. \A i \in 1 .. Len(<<a, b, c, d>>) + Len(<<e, f>>) :
        s[i] = IF i <= Len(<<a, b, c, d>>) THEN <<a, b, c, d>>[i] ELSE <<e, f>>[i - Len(<<a, b, c, d>>)]
  BY <1>0, ConcatProperties
<1>3. Len(<<a, b, c, d>>) = 4 /\ Len(<<e, f>>) = 2 /\ Len(t) = 6
  OBVIOUS
<1>4. s[1] = a /\ s[2] = b /\ s[3] = c /\ s[4] = d /\ s[5] = e /\ s[6] = f
  BY <1>2, <1>3
<1>. HIDE DEF s
<1>5. Len(s) = 6
  BY <1>1, <1>3
<1>6. \A i \in 1 .. Len(s) : s[i] = t[i]
  BY <1>5, <1>4
<1>7. s = t
  BY <1>1, <1>3, <1>5, <1>6, <1>0, SeqEqual
<1>. QED
  BY <1>7 DEF s

(* One step of the listing. *)
IsListingStep(step) ==
  \/ \E h \in Histories : step = <<"revisions", h>> \/ step = <<"pointer", h>>
  \/ step = <<"collection", "publications">> \/ step = <<"collection", "withdrawals">>

(* The listing goes through every collection, and through a history's revisions before its pointer. *)
LEMMA ListingFacts ==
  /\ Len(Listing) \in Nat /\ Len(Listing) >= 2
  /\ \A i \in 1 .. Len(Listing) : IsListingStep(Listing[i])
  /\ \A h \in Histories : \E i \in 1 .. Len(Listing) : Listing[i] = <<"revisions", h>>
  /\ \A h \in Histories : \E i \in 1 .. Len(Listing) : Listing[i] = <<"pointer", h>>
  /\ \A i \in 1 .. Len(Listing) : \A h \in Histories :
       Listing[i] = <<"pointer", h>> => i > 1 /\ Listing[i - 1] = <<"revisions", h>>
  /\ \E i \in 1 .. Len(Listing) : Listing[i] = <<"collection", "publications">>
  /\ \E i \in 1 .. Len(Listing) : Listing[i] = <<"collection", "withdrawals">>
<1>. DEFINE Of(h) == IF h \in Histories THEN <<<<"revisions", h>>, <<"pointer", h>>>> ELSE <<>>
            Collections == <<<<"collection", "publications">>, <<"collection", "withdrawals">>>>
<1>1. Listing = (Of("periods") \o Of("registrations")) \o Collections
  BY DEF Listing
<1>2. CASE "periods" \in Histories /\ "registrations" \in Histories
  <2>1. Listing =
          <<<<"revisions", "periods">>, <<"pointer", "periods">>, <<"revisions", "registrations">>, <<"pointer", "registrations">>, <<"collection", "publications">>, <<"collection", "withdrawals">>>>
    <3>. DEFINE a == <<"revisions", "periods">>
                b == <<"pointer", "periods">>
                c == <<"revisions", "registrations">>
                d == <<"pointer", "registrations">>
                e == <<"collection", "publications">>
                f == <<"collection", "withdrawals">>
    <3>1. Listing = (<<a, b>> \o <<c, d>>) \o <<e, f>>
      BY <1>1, <1>2
    <3>. HIDE DEF a, b, c, d, e, f
    <3>2. <<a, b>> \o <<c, d>> = <<a, b, c, d>>
      BY Concatenations
    <3>3. <<a, b, c, d>> \o <<e, f>> = <<a, b, c, d, e, f>>
      BY LongConcatenation
    <3>4. Listing = <<a, b, c, d, e, f>>
      BY <3>1, <3>2, <3>3
    <3>. QED
      BY <3>4 DEF a, b, c, d, e, f
  <2>. QED
    BY <2>1, <1>2, StoresAssumption DEF IsListingStep
<1>3. CASE "periods" \in Histories /\ "registrations" \notin Histories
  <2>1. Listing =
          <<<<"revisions", "periods">>, <<"pointer", "periods">>, <<"collection", "publications">>, <<"collection", "withdrawals">>>>
    BY <1>1, <1>3, Concatenations
  <2>. QED
    BY <2>1, <1>3, StoresAssumption DEF IsListingStep
<1>4. CASE "periods" \notin Histories /\ "registrations" \in Histories
  <2>1. Listing =
          <<<<"revisions", "registrations">>, <<"pointer", "registrations">>, <<"collection", "publications">>, <<"collection", "withdrawals">>>>
    BY <1>1, <1>4, Concatenations
  <2>. QED
    BY <2>1, <1>4, StoresAssumption DEF IsListingStep
<1>5. CASE "periods" \notin Histories /\ "registrations" \notin Histories
  <2>1. Listing =
          <<<<"collection", "publications">>, <<"collection", "withdrawals">>>>
    BY <1>1, <1>5, Concatenations
  <2>. QED
    BY <2>1, <1>5, StoresAssumption DEF IsListingStep
<1>. QED
  BY <1>2, <1>3, <1>4, <1>5

(* Every base path is found by a step of the listing. *)
LEMMA EveryPathIsCovered ==
  ASSUME NEW path \in BasePaths
  PROVE  \E i \in 1 .. Len(Listing) : Covers(Listing[i], path)
<1>1. CASE path[1] \in Histories /\ path \in Pointers
  <2>1. PICK i \in 1 .. Len(Listing) : Listing[i] = <<"pointer", path[1]>>
    BY <1>1, ListingFacts
  <2>2. path = Pointer(path[1])
    BY <1>1 DEF Pointers, Pointer
  <2>3. Covers(<<"pointer", path[1]>>, path)
    BY <2>2 DEF Covers
  <2>. QED
    BY <2>1, <2>3
<1>2. CASE path[1] \in Histories /\ path \notin Pointers
  <2>1. PICK i \in 1 .. Len(Listing) : Listing[i] = <<"revisions", path[1]>>
    BY <1>2, ListingFacts
  <2>3. Covers(<<"revisions", path[1]>>, path)
    BY <1>2, NotPointer DEF Covers
  <2>. QED
    BY <2>1, <2>3
<1>3. CASE path[1] = "publications"
  <2>1. PICK i \in 1 .. Len(Listing) : Listing[i] = <<"collection", "publications">>
    BY ListingFacts
  <2>3. Covers(<<"collection", "publications">>, path)
    BY <1>3 DEF Covers
  <2>. QED
    BY <2>1, <2>3
<1>4. CASE path[1] = "withdrawals"
  <2>1. PICK i \in 1 .. Len(Listing) : Listing[i] = <<"collection", "withdrawals">>
    BY ListingFacts
  <2>3. Covers(<<"collection", "withdrawals">>, path)
    BY <1>4 DEF Covers
  <2>. QED
    BY <2>1, <2>3
<1>. QED
  BY <1>1, <1>2, <1>3, <1>4, PathFacts

(* A step of the listing finds the files there that it covers, and nothing else. *)
LEMMA EntriesAreFiles ==
  ASSUME NEW step, IsListingStep(step), DOMAIN Files \subseteq BasePaths \cup {Class}
  PROVE  /\ Entries(step) \subseteq DOMAIN Files \ {Class}
         /\ \A path \in DOMAIN Files \ {Class} : Covers(step, path) => path \in Entries(step)
<1>1. CASE \E h \in Histories : step = <<"revisions", h>>
  <2>1. PICK h \in Histories : step = <<"revisions", h>>
    BY <1>1
  <2>2. Entries(step) = {<<h, n>> : n \in Revisions(Files, h)}
    BY <2>1 DEF Entries
  <2>3. \A q \in DOMAIN Files : q[1] = h => q \in BasePaths /\ q = <<h, q[2]>> /\ q[2] \in Nat
    BY PathFacts, <2>1
  <2>4. Entries(step) \subseteq DOMAIN Files \ {Class}
    <3>1. SUFFICES ASSUME NEW n \in Revisions(Files, h) PROVE <<h, n>> \in DOMAIN Files \ {Class}
      BY <2>2
    <3>2. PICK q \in DOMAIN Files : q[1] = h /\ n = q[2]
      BY <3>1 DEF Revisions
    <3>. QED
      BY <3>2, <2>3, PathFacts
  <2>5. \A path \in DOMAIN Files \ {Class} : Covers(step, path) => path \in Entries(step)
    <3>1. SUFFICES ASSUME NEW path \in DOMAIN Files \ {Class}, Covers(step, path) PROVE path \in Entries(step)
      OBVIOUS
    <3>2. path[1] = h /\ path[2] > 0
      BY <3>1, <2>1 DEF Covers
    <3>3. path[2] \in Revisions(Files, h)
      BY <3>1, <3>2 DEF Revisions
    <3>. QED
      BY <3>1, <3>2, <3>3, <2>2, <2>3
  <2>. QED
    BY <2>4, <2>5
<1>2. CASE \E h \in Histories : step = <<"pointer", h>>
  <2>1. PICK h \in Histories : step = <<"pointer", h>>
    BY <1>2
  <2>2. Entries(step) = {Pointer(h)} \cap DOMAIN Files
    BY <2>1 DEF Entries
  <2>. QED
    BY <2>1, <2>2, PathFacts DEF Covers
<1>3. CASE \E c \in {"publications", "withdrawals"} : step = <<"collection", c>>
  <2>1. PICK c \in {"publications", "withdrawals"} : step = <<"collection", c>>
    BY <1>3
  <2>2. Entries(step) = {c} \X Ids(Files, c)
    BY <2>1 DEF Entries
  <2>3. \A q \in DOMAIN Files : q[1] = c => q \in BasePaths /\ q = <<c, q[2]>>
    BY PathFacts, <2>1
  <2>4. Entries(step) \subseteq DOMAIN Files \ {Class}
    <3>1. SUFFICES ASSUME NEW p \in Ids(Files, c) PROVE <<c, p>> \in DOMAIN Files \ {Class}
      BY <2>2
    <3>2. PICK q \in DOMAIN Files : q[1] = c /\ p = q[2]
      BY <3>1 DEF Ids
    <3>. QED
      BY <3>2, <2>3, <2>1, PathFacts
  <2>5. \A path \in DOMAIN Files \ {Class} : Covers(step, path) => path \in Entries(step)
    <3>1. SUFFICES ASSUME NEW path \in DOMAIN Files \ {Class}, Covers(step, path) PROVE path \in Entries(step)
      OBVIOUS
    <3>2. path[1] = c
      BY <3>1, <2>1 DEF Covers
    <3>3. path[2] \in Ids(Files, c)
      BY <3>1, <3>2 DEF Ids
    <3>. QED
      BY <3>1, <3>2, <3>3, <2>2, <2>3
  <2>. QED
    BY <2>4, <2>5
<1>. QED
  BY <1>1, <1>2, <1>3 DEF IsListingStep

-----------------------------------------------------------------------------
(* The past. *)

LEMMA PastFacts ==
  ASSUME PastInv
  PROVE  /\ Len(past) \in Nat /\ Len(past) >= 1 /\ DOMAIN past = Instants
         /\ Files = past[Len(past)].files /\ Now.pending = past[Len(past)].pending
         /\ Len(past) \in Instants
<1>1. past \in Seq({past[k] : k \in DOMAIN past}) /\ past # <<>>
  BY DEF PastInv
<1>2. Len(past) \in Nat /\ DOMAIN past = 1 .. Len(past) /\ Len(past) # 0
  BY <1>1, LenProperties, EmptySeq
<1>. QED
  BY <1>2 DEF Instants, Files, Now

(* What a step does to the past, of all that calls have to know. *)
PastMoves ==
  /\ Len(past') \in Nat /\ Len(past) <= Len(past')
  /\ \A k \in Instants : past'[k].files = past[k].files
  /\ \A k \in Instants : StaysFrom(k)' \subseteq StaysFrom(k)

LEMMA PastRests ==
  ASSUME PastInv, UNCHANGED past
  PROVE  PastInv' /\ PastMoves
<1>1. Len(past) \in Nat
  BY PastFacts
<1>2. PastMoves
  BY <1>1 DEF PastMoves, StaysFrom
<1>3. PastInv'
  BY DEF PastInv, Instants, StateOK, FilesStay, StaysFrom, ContentsDoNotReturn, Holds
<1>. QED
  BY <1>2, <1>3

(* What the writers do to the files: settled files stay, pointers go up, and nothing is written that was there before. *)
Evolves(files, pending) ==
  /\ DOMAIN files \subseteq BasePaths \cup {Class}
  /\ pending \subseteq DOMAIN files \ (Pointers \cup {Class})
  /\ \A path \in DOMAIN Files \ {Class} : path \notin Now.pending => path \in DOMAIN files \ pending
  /\ \A path \in DOMAIN files \ (Pointers \cup {Class}) :
       \/ files[path] \in {Torn, Len(past) + 1}
       \/ path \in DOMAIN Files /\ files[path] = Files[path]
  /\ \A path \in DOMAIN files \cap Pointers :
       /\ files[path] \in Nat
       /\ path \in DOMAIN Files => files[path] >= Files[path]
  /\ \A path \in DOMAIN Files \cap Pointers : path \in DOMAIN files

LEMMA PastGrows ==
  ASSUME PastInv, NEW files, NEW pending, Evolves(files, pending),
         past' = Append(past, [files |-> files, pending |-> pending])
  PROVE  PastInv' /\ PastMoves
<1>. DEFINE last == [files |-> files, pending |-> pending]
<1>0. PICK N : N = Len(past)
  OBVIOUS
<1>1. /\ N \in Nat /\ N >= 1 /\ N \in Instants /\ DOMAIN past = 1 .. N
      /\ Files = past[N].files /\ Now.pending = past[N].pending /\ N = Len(past)
  BY <1>0, PastFacts DEF Instants
<1>2. /\ Len(past') = N + 1 /\ DOMAIN past' = 1 .. N + 1
      /\ \A k \in 1 .. N : past'[k] = past[k]
      /\ past'[N + 1] = last
      /\ past' \in Seq({past'[k] : k \in DOMAIN past'})
  <2>. DEFINE S == {past[k] : k \in DOMAIN past} \cup {last}
  <2>1. past \in Seq(S)
    BY DEF PastInv
  <2>2. /\ past' \in Seq(S) /\ Len(past') = N + 1
        /\ \A k \in 1 .. N : past'[k] = past[k]
        /\ past'[N + 1] = last
    BY <2>1, <1>1, AppendProperties
  <2>3. DOMAIN past' = 1 .. N + 1
    BY <2>2, LenProperties
  <2>4. S \subseteq {past'[k] : k \in DOMAIN past'}
    BY <2>2, <2>3, <1>1
  <2>5. past' \in Seq({past'[k] : k \in DOMAIN past'})
    BY <2>2, <2>4
  <2>. QED
    BY <2>2, <2>3, <2>5
<1>. HIDE DEF last
<1>3. last.files = files /\ last.pending = pending
  BY DEF last
<1>a. ASSUME NEW k \in 1 .. N
      PROVE  StaysFrom(k)' = {path \in DOMAIN past[k].files \ {Class} : path \notin past[k].pending}
  <2>1. past'[k] = past[k] /\ k # Len(past')
    BY <1>1, <1>2
  <2>. QED
    BY <2>1 DEF StaysFrom
<1>4. \A k \in 1 .. N : StateOK(k)'
  BY <1>1, <1>2 DEF PastInv, Instants, StateOK
<1>5. StateOK(N + 1)'
  <2>1. \A path \in DOMAIN files \ {Class} :
          IF path \in Pointers THEN files[path] \in Nat ELSE files[path] \in (1 .. N + 1) \cup {Torn}
    <3>1. \A path \in DOMAIN Files \ {Class} : path \notin Pointers => Files[path] \in (1 .. N) \cup {Torn}
      BY <1>1 DEF PastInv, StateOK
    <3>. QED
      BY <3>1, <1>1 DEF Evolves
  <2>. QED
    BY <2>1, <1>2, <1>3 DEF StateOK, Evolves
<1>6. PastMoves
  <2>1. \A k \in 1 .. N : StaysFrom(k)' \subseteq StaysFrom(k)
    BY <1>a DEF StaysFrom
  <2>. QED
    BY <2>1, <1>1, <1>2 DEF PastMoves, Instants
<1>7. ASSUME NEW i \in 1 .. N + 1, NEW j \in i .. N + 1
      PROVE  FilesStay(i, j)'
  <2>1. CASE j <= N
    <3>1. FilesStay(i, j)
      BY <2>1, <1>1 DEF PastInv, Instants
    <3>2. i \in 1 .. N /\ j \in 1 .. N /\ (i = N => j = N)
      <4>1. N \in Nat
        BY <1>1
      <4>. QED
        BY <2>1, <4>1
    <3>3. i # j => StaysFrom(i)' \subseteq DOMAIN past'[j].files \ past'[j].pending
      <4>1. i # j => StaysFrom(i) \subseteq DOMAIN past[j].files \ past[j].pending
        BY <3>1, <3>2, <1>1 DEF FilesStay
      <4>2. StaysFrom(i)' \subseteq StaysFrom(i) /\ past'[j] = past[j]
        BY <3>2, <1>2, <1>a DEF StaysFrom
      <4>. QED
        BY <4>1, <4>2
    <3>4. \A path \in Pointers \cap DOMAIN past'[i].files :
            path \in DOMAIN past'[j].files /\ past'[i].files[path] <= past'[j].files[path]
      BY <3>1, <3>2, <1>2 DEF FilesStay
    <3>. QED
      BY <3>3, <3>4 DEF FilesStay
  <2>2. CASE i <= N /\ j = N + 1
    <3>1. FilesStay(i, N) /\ i \in 1 .. N
      BY <2>2, <1>1 DEF PastInv, Instants
    <3>2. StaysFrom(i)' \subseteq DOMAIN Files \ Now.pending
      <4>1. StaysFrom(i)' = {path \in DOMAIN past[i].files \ {Class} : path \notin past[i].pending}
        BY <3>1, <1>a
      <4>2. i # N => StaysFrom(i) \subseteq DOMAIN Files \ Now.pending
        BY <3>1, <1>1 DEF FilesStay
      <4>. QED
        BY <4>1, <4>2, <1>1 DEF StaysFrom
    <3>3. StaysFrom(i)' \subseteq DOMAIN files \ pending
      <4>1. Class \notin StaysFrom(i)'
        BY <3>1, <1>a
      <4>. QED
        BY <3>2, <4>1 DEF Evolves
    <3>4. \A path \in Pointers \cap DOMAIN past[i].files :
            path \in DOMAIN Files /\ past[i].files[path] <= Files[path]
      BY <3>1, <1>1 DEF FilesStay
    <3>5. \A path \in Pointers \cap DOMAIN past[i].files : path # Class /\ past[i].files[path] \in Nat
      <4>1. StateOK(i)
        BY <3>1, <1>1 DEF PastInv, Instants
      <4>. QED
        BY <4>1, PathFacts DEF StateOK
    <3>6. \A path \in Pointers \cap DOMAIN Files : Files[path] \in Nat
      BY <1>1, PathFacts DEF PastInv, StateOK
    <3>7. \A path \in Pointers \cap DOMAIN past[i].files :
            path \in DOMAIN files /\ past[i].files[path] <= files[path]
      BY <3>4, <3>5, <3>6 DEF Evolves
    <3>. QED
      BY <3>1, <3>3, <3>7, <2>2, <1>2, <1>3 DEF FilesStay
  <2>3. CASE i = N + 1 /\ j = N + 1
    <3>1. \A path \in Pointers \cap DOMAIN files : files[path] \in Nat
      BY DEF Evolves
    <3>. QED
      BY <3>1, <2>3, <1>2, <1>3 DEF FilesStay
  <2>. QED
    BY <2>1, <2>2, <2>3, <1>1
<1>8. ASSUME NEW i \in 1 .. N + 1, NEW j \in i .. N + 1, NEW k \in i .. j
      PROVE  ContentsDoNotReturn(i, k, j)'
  <2>1. CASE j <= N
    <3>1. ContentsDoNotReturn(i, k, j)
      BY <2>1, <1>1 DEF PastInv, Instants
    <3>2. i \in 1 .. N /\ j \in 1 .. N /\ k \in 1 .. N
      BY <2>1, <1>1
    <3>. QED
      BY <3>1, <3>2, <1>2 DEF ContentsDoNotReturn, Holds
  <2>2. CASE k <= N /\ j = N + 1
    <3>1. i \in 1 .. N /\ k \in 1 .. N /\ ContentsDoNotReturn(i, k, N)
      BY <2>2, <1>1 DEF PastInv, Instants
    <3>2. SUFFICES ASSUME NEW path \in DOMAIN past[i].files \ {Class},
                          path \in DOMAIN files, files[path] = past[i].files[path], files[path] # Torn
                   PROVE  Holds(k, path, past[i].files[path])
      BY <3>1, <2>2, <1>2, <1>3 DEF ContentsDoNotReturn, Holds
    <3>3. StateOK(i) /\ FilesStay(i, N)
      BY <3>1, <1>1 DEF PastInv, Instants
    <3>4. path \in DOMAIN Files /\ files[path] = Files[path]
      <4>1. CASE path \notin Pointers
        <5>1. past[i].files[path] # N + 1
          BY <4>1, <3>1, <3>2, <3>3, <1>1 DEF StateOK
        <5>2. path \in DOMAIN files \ (Pointers \cup {Class}) /\ files[path] # Torn /\ files[path] # N + 1
          BY <4>1, <5>1, <3>2
        <5>. QED
          BY <5>2, <1>1 DEF Evolves
      <4>2. CASE path \in Pointers
        <5>1. path \in DOMAIN Files /\ past[i].files[path] <= Files[path]
          BY <4>2, <3>3, <1>1 DEF FilesStay
        <5>2. Files[path] <= files[path]
          BY <4>2, <5>1, <3>2 DEF Evolves
        <5>3. past[i].files[path] \in Nat /\ Files[path] \in Nat
          BY <4>2, <5>1, <3>3, <1>1, PathFacts DEF PastInv, StateOK
        <5>. QED
          BY <5>1, <5>2, <5>3, <3>2
      <4>. QED
        BY <4>1, <4>2
    <3>. QED
      BY <3>1, <3>2, <3>4, <1>1 DEF ContentsDoNotReturn, Holds
  <2>3. CASE k = N + 1 /\ j = N + 1
    BY <2>3 DEF ContentsDoNotReturn
  <2>. QED
    BY <2>1, <2>2, <2>3, <1>1
<1>9. PastInv'
  <2>1. past' # <<>>
    BY <1>2, <1>1
  <2>2. \A k \in 1 .. N + 1 : StateOK(k)'
    BY <1>4, <1>5, <1>1
  <2>. QED
    BY <2>1, <2>2, <1>2, <1>7, <1>8 DEF PastInv, Instants
<1>. QED
  BY <1>6, <1>9

LEMMA PastSettles ==
  ASSUME PastInv, NEW path \in Now.pending, path[1] \notin Histories,
         past' = [past EXCEPT ![Len(past)] = [files |-> Files, pending |-> Now.pending \ {path}]]
  PROVE  PastInv' /\ PastMoves
<1>0. PICK N : N = Len(past)
  OBVIOUS
<1>1. /\ N \in Nat /\ N >= 1 /\ N \in Instants /\ DOMAIN past = 1 .. N
      /\ Files = past[N].files /\ Now.pending = past[N].pending /\ N = Len(past)
  BY <1>0, PastFacts DEF Instants
<1>. DEFINE last == [files |-> Files, pending |-> Now.pending \ {path}]
<1>2. /\ Len(past') = N /\ DOMAIN past' = 1 .. N
      /\ \A k \in 1 .. N : past'[k] = IF k = N THEN last ELSE past[k]
      /\ past' \in Seq({past'[k] : k \in DOMAIN past'})
  <2>. DEFINE S == {past[k] : k \in DOMAIN past} \cup {last}
  <2>1. past \in Seq(S)
    BY DEF PastInv
  <2>2. past' = [past EXCEPT ![N] = last]
    BY <1>1
  <2>3. /\ past' \in Seq(S) /\ Len(past') = N
        /\ \A k \in 1 .. N : past'[k] = IF k = N THEN last ELSE past[k]
    BY <2>1, <2>2, <1>1, ExceptSeq
  <2>4. DOMAIN past' = 1 .. N
    BY <2>3, LenProperties
  <2>5. \A k \in 1 .. N : past'[k] \in {past'[j] : j \in DOMAIN past'}
    BY <2>4
  <2>6. past' \in Seq({past'[k] : k \in DOMAIN past'})
    <3>. DEFINE T == {past'[k] : k \in DOMAIN past'}
    <3>1. past' \in [1 .. N -> S]
      BY <2>3, LenProperties
    <3>2. past' \in [1 .. N -> T]
      BY <3>1, <2>5
    <3>3. N \in Nat
      BY <1>1
    <3>. HIDE DEF T
    <3>4. past' \in UNION {[1 .. n -> T] : n \in Nat}
      BY <3>2, <3>3
    <3>5. past' \in Seq(T)
      BY <3>4, SeqDef, Zenon
    <3>. QED
      BY <3>5 DEF T
  <2>. QED
    BY <2>3, <2>4, <2>6
<1>3. last.files = Files /\ last.pending = Now.pending \ {path}
  BY <1>1, PastFacts
<1>. HIDE DEF last
<1>4. \A k \in 1 .. N : past'[k].files = past[k].files /\ past'[k].pending \subseteq past[k].pending
  BY <1>1, <1>2, <1>3
<1>5. ASSUME NEW k \in 1 .. N
      PROVE  StaysFrom(k)' = StaysFrom(k)
  <2>1. CASE k = N
    BY <2>1, <1>4, <1>2, <1>1 DEF StaysFrom
  <2>2. CASE k # N
    BY <2>2, <1>2, <1>1 DEF StaysFrom
  <2>. QED
    BY <2>1, <2>2
<1>6. PastMoves
  BY <1>1, <1>2, <1>4, <1>5 DEF PastMoves, Instants
<1>7. ASSUME NEW k \in 1 .. N
      PROVE  StateOK(k)'
  <2>1. StateOK(k)
    BY <1>1 DEF PastInv, Instants
  <2>. QED
    BY <2>1, <1>4 DEF StateOK
<1>8. ASSUME NEW i \in 1 .. N, NEW j \in i .. N
      PROVE  FilesStay(i, j)' /\ \A k \in i .. j : ContentsDoNotReturn(i, k, j)'
  <2>1. FilesStay(i, j) /\ \A k \in i .. j : ContentsDoNotReturn(i, k, j)
    BY <1>1 DEF PastInv, Instants
  <2>2. i \in 1 .. N /\ j \in 1 .. N /\ \A k \in i .. j : k \in 1 .. N
    BY <1>1
  <2>3. FilesStay(i, j)'
    BY <2>1, <2>2, <1>1, <1>2, <1>4, <1>5 DEF FilesStay
  <2>4. \A k \in i .. j : ContentsDoNotReturn(i, k, j)'
    BY <2>1, <2>2, <1>4 DEF ContentsDoNotReturn, Holds
  <2>. QED
    BY <2>3, <2>4
<1>9. PastInv'
  BY <1>1, <1>2, <1>7, <1>8 DEF PastInv, Instants
<1>. QED
  BY <1>6, <1>9

-----------------------------------------------------------------------------
(* The writers' actions. *)

Untouched == UNCHANGED <<catalog, lock, pc, call, report, calls, disturbances, cleared>>

LEMMA BecomesMoves ==
  ASSUME PastInv, NEW files, NEW pending, Becomes(files, pending), Evolves(files, pending)
  PROVE  PastInv' /\ PastMoves /\ Untouched
BY PastGrows DEF Becomes, Untouched, bounds

LEMMA StateNow ==
  ASSUME PastInv
  PROVE  /\ DOMAIN Files \subseteq BasePaths \cup {Class}
         /\ Now.pending \subseteq DOMAIN Files \ (Pointers \cup {Class})
         /\ \A path \in DOMAIN Files \cap Pointers : Files[path] \in Nat
         /\ \A h \in Histories : Selected(Files, h) \in Nat
<1>1. StateOK(Len(past))
  BY PastFacts DEF PastInv
<1>2. /\ DOMAIN Files \subseteq BasePaths \cup {Class}
      /\ Now.pending \subseteq DOMAIN Files \ (Pointers \cup {Class})
      /\ \A path \in DOMAIN Files \cap Pointers : Files[path] \in Nat
  BY <1>1, PastFacts, PathFacts DEF StateOK
<1>. QED
  BY <1>2, PathFacts DEF Selected

LEMMA CreateMoves ==
  ASSUME PastInv, NEW path \in BasePaths \ Pointers, Create(path)
  PROVE  PastInv' /\ PastMoves /\ Untouched
<1>. DEFINE files == Put(path, Torn)
<1>1. /\ DOMAIN files = DOMAIN Files \cup {path} /\ files[path] = Torn
      /\ \A q \in DOMAIN Files : files[q] = Files[q]
  BY DEF Create, Put
<1>. HIDE DEF files
<1>2. Evolves(files, Now.pending \cup {path})
  BY <1>1, StateNow, PathFacts DEF Evolves, Create
<1>. QED
  BY <1>2, BecomesMoves DEF Create, files

LEMMA WriteMoves ==
  ASSUME PastInv, Write
  PROVE  PastInv' /\ PastMoves /\ Untouched
<1>1. ASSUME NEW h \in Histories, CreateRevision(h)
      PROVE  PastInv' /\ PastMoves /\ Untouched
  <2>1. <<h, Selected(Files, h) + 1>> \in BasePaths \ Pointers
    <3>1. Selected(Files, h) \in Nat
      BY StateNow
    <3>. QED
      BY <3>1 DEF BasePaths, Pointers, Pointer
  <2>. QED
    BY <1>1, <2>1, CreateMoves DEF CreateRevision
<1>2. ASSUME NEW h \in Histories, MovePointer(h)
      PROVE  PastInv' /\ PastMoves /\ Untouched
  <2>. DEFINE n == Selected(Files, h) + 1
              path == <<h, n>>
              files == Put(Pointer(h), n)
  <2>1. path \in Now.pending /\ Becomes(files, Now.pending \ {path})
    BY <1>2 DEF MovePointer
  <2>2. n \in Nat /\ (Pointer(h) \in DOMAIN Files => Files[Pointer(h)] \in Nat /\ n >= Files[Pointer(h)])
    BY StateNow DEF Selected
  <2>3. /\ DOMAIN files = DOMAIN Files \cup {Pointer(h)} /\ files[Pointer(h)] = n
        /\ \A q \in DOMAIN Files \ {Pointer(h)} : files[q] = Files[q]
    BY DEF Put
  <2>4. Pointer(h) \in Pointers /\ Pointers \subseteq BasePaths /\ Class \notin Pointers
    BY PathFacts
  <2>5. \A q \in DOMAIN Files \cap Pointers : Files[q] >= Files[q]
    BY StateNow
  <2>. HIDE DEF files, n, path
  <2>6. Evolves(files, Now.pending \ {path})
    BY <2>1, <2>2, <2>3, <2>4, <2>5, StateNow DEF Evolves
  <2>. QED
    BY <2>1, <2>6, BecomesMoves
<1>3. ASSUME NEW p \in Publications, CreatePublication(p) \/ CreateWithdrawal(p)
      PROVE  PastInv' /\ PastMoves /\ Untouched
  <2>1. <<"publications", p>> \in BasePaths \ Pointers /\ <<"withdrawals", p>> \in BasePaths \ Pointers
    BY PathFacts DEF BasePaths, Pointers, Pointer
  <2>. QED
    BY <1>3, <2>1, CreateMoves DEF CreatePublication, CreateWithdrawal
<1>4. ASSUME NEW path \in Now.pending, Fill(path)
      PROVE  PastInv' /\ PastMoves /\ Untouched
  <2>. DEFINE files == Put(path, Len(past) + 1)
  <2>1. Becomes(files, Now.pending)
    BY <1>4 DEF Fill
  <2>2. path \in DOMAIN Files \ (Pointers \cup {Class})
    BY StateNow
  <2>3. DOMAIN files = DOMAIN Files /\ files[path] = Len(past) + 1 /\ \A q \in DOMAIN Files \ {path} : files[q] = Files[q]
    BY <2>2 DEF Put
  <2>5. \A q \in DOMAIN Files \cap Pointers : Files[q] >= Files[q]
    BY StateNow
  <2>. HIDE DEF files
  <2>6. Evolves(files, Now.pending)
    BY <2>2, <2>3, <2>5, StateNow DEF Evolves
  <2>. QED
    BY <2>1, <2>6, BecomesMoves
<1>5. ASSUME NEW path \in Now.pending, TakeBack(path)
      PROVE  PastInv' /\ PastMoves /\ Untouched
  <2>. DEFINE files == [q \in DOMAIN Files \ {path} |-> Files[q]]
  <2>1. Becomes(files, Now.pending \ {path})
    BY <1>5 DEF TakeBack
  <2>2. path \in DOMAIN Files \ (Pointers \cup {Class})
    BY StateNow
  <2>3. DOMAIN files = DOMAIN Files \ {path} /\ \A q \in DOMAIN files : files[q] = Files[q]
    OBVIOUS
  <2>5. \A q \in DOMAIN Files \cap Pointers : Files[q] >= Files[q]
    BY StateNow
  <2>. HIDE DEF files
  <2>6. Evolves(files, Now.pending \ {path})
    BY <2>2, <2>3, <2>5, StateNow DEF Evolves
  <2>. QED
    BY <2>1, <2>6, BecomesMoves
<1>6. ASSUME NEW path \in Now.pending, Settle(path)
      PROVE  PastInv' /\ PastMoves /\ Untouched
  BY <1>6, PastSettles DEF Settle, Untouched, bounds
<1>7. ASSUME NEW content, ReplaceClass(content)
      PROVE  PastInv' /\ PastMoves /\ Untouched
  <2>. DEFINE files == Put(Class, content)
  <2>1. Becomes(files, Now.pending)
    BY <1>7 DEF ReplaceClass
  <2>2. Class \notin Pointers
    BY PathFacts
  <2>3. DOMAIN files = DOMAIN Files \cup {Class} /\ \A q \in DOMAIN Files \ {Class} : files[q] = Files[q]
    BY DEF Put
  <2>5. \A q \in DOMAIN Files \cap Pointers : Files[q] >= Files[q]
    BY StateNow
  <2>. HIDE DEF files
  <2>6. Evolves(files, Now.pending)
    BY <2>2, <2>3, <2>5, StateNow DEF Evolves
  <2>. QED
    BY <2>1, <2>6, BecomesMoves
<1>. QED
  BY <1>1, <1>2, <1>3, <1>4, <1>5, <1>6, <1>7 DEF Write

-----------------------------------------------------------------------------
(* What is known of the past is not lost when the files change. *)

LEMMA MovesFacts ==
  ASSUME PastInv, PastMoves
  PROVE  /\ Len(past) \in Nat /\ Len(past') \in Nat /\ Len(past) <= Len(past') /\ Instants \subseteq Instants'
         /\ \A k \in Instants : \A path, content : Holds(k, path, content)' <=> Holds(k, path, content)
         /\ Len(past') = Len(past) => Files' = Files
         /\ \A k \in Instants : StaysFrom(k)' \subseteq StaysFrom(k)
<1>1. Len(past) \in Nat /\ Len(past) \in Instants /\ Files = past[Len(past)].files
  BY PastFacts
<1>2. Files' = past'[Len(past')].files
  BY DEF Files, Now
<1>3. Len(past') = Len(past) => Files' = Files
  BY <1>1, <1>2 DEF PastMoves
<1>4. \A k \in Instants : \A path, content : Holds(k, path, content)' <=> Holds(k, path, content)
  BY DEF PastMoves, Holds
<1>. QED
  BY <1>1, <1>3, <1>4 DEF PastMoves, Instants

LEMMA WereStays ==
  ASSUME PastInv, PastMoves, NEW files, NEW paths, NEW low \in Nat, low >= 1, NEW high \in Instants,
         Were(files, paths, low, high)
  PROVE  Were(files, paths, low, high)'
<1>1. \A k \in low .. high : k \in Instants
  BY MovesFacts DEF Instants
<1>. QED
  BY <1>1, MovesFacts DEF Were

LEMMA WereSince ==
  ASSUME PastInv, PastMoves, NEW files, NEW paths, NEW low \in Instants,
         Were(files, paths, low, Len(past))
  PROVE  Were(files, paths, low, Len(past))'
<1>1. \A k \in low .. Len(past) : k \in Instants /\ k \in low .. Len(past')
  BY MovesFacts DEF Instants
<1>. QED
  BY <1>1, MovesFacts DEF Were

LEMMA HasListedStays ==
  ASSUME PastInv, PastMoves, NEW c, NEW k \in Instants, HasListed(c, k)
  PROVE  HasListed(c, k)'
BY MovesFacts DEF HasListed

LEMMA CollectingStays ==
  ASSUME PastInv, PastMoves, NEW c, NEW phase, phase \in Collecting, c.begin \in Instants, CollectingFits(c, phase)
  PROVE  CollectingFits(c, phase)'
<1>1. \A path \in DOMAIN c.read : \E k \in c.begin .. Len(past') : Holds(k, path, c.read[path])'
  <2>1. SUFFICES ASSUME NEW path \in DOMAIN c.read
                 PROVE  \E k \in c.begin .. Len(past') : Holds(k, path, c.read[path])'
    OBVIOUS
  <2>2. PICK k \in c.begin .. Len(past) : Holds(k, path, c.read[path])
    BY DEF CollectingFits
  <2>3. k \in Instants /\ k \in c.begin .. Len(past')
    BY MovesFacts DEF Instants
  <2>. QED
    BY <2>2, <2>3, MovesFacts
<1>2. phase \in {"list", "read"} /\ c.begin = Len(past') => c.listed \subseteq DOMAIN Files'
  <2>1. c.begin = Len(past') => c.begin = Len(past) /\ Files' = Files
    BY MovesFacts DEF Instants
  <2>. QED
    BY <2>1 DEF CollectingFits
<1>3. StaysFrom(c.begin)' \subseteq StaysFrom(c.begin)
  BY MovesFacts
<1>4. HasListed(c, c.begin) => HasListed(c, c.begin)'
  BY HasListedStays
<1>. QED
  BY <1>1, <1>2, <1>3, <1>4 DEF CollectingFits

LEMMA CheckingStays ==
  ASSUME PastInv, PastMoves, NEW c, NEW phase, phase \in Checking, c.begin \in Instants, CheckingFits(c, phase)
  PROVE  CheckingFits(c, phase)'
<1>1. PICK m \in c.begin .. Len(past) : CheckedAt(c, phase, m)
  BY DEF CheckingFits
<1>2. m \in Instants /\ m \in c.begin .. Len(past') /\ c.begin \in Nat /\ c.begin >= 1
  BY MovesFacts DEF Instants
<1>3. Were(c.read, DOMAIN c.read, c.begin, m)'
  BY <1>1, <1>2, WereStays DEF CheckedAt
<1>4. ClassFits(c.read, m)'
  <2>1. past'[m].files = past[m].files
    BY <1>2 DEF PastMoves
  <2>. QED
    BY <1>1, <2>1 DEF CheckedAt, ClassFits, Holds
<1>5. phase = "again" => Were(c.read, c.listed, m, Len(past))'
  BY <1>1, <1>2, WereSince DEF CheckedAt
<1>6. phase \in {"relist", "present", "replace"} => Were(c.read, DOMAIN c.read, m, Len(past))'
  BY <1>1, <1>2, WereSince DEF CheckedAt
<1>7. HasListed(c, m) => HasListed(c, m)'
  BY <1>2, HasListedStays
<1>8. StaysFrom(m)' \subseteq StaysFrom(m) /\ StaysFrom(c.begin)' \subseteq StaysFrom(c.begin)
  BY <1>2, MovesFacts
<1>9. phase = "compare" /\ c.begin = Len(past') => c.read = Sources(Files')
  <2>1. c.begin = Len(past') => c.begin = Len(past) /\ Files' = Files
    BY MovesFacts DEF Instants
  <2>. QED
    BY <1>1, <2>1 DEF CheckedAt
<1>10. CheckedAt(c, phase, m)'
  BY <1>1, <1>3, <1>4, <1>5, <1>6, <1>7, <1>8, <1>9 DEF CheckedAt
<1>. QED
  BY <1>2, <1>10 DEF CheckingFits

LEMMA StoredStays ==
  ASSUME PastInv, PastMoves, NEW stored, NEW begin \in Instants, StoredFits(stored, begin)
  PROVE  StoredFits(stored, begin)'
BY WereStays DEF StoredFits

LEMMA CallStays ==
  ASSUME PastInv, PastMoves, NEW c, NEW phase, CallFits(c, phase)
  PROVE  CallFits(c, phase)'
<1>1. CallOK(c, phase)'
  <2>1. phase # "idle" => c.begin \in Instants /\ c.begin \in Instants'
    BY MovesFacts DEF CallFits, CallOK
  <2>2. c.op = "audit" => StoredFits(c.stored, c.begin)'
    BY <2>1, StoredStays DEF CallFits, CallOK
  <2>. QED
    BY <2>1, <2>2 DEF CallFits, CallOK
<1>2. phase \in Collecting \cup Checking => c.begin \in Instants
  BY DEF CallFits, CallOK, Collecting, Checking
<1>3. CollectingFits(c, phase)'
  BY <1>2, CollectingStays DEF CallFits, CollectingFits
<1>4. CheckingFits(c, phase)'
  BY <1>2, CheckingStays DEF CallFits, CheckingFits
<1>. QED
  BY <1>1, <1>3, <1>4 DEF CallFits

LEMMA ReportStays ==
  ASSUME PastInv, PastMoves, NEW answer, ReportFits(answer)
  PROVE  ReportFits(answer)'
<1>. DEFINE sources == answer.stored.sources
            Dated == 1 <= answer.begin /\ answer.begin <= answer.end /\ answer.end <= Len(past)
<1>1. answer.begin \in Nat /\ answer.end \in Nat
  BY DEF ReportFits
<1>2. Dated => Dated' /\ answer.begin \in Instants /\ \A k \in answer.begin .. answer.end : k \in Instants
  BY <1>1, MovesFacts DEF Instants
<1>3. answer.answer = "ready" =>
        /\ Were(sources, DOMAIN sources, answer.begin, answer.begin)'
        /\ StaysFrom(answer.begin)' \subseteq DOMAIN sources
        /\ Class \in DOMAIN sources => \E k \in answer.begin .. answer.end : Holds(k, Class, sources[Class])'
  <2>1. SUFFICES ASSUME answer.answer = "ready"
                 PROVE  /\ Were(sources, DOMAIN sources, answer.begin, answer.begin)'
                        /\ StaysFrom(answer.begin)' \subseteq DOMAIN sources
                        /\ Class \in DOMAIN sources =>
                             \E k \in answer.begin .. answer.end : Holds(k, Class, sources[Class])'
    OBVIOUS
  <2>2. /\ Were(sources, DOMAIN sources, answer.begin, answer.begin)
        /\ StaysFrom(answer.begin) \subseteq DOMAIN sources
        /\ Class \in DOMAIN sources => \E k \in answer.begin .. answer.end : Holds(k, Class, sources[Class])
        /\ Dated
    BY <2>1 DEF ReportFits
  <2>3. Were(sources, DOMAIN sources, answer.begin, answer.begin)'
    BY <2>2, <1>1, <1>2, WereStays
  <2>4. StaysFrom(answer.begin)' \subseteq DOMAIN sources
    BY <2>2, <1>2, MovesFacts
  <2>. QED
    BY <2>2, <2>3, <2>4, <1>2, MovesFacts
<1>4. Dated => past'[answer.begin].files = past[answer.begin].files
  BY <1>2 DEF PastMoves
<1>. QED
  BY <1>1, <1>2, <1>3, <1>4 DEF ReportFits

LEMMA CatalogStays ==
  ASSUME PastInv, PastMoves, CatalogFits, UNCHANGED catalog
  PROVE  CatalogFits'
<1>1. CASE catalog = None
  BY <1>1 DEF CatalogFits
<1>2. CASE catalog # None
  <2>1. PICK k \in catalog.from .. catalog.at :
          /\ Were(catalog.sources, DOMAIN catalog.sources, k, k)
          /\ StaysFrom(k) \subseteq DOMAIN catalog.sources
          /\ ClassFits(catalog.sources, k)
    BY <1>2 DEF CatalogFits
  <2>2. catalog.from \in Instants /\ catalog.at \in Instants /\ catalog.from <= catalog.at
    BY <1>2 DEF CatalogFits
  <2>3. k \in Instants /\ k \in Nat /\ k >= 1
    BY <2>2, MovesFacts DEF Instants
  <2>4. Were(catalog.sources, DOMAIN catalog.sources, k, k)'
    <3>1. PICK sources : sources = catalog.sources
      OBVIOUS
    <3>2. Were(sources, DOMAIN sources, k, k)'
      BY <3>1, <2>1, <2>3, WereStays
    <3>. QED
      BY <3>1, <3>2 DEF Were
  <2>5. StaysFrom(k)' \subseteq DOMAIN catalog'.sources
    BY <2>1, <2>3, MovesFacts
  <2>6. ClassFits(catalog.sources, k)'
    <3>1. past'[k].files = past[k].files
      BY <2>3 DEF PastMoves
    <3>. QED
      BY <3>1, <2>1 DEF ClassFits, Holds
  <2>7. Instants \subseteq Instants'
    BY MovesFacts
  <2>8. Projectable(BaseOf(catalog'.sources))
    BY <1>2 DEF CatalogFits
  <2>. QED
    BY <2>2, <2>4, <2>5, <2>6, <2>7, <2>8 DEF CatalogFits
<1>. QED
  BY <1>1, <1>2

-----------------------------------------------------------------------------
(* Class metadata has no part in what makes the other files a projection. *)

LEMMA BaseFacts ==
  ASSUME NEW files
  PROVE  /\ \A h : h # "class" => Revisions(BaseOf(files), h) = Revisions(files, h)
         /\ Published(BaseOf(files)) = Published(files) /\ Withdrawn(BaseOf(files)) = Withdrawn(files)
         /\ HasWork(BaseOf(files)) <=> HasWork(files)
         /\ DOMAIN BaseOf(files) = DOMAIN files \ {Class}
         /\ \A path \in DOMAIN files \ {Class} : BaseOf(files)[path] = files[path]
<1>1. /\ DOMAIN BaseOf(files) = DOMAIN files \ {Class}
      /\ \A path \in DOMAIN files \ {Class} : BaseOf(files)[path] = files[path]
  BY DEF BaseOf
<1>2. ASSUME NEW h, h # "class"
      PROVE  {q \in DOMAIN BaseOf(files) : q[1] = h} = {q \in DOMAIN files : q[1] = h}
  BY <1>1, <1>2, PathFacts
<1>3. \A h : h # "class" => Revisions(BaseOf(files), h) = Revisions(files, h)
  BY <1>2 DEF Revisions
<1>4. Published(BaseOf(files)) = Published(files) /\ Withdrawn(BaseOf(files)) = Withdrawn(files)
  BY <1>2 DEF Published, Withdrawn, Ids
<1>5. HasWork(BaseOf(files)) <=> HasWork(files)
  BY <1>3, <1>4 DEF HasWork
<1>. QED
  BY <1>1, <1>3, <1>4, <1>5

LEMMA BaseIsProjectable ==
  ASSUME NEW files, Projectable(files)
  PROVE  Projectable(BaseOf(files))
<1>1. \A path \in DOMAIN BaseOf(files) : BaseOf(files)[path] # Torn
  BY BaseFacts DEF Projectable
<1>2. \A h \in Histories :
        /\ h # "class" /\ Revisions(BaseOf(files), h) = Revisions(files, h)
        /\ Pointer(h) \in DOMAIN BaseOf(files) <=> Pointer(h) \in DOMAIN files
        /\ Pointer(h) \in DOMAIN files => BaseOf(files)[Pointer(h)] = files[Pointer(h)]
  BY BaseFacts, PathFacts
<1>3. Revisions(BaseOf(files), "registrations") = Revisions(files, "registrations")
  BY BaseFacts
<1>4. \A p : SeriesOf(BaseOf(files), p) = SeriesOf(files, p)
  BY BaseFacts DEF SeriesOf
<1>5. SeriesProjectable(BaseOf(files))
  BY <1>4, BaseFacts DEF Projectable, SeriesProjectable
<1>6. \A h \in Histories :
       LET revisions == Revisions(BaseOf(files), h)
       IN /\ \A step \in Consecutive(revisions) : Transition(h, step[1], step[2])
          /\ Pointer(h) \in DOMAIN BaseOf(files) <=> revisions # {}
          /\ revisions # {} => BaseOf(files)[Pointer(h)] = Latest(revisions)
  <2>1. SUFFICES ASSUME NEW h \in Histories
                 PROVE  /\ \A step \in Consecutive(Revisions(files, h)) : Transition(h, step[1], step[2])
                        /\ Pointer(h) \in DOMAIN BaseOf(files) <=> Revisions(files, h) # {}
                        /\ Revisions(files, h) # {} => BaseOf(files)[Pointer(h)] = Latest(Revisions(files, h))
    BY <1>2
  <2>2. /\ \A step \in Consecutive(Revisions(files, h)) : Transition(h, step[1], step[2])
        /\ Pointer(h) \in DOMAIN files <=> Revisions(files, h) # {}
        /\ Revisions(files, h) # {} => files[Pointer(h)] = Latest(Revisions(files, h))
    BY DEF Projectable
  <2>. QED
    BY <2>2, <1>2
<1>. QED
  BY <1>1, <1>3, <1>5, <1>6, BaseFacts DEF Projectable

LEMMA SourcesFacts ==
  ASSUME NEW files
  PROVE  /\ DOMAIN Sources(files) \ {Class} = DOMAIN files \ {Class}
         /\ Class \in DOMAIN Sources(files) <=> Class \in DOMAIN files /\ HasWork(files)
         /\ \A path \in DOMAIN Sources(files) : Sources(files)[path] = files[path]
         /\ BaseOf(Sources(files)) = BaseOf(files)
<1>1. /\ DOMAIN Sources(files) = {q \in DOMAIN files : q # Class \/ HasWork(files)}
      /\ \A path \in DOMAIN Sources(files) : Sources(files)[path] = files[path]
  BY DEF Sources
<1>2. DOMAIN Sources(files) \ {Class} = DOMAIN files \ {Class}
  BY <1>1
<1>3. BaseOf(Sources(files)) = BaseOf(files)
  BY <1>1, <1>2 DEF BaseOf
<1>. QED
  BY <1>1, <1>2, <1>3

(* A catalog that makes sense was not made of files that do not. *)
LEMMA SoundIsOther ==
  ASSUME NEW sources, Projectable(BaseOf(sources)), NEW files, ~ Projectable(BaseOf(files))
  PROVE  sources # Sources(files)
BY SourcesFacts

LEMMA LoadedIsOther ==
  ASSUME NEW sources, ClassLoads(sources), NEW files, HasWork(files), Class \in DOMAIN files, files[Class] = Torn
  PROVE  sources # Sources(files)
<1>1. Class \in DOMAIN Sources(files) /\ Sources(files)[Class] = Torn
  BY SourcesFacts
<1>2. HasWork(Sources(files))
  BY SourcesFacts, BaseFacts
<1>. QED
  BY <1>1, <1>2 DEF ClassLoads

-----------------------------------------------------------------------------
(* The calls: what a reading step adds to what is known. *)

LEMMA StaysNow ==
  ASSUME PastInv, NEW k \in Instants
  PROVE  /\ StaysFrom(k) \subseteq DOMAIN Files \ {Class}
         /\ k = Len(past) => StaysFrom(k) = DOMAIN Files \ {Class}
<1>1. Class \notin StaysFrom(k)
  BY DEF StaysFrom
<1>2. k = Len(past) => StaysFrom(k) = DOMAIN Files \ {Class}
  BY PastFacts DEF StaysFrom
<1>3. FilesStay(k, Len(past))
  <2>1. Len(past) \in k .. Len(past)
    BY PastFacts DEF Instants
  <2>. QED
    BY <2>1 DEF PastInv
<1>4. StaysFrom(k) \subseteq DOMAIN Files
  BY <1>2, <1>3, PastFacts DEF FilesStay
<1>. QED
  BY <1>1, <1>2, <1>4

LEMMA ListingContinues ==
  ASSUME PastInv, NEW c, NEW k \in Instants, c.step \in 1 .. Len(Listing), HasListed(c, k),
         NEW found, found.step = c.step + 1, found.listed = c.listed \cup Entries(Listing[c.step])
  PROVE  /\ HasListed(found, k)
         /\ c.step = Len(Listing) => StaysFrom(k) \subseteq found.listed
         /\ c.step # Len(Listing) => found.step \in 1 .. Len(Listing)
         /\ Entries(Listing[c.step]) \subseteq DOMAIN Files \ {Class}
<1>1. IsListingStep(Listing[c.step]) /\ Len(Listing) \in Nat
  BY ListingFacts
<1>2. DOMAIN Files \subseteq BasePaths \cup {Class}
  BY StateNow
<1>3. /\ Entries(Listing[c.step]) \subseteq DOMAIN Files \ {Class}
      /\ \A path \in DOMAIN Files \ {Class} : Covers(Listing[c.step], path) => path \in Entries(Listing[c.step])
  BY <1>1, <1>2, EntriesAreFiles
<1>4. StaysFrom(k) \subseteq DOMAIN Files \ {Class}
  BY StaysNow
<1>5. HasListed(found, k)
  <2>1. SUFFICES ASSUME NEW i \in 1 .. c.step, NEW path \in StaysFrom(k), Covers(Listing[i], path)
                 PROVE  path \in found.listed
    BY <1>1 DEF HasListed
  <2>2. CASE i = c.step
    BY <2>1, <2>2, <1>3, <1>4
  <2>3. CASE i # c.step
    BY <2>1, <2>3 DEF HasListed
  <2>. QED
    BY <2>2, <2>3
<1>6. c.step = Len(Listing) => StaysFrom(k) \subseteq found.listed
  <2>1. SUFFICES ASSUME c.step = Len(Listing), NEW path \in StaysFrom(k)
                 PROVE  path \in found.listed
    OBVIOUS
  <2>2. path \in BasePaths
    BY <1>2, <1>4
  <2>3. PICK i \in 1 .. Len(Listing) : Covers(Listing[i], path)
    BY <2>2, EveryPathIsCovered
  <2>4. i \in 1 .. found.step - 1
    BY <2>1, <1>1
  <2>. QED
    BY <2>3, <2>4, <1>5 DEF HasListed
<1>. QED
  BY <1>1, <1>3, <1>5, <1>6

(* A listing that meets half a history has met files that do not make sense, if they have not changed meanwhile. *)
LEMMA HalfHistoryIsWrong ==
  ASSUME PastInv, NEW c, c.step \in 1 .. Len(Listing), HasListed(c, Len(past)), c.listed \subseteq DOMAIN Files,
         Class \notin c.listed, HalfHistory(Listing[c.step], c.listed)
  PROVE  ~ Projectable(BaseOf(Files))
<1>1. IsListingStep(Listing[c.step])
  BY ListingFacts
<1>2. PICK h \in Histories : Listing[c.step] = <<"pointer", h>>
  BY <1>1 DEF HalfHistory, IsListingStep
<1>3. Pointer(h) \in DOMAIN Files <=> {path \in c.listed : path[1] = h} = {}
  BY <1>2 DEF HalfHistory
<1>4. c.step > 1 /\ Listing[c.step - 1] = <<"revisions", h>>
  BY <1>2, ListingFacts
<1>5. h # "class" /\ Pointer(h) # Class /\ Pointer(h) \in Pointers
  BY PathFacts
<1>6. Revisions(Files, h) # {} <=> {path \in c.listed : path[1] = h /\ path \notin Pointers} # {}
  <2>1. ASSUME NEW n \in Revisions(Files, h)
        PROVE  \E path \in c.listed : path[1] = h /\ path \notin Pointers
    <3>1. PICK path \in DOMAIN Files : path[1] = h /\ path[2] = n /\ n > 0
      BY DEF Revisions
    <3>2. path # Class /\ path \notin Pointers
      BY <3>1, <1>5, PathFacts DEF Pointers, Pointer
    <3>3. path \in StaysFrom(Len(past))
      BY <3>1, <3>2, StaysNow, PastFacts
    <3>4. Covers(<<"revisions", h>>, path)
      BY <3>1 DEF Covers
    <3>5. c.step - 1 \in 1 .. c.step - 1
      BY <1>4
    <3>. QED
      BY <3>1, <3>2, <3>3, <3>4, <3>5, <1>4 DEF HasListed
  <2>2. ASSUME NEW path \in c.listed, path[1] = h, path \notin Pointers
        PROVE  Revisions(Files, h) # {}
    <3>1. path \in BasePaths
      BY <2>2, StateNow
    <3>2. path[2] > 0
      BY <3>1, <2>2, NotPointer
    <3>3. path[2] \in Revisions(Files, h)
      BY <2>2, <3>2 DEF Revisions
    <3>. QED
      BY <3>3
  <2>. QED
    BY <2>1, <2>2
<1>7. \A path \in c.listed \cap Pointers : path[1] = h => path = Pointer(h)
  BY PathFacts DEF Pointers, Pointer
<1>8. ~ (Pointer(h) \in DOMAIN Files <=> Revisions(Files, h) # {})
  BY <1>3, <1>6, <1>7
<1>9. Revisions(BaseOf(Files), h) = Revisions(Files, h) /\ (Pointer(h) \in DOMAIN BaseOf(Files) <=> Pointer(h) \in DOMAIN Files)
  BY <1>5, BaseFacts
<1>. QED
  BY <1>8, <1>9 DEF Projectable

(* The call goes on with what it found, or it stops, an audit only at files that the catalog was not made of. *)
StopIsRight(c) == c.op = "audit" /\ c.begin = Len(past) => c.stored.sources # Sources(Files)
GoesOn(w, c, phase) ==
  /\ Continue(w, phase, c) /\ Reads
  /\ phase \in Collecting \cup Checking /\ CallFits(c, phase)
  /\ c.op = call[w].op /\ c.begin = call[w].begin
Outcome(w) ==
  \/ Stop(w) /\ StopIsRight(call[w])
  \/ \E c, phase : GoesOn(w, c, phase)

(* A call with another read, listed or step. *)
SameCall(c, d) ==
  /\ DOMAIN d = DOMAIN NoCall /\ d.read = [path \in DOMAIN d.read |-> d.read[path]]
  /\ d.op = c.op /\ d.begin = c.begin /\ d.stored = c.stored

LEMMA CallFields ==
  DOMAIN NoCall = {"op", "number", "begin", "quiet", "stored", "step", "listed", "read"}
BY DEF NoCall

LEMMA CallGoesOn ==
  ASSUME NEW c, NEW phase, CallOK(c, phase), phase \in Collecting \cup Checking,
         NEW d, NEW next, SameCall(c, d), next \in Collecting \cup Checking,
         next \in Checking \ {"compare"} => c.op = "build",
         next = "compare" => c.op = "audit"
  PROVE  CallOK(d, next)
<1>1. c.op \in {"build", "audit"} /\ c.begin \in Instants
  BY DEF CallOK, Collecting, Checking
<1>2. c.op = "audit" => StoredFits(d.stored, d.begin)
  BY DEF CallOK, SameCall
<1>. QED
  BY <1>1, <1>2 DEF CallOK, SameCall, Collecting, Checking

LEMMA StepOfListing ==
  ASSUME NEW c, DOMAIN c = DOMAIN NoCall, c.read = [path \in DOMAIN c.read |-> c.read[path]], NEW entries
  PROVE  LET found == [c EXCEPT !.step = @ + 1, !.listed = @ \cup entries]
         IN SameCall(c, found) /\ found.read = c.read /\ found.step = c.step + 1 /\ found.listed = c.listed \cup entries
BY CallFields DEF SameCall

LEMMA ListOutcome ==
  ASSUME PastInv, NEW w \in Workers, CallFits(call[w], pc[w]), _discover_base_paths(w)
  PROVE  Outcome(w)
<1>0. PICK c : c = call[w]
  OBVIOUS
<1>. DEFINE step == Listing[c.step]
            found == [c EXCEPT !.step = @ + 1, !.listed = @ \cup Entries(step)]
            next == IF c.step = Len(Listing) THEN "read" ELSE "list"
<1>1. /\ pc[w] = "list"
      /\ IF HalfHistory(step, c.listed) THEN Stop(w) ELSE Continue(w, next, found) /\ Reads
  BY <1>0 DEF _discover_base_paths
<1>2. CallOK(c, "list") /\ CollectingFits(c, "list")
  BY <1>0, <1>1 DEF CallFits
<1>3. /\ c.begin \in Instants /\ c.step \in 1 .. Len(Listing) /\ HasListed(c, c.begin)
      /\ Class \notin c.listed /\ DOMAIN c.read = {}
      /\ c.begin = Len(past) => c.listed \subseteq DOMAIN Files
  BY <1>2 DEF CallOK, CollectingFits, Collecting
<1>4. CASE HalfHistory(step, c.listed)
  <2>1. c.begin = Len(past) => ~ Projectable(BaseOf(Files))
    BY <1>3, <1>4, HalfHistoryIsWrong
  <2>2. c.op = "audit" => Projectable(BaseOf(c.stored.sources))
    BY <1>2 DEF CallOK, StoredFits
  <2>3. StopIsRight(c)
    BY <2>1, <2>2, SoundIsOther DEF StopIsRight
  <2>. QED
    BY <2>3, <1>0, <1>1, <1>4 DEF Outcome
<1>5. CASE ~ HalfHistory(step, c.listed)
  <2>1. SameCall(c, found) /\ found.read = c.read /\ found.step = c.step + 1 /\ found.listed = c.listed \cup Entries(step)
    BY <1>2, StepOfListing DEF CallOK
  <2>. HIDE DEF found
  <2>2. found.begin = c.begin /\ found.op = c.op
    BY <2>1 DEF SameCall
  <2>3. /\ HasListed(found, c.begin)
        /\ c.step = Len(Listing) => StaysFrom(c.begin) \subseteq found.listed
        /\ c.step # Len(Listing) => found.step \in 1 .. Len(Listing)
        /\ Entries(step) \subseteq DOMAIN Files \ {Class}
    BY <1>3, <2>1, ListingContinues
  <2>4. CollectingFits(found, next)
    BY <1>3, <2>1, <2>2, <2>3 DEF CollectingFits, Collecting
  <2>5. CallOK(found, next)
    BY <1>2, <2>1, CallGoesOn DEF Collecting, Checking
  <2>6. CheckingFits(found, next)
    BY DEF CheckingFits, Checking
  <2>7. GoesOn(w, found, next)
    BY <1>0, <1>1, <1>5, <2>2, <2>4, <2>5, <2>6 DEF GoesOn, CallFits, Collecting
  <2>. QED
    BY <2>7 DEF Outcome
<1>. QED
  BY <1>4, <1>5

LEMMA WithReadFacts ==
  ASSUME NEW read, NEW paths
  PROVE  LET taken == WithRead(read, paths)
         IN /\ DOMAIN taken = DOMAIN read \cup paths
            /\ taken = [path \in DOMAIN taken |-> taken[path]]
            /\ \A path \in DOMAIN read : taken[path] = read[path]
            /\ \A path \in paths \ DOMAIN read : taken[path] = Files[path]
BY DEF WithRead

(* Files there now are taken. *)
LEMMA Taken ==
  ASSUME PastInv, NEW c, CallOK(c, "read"), CollectingFits(c, "read"), NEW paths, paths \subseteq c.listed \cap DOMAIN Files
  PROVE  LET d == [c EXCEPT !.read = WithRead(@, paths)]
         IN /\ SameCall(c, d) /\ d.listed = c.listed /\ DOMAIN d.read = DOMAIN c.read \cup paths
            /\ CallOK(d, "read") /\ CollectingFits(d, "read")
            /\ paths = c.listed \ DOMAIN c.read => CallOK(d, "class") /\ CollectingFits(d, "class")
<1>. DEFINE d == [c EXCEPT !.read = WithRead(@, paths)]
            taken == WithRead(c.read, paths)
<1>0. /\ DOMAIN taken = DOMAIN c.read \cup paths
      /\ taken = [path \in DOMAIN taken |-> taken[path]]
      /\ \A path \in DOMAIN c.read : taken[path] = c.read[path]
      /\ \A path \in paths \ DOMAIN c.read : taken[path] = Files[path]
  BY WithReadFacts
<1>. HIDE DEF taken
<1>1. d.listed = c.listed /\ d.read = taken /\ SameCall(c, d)
  <2>1. DOMAIN c = {"op", "number", "begin", "quiet", "stored", "step", "listed", "read"} /\ DOMAIN c = DOMAIN NoCall
    BY CallFields DEF CallOK
  <2>2. d = [c EXCEPT !.read = taken]
    BY DEF taken
  <2>. HIDE DEF d
  <2>3. d.listed = c.listed /\ d.read = taken /\ d.op = c.op /\ d.begin = c.begin /\ d.stored = c.stored /\ DOMAIN d = DOMAIN c
    BY <2>1, <2>2
  <2>. QED
    BY <2>1, <2>3, <1>0 DEF SameCall
<1>. HIDE DEF d
<1>2. DOMAIN d.read = DOMAIN c.read \cup paths
  BY <1>0, <1>1
<1>3. \A path \in DOMAIN d.read : \E k \in c.begin .. Len(past) : Holds(k, path, d.read[path])
  <2>1. \A path \in DOMAIN c.read : d.read[path] = c.read[path] /\ \E k \in c.begin .. Len(past) : Holds(k, path, c.read[path])
    BY <1>0, <1>1 DEF CollectingFits, Collecting
  <2>2. \A path \in paths \ DOMAIN c.read : Holds(Len(past), path, d.read[path])
    BY <1>0, <1>1, PastFacts DEF Holds
  <2>3. Len(past) \in c.begin .. Len(past)
    BY PastFacts DEF CallOK, Instants
  <2>. QED
    BY <1>2, <2>1, <2>2, <2>3
<1>4. d.begin = c.begin
  BY <1>1 DEF SameCall
<1>5. CollectingFits(d, "read")
  BY <1>1, <1>2, <1>3, <1>4 DEF CollectingFits, Collecting
<1>6. paths = c.listed \ DOMAIN c.read => CollectingFits(d, "class")
  BY <1>1, <1>2, <1>3, <1>4 DEF CollectingFits, Collecting
<1>7. CallOK(d, "read") /\ CallOK(d, "class")
  BY <1>1, CallGoesOn DEF Collecting, Checking
<1>. QED
  BY <1>1, <1>2, <1>5, <1>6, <1>7 DEF d

LEMMA ReadOutcome ==
  ASSUME PastInv, NEW w \in Workers, CallFits(call[w], pc[w]), ReadFiles(w)
  PROVE  Outcome(w)
<1>0. PICK c : c = call[w]
  OBVIOUS
<1>. DEFINE unread == c.listed \ DOMAIN c.read
            settled == {path \in unread : Immutable(path)}
            Take(paths) == [c EXCEPT !.read = WithRead(@, paths)]
<1>1. /\ pc[w] = "read"
      /\ IF unread = settled THEN Continue(w, "class", Take(settled)) /\ Reads
         ELSE \E path \in FirstOf(unread \ settled) :
                IF path \notin DOMAIN Files THEN Stop(w)
                ELSE Continue(w, "read", Take(settled \cup {path})) /\ Reads
  BY <1>0 DEF ReadFiles
<1>2. CallOK(c, "read") /\ CollectingFits(c, "read")
  BY <1>0, <1>1 DEF CallFits
<1>3. settled \subseteq unread /\ settled \subseteq c.listed \cap DOMAIN Files
  BY DEF Immutable
<1>4. CASE unread = settled
  <2>1. SameCall(c, Take(settled)) /\ CallOK(Take(settled), "class") /\ CollectingFits(Take(settled), "class")
    BY <1>2, <1>3, <1>4, Taken
  <2>2. CheckingFits(Take(settled), "class")
    BY DEF CheckingFits, Checking
  <2>3. GoesOn(w, Take(settled), "class")
    BY <1>0, <1>1, <1>4, <2>1, <2>2 DEF GoesOn, CallFits, Collecting, SameCall
  <2>. QED
    BY <2>3 DEF Outcome
<1>5. CASE unread # settled
  <2>1. PICK path \in FirstOf(unread \ settled) :
          IF path \notin DOMAIN Files THEN Stop(w)
          ELSE Continue(w, "read", Take(settled \cup {path})) /\ Reads
    BY <1>1, <1>5
  <2>2. path \in c.listed
    BY DEF FirstOf
  <2>3. CASE path \notin DOMAIN Files
    <3>1. c.begin # Len(past)
      BY <2>2, <2>3, <1>2 DEF CollectingFits, Collecting
    <3>. QED
      BY <3>1, <2>1, <2>3, <1>0 DEF Outcome, StopIsRight
  <2>4. CASE path \in DOMAIN Files
    <3>. DEFINE d == Take(settled \cup {path})
    <3>1. settled \cup {path} \subseteq c.listed \cap DOMAIN Files
      BY <2>2, <2>4, <1>3
    <3>2. SameCall(c, d) /\ CallOK(d, "read") /\ CollectingFits(d, "read")
      BY <3>1, <1>2, Taken
    <3>3. Continue(w, "read", d) /\ Reads
      BY <2>1, <2>4
    <3>. HIDE DEF d
    <3>4. CheckingFits(d, "read")
      BY DEF CheckingFits, Checking
    <3>5. GoesOn(w, d, "read")
      BY <1>0, <3>2, <3>3, <3>4 DEF GoesOn, CallFits, Collecting, SameCall
    <3>. QED
      BY <3>5 DEF Outcome
  <2>. QED
    BY <2>3, <2>4
<1>. QED
  BY <1>4, <1>5

(* What has been collected is all there is now, when nothing has changed since the beginning. *)
LEMMA CollectedNow ==
  ASSUME PastInv, NEW c, CallOK(c, "class"), CollectingFits(c, "class"), c.begin = Len(past)
  PROVE  c.read = BaseOf(Files)
<1>1. DOMAIN Files \ {Class} \subseteq DOMAIN c.read
  BY StaysNow DEF CallOK, CollectingFits, Collecting
<1>2. ASSUME NEW path \in DOMAIN c.read
      PROVE  path \in DOMAIN Files \ {Class} /\ c.read[path] = Files[path]
  <2>1. PICK k \in c.begin .. Len(past) : Holds(k, path, c.read[path])
    BY <1>2 DEF CollectingFits, Collecting
  <2>2. k = Len(past)
    BY PastFacts
  <2>. QED
    BY <1>2, <2>1, <2>2, PastFacts DEF Holds, CollectingFits, Collecting
<1>3. c.read = [path \in DOMAIN c.read |-> c.read[path]] /\ DOMAIN c.read = DOMAIN Files \ {Class}
  BY <1>1, <1>2 DEF CallOK
<1>. QED
  BY <1>2, <1>3 DEF BaseOf

LEMMA ClassOutcome ==
  ASSUME PastInv, NEW w \in Workers, CallFits(call[w], pc[w]), ReadClass(w)
  PROVE  Outcome(w)
<1>0. PICK c : c = call[w]
  OBVIOUS
<1>. DEFINE base == c.read
            classes == IF HasWork(base) THEN {Class} \cap DOMAIN Files ELSE {}
            taken == WithRead(base, classes)
            d == [c EXCEPT !.read = taken, !.step = 1, !.listed = {}]
            next == IF c.op = "build" THEN "again" ELSE "compare"
<1>1. pc[w] = "class" /\ IF ~ Projectable(base) \/ ~ ClassLoads(taken) THEN Stop(w) ELSE Continue(w, next, d) /\ Reads
  BY <1>0 DEF ReadClass
<1>2. CallOK(c, "class") /\ CollectingFits(c, "class")
  BY <1>0, <1>1 DEF CallFits
<1>3. c.begin \in Instants /\ c.op \in {"build", "audit"} /\ Class \notin DOMAIN base /\ StaysFrom(c.begin) \subseteq DOMAIN base
  BY <1>2 DEF CallOK, CollectingFits, Collecting
<1>4. c.begin = Len(past) => base = BaseOf(Files)
  BY <1>2, CollectedNow
<1>5. CASE ~ Projectable(base)
  <2>1. c.op = "audit" => Projectable(BaseOf(c.stored.sources))
    BY <1>2 DEF CallOK, StoredFits
  <2>2. StopIsRight(c)
    BY <2>1, <1>4, <1>5, SoundIsOther DEF StopIsRight
  <2>. QED
    BY <2>2, <1>0, <1>1, <1>5 DEF Outcome
<1>. HIDE DEF classes
<1>6. /\ DOMAIN taken = DOMAIN base \cup classes
      /\ taken = [path \in DOMAIN taken |-> taken[path]]
      /\ \A path \in DOMAIN base : taken[path] = base[path]
      /\ \A path \in classes \ DOMAIN base : taken[path] = Files[path]
  BY DEF WithRead
<1>7. classes \subseteq {Class} \cap DOMAIN Files /\ (HasWork(base) => classes = {Class} \cap DOMAIN Files)
  BY DEF classes
<1>. HIDE DEF taken
<1>8. BaseOf(taken) = base
  <2>1. base = [path \in DOMAIN base |-> base[path]]
    BY <1>2 DEF CallOK
  <2>2. DOMAIN taken \ {Class} = DOMAIN base
    BY <1>6, <1>7, <1>3
  <2>. QED
    BY <2>1, <2>2, <1>6 DEF BaseOf
<1>9. HasWork(taken) <=> HasWork(base)
  BY <1>8, BaseFacts
<1>10. CASE Projectable(base) /\ ~ ClassLoads(taken)
  <2>1. HasWork(base) /\ Class \in DOMAIN taken /\ taken[Class] = Torn
    BY <1>9, <1>10 DEF ClassLoads
  <2>2. Class \in DOMAIN Files /\ Files[Class] = Torn
    BY <2>1, <1>3, <1>6, <1>7
  <2>3. c.begin = Len(past) => HasWork(Files)
    BY <2>1, <1>4, BaseFacts
  <2>4. c.op = "audit" => ClassLoads(c.stored.sources)
    BY <1>2 DEF CallOK, StoredFits
  <2>5. StopIsRight(c)
    BY <2>2, <2>3, <2>4, LoadedIsOther DEF StopIsRight
  <2>. QED
    BY <2>5, <1>0, <1>1, <1>10 DEF Outcome
<1>11. CASE Projectable(base) /\ ClassLoads(taken)
  <2>1. /\ SameCall(c, d) /\ d.read = taken /\ d.step = 1 /\ d.listed = {}
    <3>1. DOMAIN c = {"op", "number", "begin", "quiet", "stored", "step", "listed", "read"} /\ DOMAIN c = DOMAIN NoCall
      BY <1>2, CallFields DEF CallOK
    <3>2. d = [c EXCEPT !.read = taken, !.step = 1, !.listed = {}]
      OBVIOUS
    <3>. HIDE DEF d
    <3>3. /\ d.listed = {} /\ d.step = 1 /\ d.read = taken /\ d.op = c.op /\ d.begin = c.begin /\ d.stored = c.stored
          /\ DOMAIN d = DOMAIN c
      BY <3>1, <3>2
    <3>. QED
      BY <3>1, <3>3, <1>6 DEF SameCall
  <2>. HIDE DEF d
  <2>2. d.begin = c.begin /\ d.op = c.op
    BY <2>1 DEF SameCall
  <2>3. Were(taken, DOMAIN taken, c.begin, Len(past))
    <3>1. \A path \in DOMAIN base : base[path] # Torn /\ \E k \in c.begin .. Len(past) : Holds(k, path, base[path])
      BY <1>2, <1>3, <1>11 DEF Projectable, CollectingFits, Collecting
    <3>2. DOMAIN taken \ {Class} \subseteq DOMAIN base
      BY <1>6, <1>7
    <3>. QED
      BY <3>1, <3>2, <1>6 DEF Were
  <2>4. ClassFits(taken, Len(past))
    <3>1. CASE Class \in classes
      BY <3>1, <1>6, <1>7, <1>3, PastFacts DEF ClassFits, Holds
    <3>2. CASE Class \notin classes
      BY <3>2, <1>6, <1>7, <1>9, <1>3, PastFacts DEF ClassFits
    <3>. QED
      BY <3>1, <3>2
  <2>5. c.begin = Len(past) => taken = Sources(Files)
    <3>1. SUFFICES ASSUME c.begin = Len(past) PROVE taken = Sources(Files)
      OBVIOUS
    <3>2. base = BaseOf(Files) /\ (HasWork(base) <=> HasWork(Files))
      BY <3>1, <1>4, BaseFacts
    <3>3. classes = IF HasWork(Files) THEN {Class} \cap DOMAIN Files ELSE {}
      BY <3>2 DEF classes
    <3>a. DOMAIN base = DOMAIN Files \ {Class} /\ \A path \in DOMAIN base : base[path] = Files[path]
      BY <3>2, BaseFacts
    <3>b. /\ DOMAIN Sources(Files) \ {Class} = DOMAIN Files \ {Class}
          /\ Class \in DOMAIN Sources(Files) <=> Class \in DOMAIN Files /\ HasWork(Files)
      BY SourcesFacts
    <3>4. DOMAIN taken = DOMAIN Sources(Files)
      BY <3>a, <3>b, <3>3, <1>6
    <3>5. \A path \in DOMAIN taken : taken[path] = Files[path]
      BY <3>a, <1>6
    <3>6. Sources(Files) = [path \in DOMAIN taken |-> Files[path]]
      BY <3>4 DEF Sources
    <3>. QED
      BY <3>5, <3>6, <1>6
  <2>6. CheckedAt(d, next, Len(past))
    <3>1. d.listed \subseteq DOMAIN d.read /\ Were(d.read, d.listed, Len(past), Len(past))
      BY <2>1 DEF Were
    <3>2. StaysFrom(d.begin) \subseteq DOMAIN d.read
      BY <1>6, <2>1, <2>2, <1>3
    <3>3. next \in {"again", "compare"}
      OBVIOUS
    <3>. QED
      BY <3>1, <3>2, <3>3, <2>1, <2>2, <1>8, <2>3, <2>4, <2>5, <1>11 DEF CheckedAt
  <2>7. CheckingFits(d, next)
    <3>1. Len(past) \in d.begin .. Len(past)
      BY <2>2, <1>3, PastFacts DEF Instants
    <3>. QED
      BY <3>1, <2>6 DEF CheckingFits
  <2>8. next \in Checking /\ next \notin Collecting
    BY DEF Collecting, Checking
  <2>9. CallOK(d, next)
    BY <1>2, <1>3, <2>1, <2>8, CallGoesOn DEF Collecting
  <2>10. CollectingFits(d, next)
    BY <2>8 DEF CollectingFits
  <2>11. GoesOn(w, d, next)
    BY <1>0, <1>1, <1>11, <2>2, <2>7, <2>8, <2>9, <2>10 DEF GoesOn, CallFits
  <2>. QED
    BY <2>11 DEF Outcome
<1>. QED
  BY <1>5, <1>10, <1>11

(* A rebuild that stops says nothing. *)
LEMMA BuildOutcome ==
  ASSUME NEW w \in Workers, NEW c, c = call[w], c.op = "build", Stop(w)
  PROVE  Outcome(w)
BY DEF Outcome, StopIsRight

LEMMA AgainOutcome ==
  ASSUME PastInv, NEW w \in Workers, CallFits(call[w], pc[w]), ReadAgain(w)
  PROVE  Outcome(w)
<1>0. PICK c : c = call[w]
  OBVIOUS
<1>. DEFINE unread == DOMAIN c.read \ c.listed
            settled == {path \in unread : Immutable(path)}
            Differs(path) == path \notin DOMAIN Files \/ Files[path] # c.read[path]
            done == [c EXCEPT !.listed = {}]
            more(path) == [c EXCEPT !.listed = @ \cup settled \cup {path}]
<1>1. /\ pc[w] = "again"
      /\ IF \E path \in settled : Differs(path) THEN Stop(w)
         ELSE IF unread = settled THEN Continue(w, "relist", done) /\ Reads
         ELSE \E path \in FirstOf(unread \ settled) :
                IF Differs(path) THEN Stop(w) ELSE Continue(w, "again", more(path)) /\ Reads
  BY <1>0 DEF ReadAgain
<1>2. CallOK(c, "again") /\ CheckingFits(c, "again")
  BY <1>0, <1>1 DEF CallFits
<1>3. c.op = "build" /\ c.begin \in Instants /\ DOMAIN c = DOMAIN NoCall /\ c.read = [path \in DOMAIN c.read |-> c.read[path]]
  BY <1>2 DEF CallOK, Checking
<1>4. PICK m \in c.begin .. Len(past) : CheckedAt(c, "again", m)
  BY <1>2 DEF CheckingFits, Checking
<1>5. /\ Were(c.read, DOMAIN c.read, c.begin, m) /\ ClassFits(c.read, m)
      /\ c.step = 1 /\ c.listed \subseteq DOMAIN c.read /\ Were(c.read, c.listed, m, Len(past))
      /\ Projectable(BaseOf(c.read)) /\ ClassLoads(c.read)
  BY <1>4 DEF CheckedAt
<1>6. Len(past) \in m .. Len(past) /\ m \in c.begin .. Len(past)
  BY <1>3, PastFacts DEF Instants
<1>7. ASSUME NEW path \in DOMAIN c.read, ~ Differs(path)
      PROVE  path # Class => c.read[path] # Torn /\ \E k \in m .. Len(past) : Holds(k, path, c.read[path])
  <2>1. Holds(Len(past), path, c.read[path])
    BY <1>7, PastFacts DEF Holds
  <2>. QED
    BY <2>1, <1>5, <1>6 DEF Were
<1>8. CASE Stop(w)
  BY <1>8, <1>0, <1>3, BuildOutcome
<1>9. CASE (\A path \in settled : ~ Differs(path)) /\ unread = settled /\ Continue(w, "relist", done) /\ Reads
  <2>1. SameCall(c, done) /\ done.listed = {} /\ done.step = c.step /\ done.read = c.read
    BY <1>3, CallFields DEF SameCall
  <2>. HIDE DEF done
  <2>2. Were(c.read, DOMAIN c.read, m, Len(past))
    BY <1>5, <1>7, <1>9 DEF Were
  <2>3. HasListed(done, m)
    BY <2>1, <1>5 DEF HasListed
  <2>4. 1 \in 1 .. Len(Listing)
    BY ListingFacts
  <2>5. done.begin = c.begin /\ done.op = c.op
    BY <2>1 DEF SameCall
  <2>6. CheckedAt(done, "relist", m)
    BY <2>1, <2>2, <2>3, <2>4, <2>5, <1>5 DEF CheckedAt
  <2>7. CheckingFits(done, "relist")
    BY <2>5, <2>6, <1>6 DEF CheckingFits
  <2>8. CallOK(done, "relist")
    BY <1>2, <1>3, <2>1, CallGoesOn DEF Checking
  <2>9. CollectingFits(done, "relist")
    BY DEF CollectingFits, Collecting
  <2>10. GoesOn(w, done, "relist")
    BY <1>0, <1>9, <2>5, <2>7, <2>8, <2>9 DEF GoesOn, CallFits, Checking
  <2>. QED
    BY <2>10 DEF Outcome
<1>10. ASSUME NEW path \in FirstOf(unread \ settled), ~ Differs(path), Continue(w, "again", more(path)), Reads,
              \A q \in settled : ~ Differs(q)
       PROVE  Outcome(w)
  <2>. DEFINE d == more(path)
  <2>1. SameCall(c, d) /\ d.listed = c.listed \cup settled \cup {path} /\ d.step = c.step /\ d.read = c.read
    BY <1>3, CallFields DEF SameCall
  <2>2. path \in DOMAIN c.read
    BY DEF FirstOf
  <2>3. Continue(w, "again", d) /\ Reads
    BY <1>10
  <2>. HIDE DEF d
  <2>4. Were(d.read, d.listed, m, Len(past)) /\ d.listed \subseteq DOMAIN d.read
    BY <2>1, <2>2, <1>5, <1>7, <1>10 DEF Were
  <2>5. d.begin = c.begin /\ d.op = c.op
    BY <2>1 DEF SameCall
  <2>6. CheckedAt(d, "again", m)
    BY <2>1, <2>4, <2>5, <1>5 DEF CheckedAt
  <2>7. CheckingFits(d, "again")
    BY <2>5, <2>6, <1>6 DEF CheckingFits
  <2>8. CallOK(d, "again")
    BY <1>2, <1>3, <2>1, CallGoesOn DEF Checking
  <2>9. CollectingFits(d, "again")
    BY DEF CollectingFits, Collecting
  <2>10. GoesOn(w, d, "again")
    BY <1>0, <2>3, <2>5, <2>7, <2>8, <2>9 DEF GoesOn, CallFits, Checking
  <2>. QED
    BY <2>10 DEF Outcome
<1>. QED
  BY <1>1, <1>8, <1>9, <1>10

LEMMA RelistOutcome ==
  ASSUME PastInv, NEW w \in Workers, CallFits(call[w], pc[w]), ListAgain(w)
  PROVE  Outcome(w)
<1>0. PICK c : c = call[w]
  OBVIOUS
<1>. DEFINE step == Listing[c.step]
            last == c.step = Len(Listing)
            found == [c EXCEPT !.step = @ + 1, !.listed = @ \cup Entries(step)]
            next == IF last THEN "present" ELSE "relist"
<1>1. /\ pc[w] = "relist"
      /\ IF HalfHistory(step, c.listed) \/ (last /\ found.listed # DOMAIN c.read \ {Class}) THEN Stop(w)
         ELSE Continue(w, next, found) /\ Reads
  BY <1>0 DEF ListAgain
<1>2. CallOK(c, "relist") /\ CheckingFits(c, "relist")
  BY <1>0, <1>1 DEF CallFits
<1>3. c.op = "build" /\ c.begin \in Instants
  BY <1>2 DEF CallOK, Checking
<1>4. PICK m \in c.begin .. Len(past) : CheckedAt(c, "relist", m)
  BY <1>2 DEF CheckingFits, Checking
<1>5. /\ Were(c.read, DOMAIN c.read, c.begin, m) /\ ClassFits(c.read, m)
      /\ Were(c.read, DOMAIN c.read, m, Len(past))
      /\ c.step \in 1 .. Len(Listing) /\ HasListed(c, m)
      /\ Projectable(BaseOf(c.read)) /\ ClassLoads(c.read)
  BY <1>4 DEF CheckedAt
<1>6. m \in Instants
  BY <1>3, <1>4, PastFacts DEF Instants
<1>7. CASE Stop(w)
  BY <1>7, <1>0, <1>3, BuildOutcome
<1>8. CASE ~ Stop(w)
  <2>1. SameCall(c, found) /\ found.read = c.read /\ found.step = c.step + 1 /\ found.listed = c.listed \cup Entries(step)
    BY <1>2, StepOfListing DEF CallOK
  <2>2. Continue(w, next, found) /\ Reads /\ (last => found.listed = DOMAIN c.read \ {Class})
    BY <1>1, <1>8
  <2>. HIDE DEF found
  <2>3. found.begin = c.begin /\ found.op = c.op
    BY <2>1 DEF SameCall
  <2>4. /\ HasListed(found, m)
        /\ last => StaysFrom(m) \subseteq found.listed
        /\ ~ last => found.step \in 1 .. Len(Listing)
    BY <1>5, <1>6, <2>1, ListingContinues
  <2>5. CheckedAt(found, next, m)
    BY <1>5, <2>1, <2>2, <2>3, <2>4 DEF CheckedAt
  <2>6. CheckingFits(found, next)
    BY <1>4, <2>3, <2>5 DEF CheckingFits
  <2>7. CallOK(found, next)
    BY <1>2, <1>3, <2>1, CallGoesOn DEF Checking
  <2>8. CollectingFits(found, next)
    BY DEF CollectingFits, Collecting
  <2>9. GoesOn(w, found, next)
    BY <1>0, <2>2, <2>3, <2>6, <2>7, <2>8 DEF GoesOn, CallFits, Checking
  <2>. QED
    BY <2>9 DEF Outcome
<1>. QED
  BY <1>7, <1>8

LEMMA PresentOutcome ==
  ASSUME NEW w \in Workers, CallFits(call[w], pc[w]), CheckMissingClass(w)
  PROVE  Outcome(w)
<1>0. PICK c : c = call[w]
  OBVIOUS
<1>1. pc[w] = "present" /\ (Stop(w) \/ (Continue(w, "replace", c) /\ Reads))
  BY <1>0 DEF CheckMissingClass
<1>2. CallOK(c, "present") /\ CheckingFits(c, "present")
  BY <1>0, <1>1 DEF CallFits
<1>3. c.op = "build"
  BY <1>2 DEF CallOK, Checking
<1>4. CASE Stop(w)
  BY <1>4, <1>0, <1>3, BuildOutcome
<1>5. CASE Continue(w, "replace", c) /\ Reads
  <2>1. CheckingFits(c, "replace")
    BY <1>2 DEF CheckingFits, Checking, CheckedAt
  <2>2. CallOK(c, "replace") /\ CollectingFits(c, "replace")
    BY <1>2, <1>3 DEF CallOK, CollectingFits, Collecting, Checking
  <2>3. GoesOn(w, c, "replace")
    BY <1>0, <1>5, <2>1, <2>2 DEF GoesOn, CallFits, Checking
  <2>. QED
    BY <2>3 DEF Outcome
<1>. QED
  BY <1>1, <1>4, <1>5

(* What was there before and after an instant was there at it. *)
LEMMA ThereBetween ==
  ASSUME PastInv, NEW files, NEW low \in Instants, NEW k \in Instants,
         Were(files, DOMAIN files, low, k), Were(files, DOMAIN files, k, Len(past))
  PROVE  Were(files, DOMAIN files, k, k)
<1>1. SUFFICES ASSUME NEW path \in DOMAIN files \ {Class}
               PROVE  files[path] # Torn /\ Holds(k, path, files[path])
  <2>1. k \in k .. k
    BY DEF Instants
  <2>. QED
    BY <1>1, <2>1 DEF Were
<1>2. PICK i \in low .. k : Holds(i, path, files[path])
  BY DEF Were
<1>3. PICK j \in k .. Len(past) : Holds(j, path, files[path])
  BY DEF Were
<1>4. files[path] # Torn
  BY DEF Were
<1>5. i \in Instants /\ j \in i .. Len(past) /\ k \in i .. j
  BY PastFacts DEF Instants
<1>6. ContentsDoNotReturn(i, k, j)
  BY <1>5 DEF PastInv
<1>. QED
  BY <1>2, <1>3, <1>4, <1>6 DEF ContentsDoNotReturn, Holds

(* The catalog that a rebuild installs holds the files of one instant. *)
LEMMA ReplaceInstallsTheInstant ==
  ASSUME PastInv, NEW w \in Workers, CallFits(call[w], pc[w]), Replace(w)
  PROVE  CatalogFits'
<1>0. PICK c : c = call[w]
  OBVIOUS
<1>1. /\ pc[w] = "replace" /\ UNCHANGED past
      /\ catalog' = [sources |-> c.read, from |-> c.begin, at |-> Len(past), serial |-> c.number]
  BY <1>0 DEF Replace
<1>2. CallOK(c, "replace") /\ CheckingFits(c, "replace")
  BY <1>0, <1>1 DEF CallFits
<1>3. c.begin \in Instants
  BY <1>2 DEF CallOK
<1>4. PICK m \in c.begin .. Len(past) : CheckedAt(c, "replace", m)
  BY <1>2 DEF CheckingFits, Checking
<1>5. /\ Were(c.read, DOMAIN c.read, c.begin, m) /\ ClassFits(c.read, m)
      /\ Were(c.read, DOMAIN c.read, m, Len(past))
      /\ StaysFrom(m) \subseteq DOMAIN c.read
      /\ Projectable(BaseOf(c.read)) /\ ClassLoads(c.read)
  BY <1>4 DEF CheckedAt
<1>6. m \in Instants /\ Len(past) \in Instants /\ c.begin <= Len(past)
  BY <1>3, <1>4, PastFacts DEF Instants
<1>7. Were(c.read, DOMAIN c.read, m, m)
  BY <1>3, <1>5, <1>6, ThereBetween
<1>8. Were(c.read, DOMAIN c.read, m, m)' /\ ClassFits(c.read, m)' /\ StaysFrom(m)' = StaysFrom(m) /\ Instants' = Instants
  BY <1>1, <1>5, <1>7 DEF Were, ClassFits, StaysFrom, Holds, Instants
<1>9. /\ catalog'.sources = c.read /\ catalog'.from = c.begin /\ catalog'.at = Len(past)
  BY <1>1
<1>10. Were(catalog.sources, DOMAIN catalog.sources, m, m)' /\ ClassFits(catalog.sources, m)'
  BY <1>8, <1>9 DEF Were, ClassFits
<1>. QED
  BY <1>3, <1>4, <1>5, <1>6, <1>8, <1>9, <1>10 DEF CatalogFits

LEMMA CompareReports ==
  ASSUME PastInv, NEW w \in Workers, CallFits(call[w], pc[w]), pc[w] = "compare", NEW answer, NEW quiet,
         IF call[w].read = call[w].stored.sources /\ catalog = call[w].stored THEN answer = "ready" ELSE answer = "invalid",
         quiet => catalog = call[w].stored
  PROVE  ReportFits([answer |-> answer, stored |-> call[w].stored, begin |-> call[w].begin,
                     end |-> Len(past), quiet |-> quiet])
<1>0. PICK c : c = call[w]
  OBVIOUS
<1>. DEFINE r == [answer |-> answer, stored |-> c.stored, begin |-> c.begin, end |-> Len(past), quiet |-> quiet]
            sources == c.stored.sources
<1>1. CallOK(c, "compare") /\ CheckingFits(c, "compare")
  BY <1>0 DEF CallFits
<1>2. c.begin \in Instants /\ c.op = "audit" /\ StoredFits(c.stored, c.begin)
  BY <1>1 DEF CallOK
<1>3. PICK m \in c.begin .. Len(past) : CheckedAt(c, "compare", m)
  BY <1>1 DEF CheckingFits, Checking
<1>4. /\ Were(c.read, DOMAIN c.read, c.begin, m) /\ ClassFits(c.read, m)
      /\ StaysFrom(c.begin) \subseteq DOMAIN c.read
      /\ c.begin = Len(past) => c.read = Sources(Files)
  BY <1>3 DEF CheckedAt
<1>5. Len(past) \in Nat /\ c.begin \in Nat /\ 1 <= c.begin /\ c.begin <= Len(past) /\ 1 \in Instants
  BY <1>2, PastFacts DEF Instants
<1>6. ASSUME answer = "ready"
      PROVE  /\ Were(sources, DOMAIN sources, c.begin, c.begin)
             /\ StaysFrom(c.begin) \subseteq DOMAIN sources
             /\ Class \in DOMAIN sources => \E k \in c.begin .. Len(past) : Holds(k, Class, sources[Class])
  <2>1. c.read = sources
    BY <1>0, <1>6
  <2>2. Were(sources, DOMAIN sources, 1, c.begin)
    BY <1>2 DEF StoredFits
  <2>3. Were(sources, DOMAIN sources, c.begin, Len(past))
    <3>1. \A k \in c.begin .. m : k \in c.begin .. Len(past)
      BY <1>5
    <3>. QED
      BY <3>1, <2>1, <1>4 DEF Were
  <2>4. Were(sources, DOMAIN sources, c.begin, c.begin)
    BY <2>2, <2>3, <1>2, <1>5, ThereBetween
  <2>. QED
    BY <2>1, <2>4, <1>4 DEF ClassFits
<1>7. answer = "invalid" /\ quiet /\ c.begin = Len(past) => sources # Sources(past[c.begin].files)
  BY <1>0, <1>4, PastFacts
<1>8. r.answer = answer /\ r.stored = c.stored /\ r.begin = c.begin /\ r.end = Len(past) /\ r.quiet = quiet
  OBVIOUS
<1>. HIDE DEF r
<1>9. ReportFits(r)
  BY <1>5, <1>6, <1>7, <1>8 DEF ReportFits
<1>. QED
  BY <1>0, <1>9 DEF r

LEMMA StopReports ==
  ASSUME PastInv, NEW w \in Workers, CallFits(call[w], pc[w]), pc[w] # "idle", call[w].op = "audit",
         StopIsRight(call[w]), NEW quiet
  PROVE  ReportFits([answer |-> "invalid", stored |-> call[w].stored, begin |-> call[w].begin,
                     end |-> Len(past), quiet |-> quiet])
<1>0. PICK c : c = call[w]
  OBVIOUS
<1>. DEFINE r == [answer |-> "invalid", stored |-> c.stored, begin |-> c.begin, end |-> Len(past), quiet |-> quiet]
<1>1. c.begin \in Instants
  BY <1>0 DEF CallFits, CallOK
<1>2. Len(past) \in Nat /\ c.begin \in Nat /\ 1 <= c.begin /\ c.begin <= Len(past)
  BY <1>1, PastFacts DEF Instants
<1>3. c.begin = Len(past) => c.stored.sources # Sources(past[c.begin].files)
  BY <1>0, PastFacts DEF StopIsRight
<1>4. r.answer = "invalid" /\ r.stored = c.stored /\ r.begin = c.begin /\ r.end = Len(past)
  OBVIOUS
<1>. HIDE DEF r
<1>5. ReportFits(r)
  BY <1>2, <1>3, <1>4 DEF ReportFits
<1>. QED
  BY <1>0, <1>5 DEF r

-----------------------------------------------------------------------------
(* The inductive invariant. *)

Typed == DOMAIN pc = Workers /\ DOMAIN call = Workers /\ DOMAIN report = Workers

LEMMA WorkersStay ==
  ASSUME CatalogInv, PastMoves, UNCHANGED <<pc, call, report>>
  PROVE  Typed' /\ \A w \in Workers : WorkerFits(w)'
<1>1. ASSUME NEW w \in Workers
      PROVE  WorkerFits(w)'
  <2>1. PICK c, phase, r : c = call[w] /\ phase = pc[w] /\ r = report[w]
    OBVIOUS
  <2>2. CallFits(c, phase) /\ ReportFits(r)
    BY <2>1 DEF CatalogInv, WorkerFits
  <2>3. CallFits(c, phase)' /\ ReportFits(r)'
    BY <2>2, CallStays, ReportStays DEF CatalogInv
  <2>. QED
    BY <2>1, <2>3 DEF WorkerFits
<1>. QED
  BY <1>1 DEF CatalogInv, Typed

LEMMA WorkerMoves ==
  ASSUME CatalogInv, UNCHANGED past, NEW w \in Workers, NEW c, NEW phase, Continue(w, phase, c), CallFits(c, phase),
         NEW r, ReportFits(r), report' = [report EXCEPT ![w] = r] \/ UNCHANGED report
  PROVE  Typed' /\ \A v \in Workers : WorkerFits(v)'
<1>1. PastMoves
  BY PastRests DEF CatalogInv
<1>2. /\ DOMAIN pc = Workers /\ DOMAIN call = Workers /\ DOMAIN report = Workers
      /\ pc' = [pc EXCEPT ![w] = phase] /\ call' = [call EXCEPT ![w] = c]
  BY DEF CatalogInv, Continue
<1>3. ASSUME NEW v \in Workers
      PROVE  WorkerFits(v)'
  <2>1. PICK d, at, s : d = call'[v] /\ at = pc'[v] /\ s = report'[v]
    OBVIOUS
  <2>2. CallFits(call[v], pc[v]) /\ ReportFits(report[v])
    BY DEF CatalogInv, WorkerFits
  <2>3. CallFits(d, at)
    BY <2>1, <2>2, <1>2
  <2>4. ReportFits(s)
    BY <2>1, <2>2, <1>2
  <2>5. CallFits(d, at)' /\ ReportFits(s)'
    BY <2>3, <2>4, <1>1, CallStays, ReportStays DEF CatalogInv
  <2>. QED
    BY <2>1, <2>5 DEF WorkerFits
<1>. QED
  BY <1>2, <1>3 DEF Typed

LEMMA NoCallFits ==
  CallFits(NoCall, "idle") /\ ReportFits(NoReport)
<1>1. CallOK(NoCall, "idle")
  <2>1. DOMAIN NoFiles = {} /\ NoFiles = [path \in DOMAIN NoFiles |-> NoFiles[path]]
    BY DEF NoFiles
  <2>. QED
    BY <2>1 DEF CallOK, NoCall, Collecting, Checking
<1>2. CollectingFits(NoCall, "idle") /\ CheckingFits(NoCall, "idle")
  BY DEF CollectingFits, CheckingFits, Collecting, Checking
<1>3. ReportFits(NoReport)
  BY DEF ReportFits, NoReport
<1>. QED
  BY <1>1, <1>2, <1>3 DEF CallFits

(* A call that goes on where no file has to be known. *)
Resting == {"lock", "unlink", "unlock"}
LEMMA RestingFits ==
  ASSUME NEW c, NEW phase, CallFits(c, phase), NEW next \in Resting, c.begin \in Instants,
         next \in {"lock", "unlink"} => c.op = "remove",
         next = "unlock" => c.op \in {"build", "remove"}
  PROVE  CallFits(c, next)
BY DEF CallFits, CallOK, CollectingFits, CheckingFits, Collecting, Checking, Resting

(* What a step has to leave behind, but for the lock. *)
Fits ==
  /\ Typed
  /\ PastInv
  /\ CatalogFits
  /\ \A w \in Workers : WorkerFits(w)

LEMMA CallBegins ==
  ASSUME CatalogInv, NEW w \in Workers, NEW op, NEW phase, NEW stored, Begin(w, op, phase, stored),
         \/ op = "build" /\ phase = "list"
         \/ op = "remove" /\ phase = "lock"
         \/ op = "audit" /\ phase = "list" /\ stored = catalog /\ catalog # None
  PROVE  Fits'
<1>1. PICK c : c = [NoCall EXCEPT !.op = op, !.number = calls + 1, !.begin = Len(past), !.stored = stored]
  OBVIOUS
<1>2. /\ UNCHANGED <<past, catalog>> /\ Continue(w, phase, c) /\ report' = [report EXCEPT ![w] = NoReport]
  BY <1>1 DEF Begin
<1>3. /\ DOMAIN c = DOMAIN NoCall /\ c.op = op /\ c.begin = Len(past) /\ c.stored = stored
      /\ c.read = NoFiles /\ c.listed = {} /\ c.step = 1
  BY <1>1 DEF NoCall
<1>4. PastInv /\ PastInv' /\ PastMoves /\ CatalogFits'
  BY <1>2, PastRests, CatalogStays DEF CatalogInv
<1>5. Len(past) \in Instants /\ Len(past) \in Nat
  BY <1>4, PastFacts
<1>6. op = "audit" => StoredFits(stored, Len(past))
  <2>1. SUFFICES ASSUME op = "audit" PROVE StoredFits(catalog, Len(past))
    OBVIOUS
  <2>2. catalog # None
    BY <2>1
  <2>3. PICK k \in catalog.from .. catalog.at : Were(catalog.sources, DOMAIN catalog.sources, k, k)
    BY <2>2 DEF CatalogInv, CatalogFits
  <2>4. k \in 1 .. Len(past) /\ \A i \in k .. k : i \in 1 .. Len(past)
    BY <2>2, <1>5 DEF CatalogInv, CatalogFits, Instants
  <2>5. Projectable(BaseOf(catalog.sources)) /\ ClassLoads(catalog.sources)
    BY <2>2 DEF CatalogInv, CatalogFits
  <2>. QED
    BY <2>3, <2>4, <2>5 DEF StoredFits, Were
<1>7. DOMAIN NoFiles = {} /\ NoFiles = [path \in DOMAIN NoFiles |-> NoFiles[path]]
  BY DEF NoFiles
<1>8. CallOK(c, phase)
  BY <1>3, <1>5, <1>6, <1>7 DEF CallOK, Collecting, Checking
<1>9. CollectingFits(c, phase)
  <2>1. HasListed(c, c.begin)
    BY <1>3 DEF HasListed
  <2>2. 1 \in 1 .. Len(Listing)
    BY ListingFacts
  <2>. QED
    BY <1>3, <1>7, <2>1, <2>2 DEF CollectingFits, Collecting
<1>10. CheckingFits(c, phase)
  BY DEF CheckingFits, Checking
<1>11. CallFits(c, phase)
  BY <1>8, <1>9, <1>10 DEF CallFits
<1>12. Typed' /\ \A v \in Workers : WorkerFits(v)'
  BY <1>2, <1>11, NoCallFits, WorkerMoves
<1>. QED
  BY <1>4, <1>12 DEF Fits

LEMMA OutcomeFits ==
  ASSUME CatalogInv, NEW w \in Workers, pc[w] \in Collecting \cup Checking, Outcome(w)
  PROVE  Fits'
<1>1. ASSUME UNCHANGED <<past, catalog>>
      PROVE  PastInv' /\ CatalogFits'
  BY <1>1, PastRests, CatalogStays DEF CatalogInv
<1>2. CallFits(call[w], pc[w]) /\ ReportFits(report[w]) /\ PastInv
  BY DEF CatalogInv, WorkerFits
<1>3. CASE Stop(w) /\ StopIsRight(call[w]) /\ call[w].op = "audit"
  <2>. DEFINE r == [answer |-> "invalid", stored |-> call[w].stored, begin |-> call[w].begin,
                    end |-> Len(past), quiet |-> call[w].quiet /\ catalog = call[w].stored]
  <2>1. Continue(w, "idle", NoCall) /\ report' = [report EXCEPT ![w] = r] /\ UNCHANGED <<past, catalog>>
    BY <1>3 DEF Stop, Answer
  <2>2. pc[w] # "idle"
    BY DEF Collecting, Checking
  <2>3. ReportFits(r)
    BY <1>2, <1>3, <2>2, StopReports
  <2>. HIDE DEF r
  <2>4. Typed' /\ \A v \in Workers : WorkerFits(v)'
    BY <2>1, <2>3, NoCallFits, WorkerMoves
  <2>. QED
    BY <2>1, <2>4, <1>1 DEF Fits
<1>4. CASE Stop(w) /\ call[w].op # "audit"
  <2>1. Continue(w, "unlock", call[w]) /\ Reads
    BY <1>4 DEF Stop
  <2>2. CallOK(call[w], pc[w])
    BY <1>2 DEF CallFits
  <2>3. call[w].op = "build" /\ call[w].begin \in Instants
    BY <1>4, <2>2 DEF CallOK, Collecting, Checking
  <2>4. CallFits(call[w], "unlock")
    BY <2>3, <1>2, RestingFits DEF Resting
  <2>5. Typed' /\ \A v \in Workers : WorkerFits(v)'
    BY <2>1, <2>4, <1>2, WorkerMoves DEF Reads
  <2>. QED
    BY <2>1, <2>5, <1>1 DEF Fits, Reads
<1>5. ASSUME NEW c, NEW phase, GoesOn(w, c, phase)
      PROVE  Fits'
  <2>1. Continue(w, phase, c) /\ Reads /\ CallFits(c, phase)
    BY <1>5 DEF GoesOn
  <2>2. Typed' /\ \A v \in Workers : WorkerFits(v)'
    BY <2>1, <1>2, WorkerMoves DEF Reads
  <2>. QED
    BY <2>1, <2>2, <1>1 DEF Fits, Reads
<1>. QED
  BY <1>3, <1>4, <1>5 DEF Outcome

(* The steps of one call. *)
LEMMA StepFits ==
  ASSUME CatalogInv, NEW w \in Workers, Step(w)
  PROVE  Fits'
<1>1. CallFits(call[w], pc[w]) /\ ReportFits(report[w]) /\ PastInv /\ CatalogFits /\ CallOK(call[w], pc[w])
  BY DEF CatalogInv, WorkerFits, CallFits
<1>2. ASSUME UNCHANGED <<past, catalog>>
      PROVE  PastInv' /\ CatalogFits'
  BY <1>2, <1>1, PastRests, CatalogStays
<1>3. CASE rebuild_academic_catalog(w)
  BY <1>3, CallBegins DEF rebuild_academic_catalog
<1>4. CASE remove_academic_catalog(w)
  BY <1>4, CallBegins DEF remove_academic_catalog
<1>5. CASE _scan_catalog(w)
  BY <1>5, CallBegins DEF _scan_catalog
<1>6. CASE AcquireLock(w)
  <2>1. pc[w] = "lock" /\ UNCHANGED <<past, catalog, report>>
    BY <1>6 DEF AcquireLock
  <2>2. call[w].op = "remove" /\ call[w].begin \in Instants
    BY <2>1, <1>1 DEF CallOK
  <2>3. CallFits(call[w], "unlink")
    BY <2>2, <1>1, RestingFits DEF Resting
  <2>4. Continue(w, "unlink", call[w]) \/ Continue(w, "idle", NoCall)
    BY <1>6 DEF AcquireLock
  <2>5. Typed' /\ \A v \in Workers : WorkerFits(v)'
    BY <2>1, <2>3, <2>4, <1>1, NoCallFits, WorkerMoves
  <2>. QED
    BY <2>1, <2>5, <1>2 DEF Fits
<1>7. CASE _discover_base_paths(w)
  BY <1>7, <1>1, ListOutcome, OutcomeFits DEF _discover_base_paths, Collecting
<1>8. CASE ReadFiles(w)
  BY <1>8, <1>1, ReadOutcome, OutcomeFits DEF ReadFiles, Collecting
<1>9. CASE ReadClass(w)
  BY <1>9, <1>1, ClassOutcome, OutcomeFits DEF ReadClass, Collecting
<1>10. CASE ReadAgain(w)
  BY <1>10, <1>1, AgainOutcome, OutcomeFits DEF ReadAgain, Checking
<1>11. CASE ListAgain(w)
  BY <1>11, <1>1, RelistOutcome, OutcomeFits DEF ListAgain, Checking
<1>12. CASE CheckMissingClass(w)
  BY <1>12, <1>1, PresentOutcome, OutcomeFits DEF CheckMissingClass, Checking
<1>13. CASE Replace(w) \/ Unlink(w)
  <2>1. pc[w] \in {"replace", "unlink"} /\ UNCHANGED <<past, report>> /\ Continue(w, "unlock", call[w])
    BY <1>13 DEF Replace, Unlink
  <2>2. call[w].op \in {"build", "remove"} /\ call[w].begin \in Instants
    BY <2>1, <1>1 DEF CallOK, Checking
  <2>3. CallFits(call[w], "unlock")
    BY <2>2, <1>1, RestingFits DEF Resting
  <2>4. Typed' /\ \A v \in Workers : WorkerFits(v)'
    BY <2>1, <2>3, <1>1, WorkerMoves
  <2>5. CatalogFits'
    <3>1. CASE Replace(w)
      BY <3>1, <1>1, ReplaceInstallsTheInstant
    <3>2. CASE Unlink(w)
      BY <3>2 DEF Unlink, CatalogFits
    <3>. QED
      BY <3>1, <3>2, <1>13
  <2>. QED
    BY <2>1, <2>4, <2>5, <1>1, PastRests DEF Fits
<1>14. CASE Unlock(w)
  <2>1. UNCHANGED <<past, catalog, report>> /\ Continue(w, "idle", NoCall)
    BY <1>14 DEF Unlock
  <2>2. Typed' /\ \A v \in Workers : WorkerFits(v)'
    BY <2>1, <1>1, NoCallFits, WorkerMoves
  <2>. QED
    BY <2>1, <2>2, <1>2 DEF Fits
<1>15. CASE Compare(w)
  <2>. DEFINE ready == call[w].read = call[w].stored.sources /\ catalog = call[w].stored
              answer == IF ready THEN "ready" ELSE "invalid"
              quiet == call[w].quiet /\ catalog = call[w].stored
              r == [answer |-> answer, stored |-> call[w].stored, begin |-> call[w].begin, end |-> Len(past), quiet |-> quiet]
  <2>1. pc[w] = "compare" /\ Answer(w, answer)
    BY <1>15 DEF Compare
  <2>2. ReportFits(r)
    BY <2>1, <1>1, CompareReports
  <2>3. Continue(w, "idle", NoCall) /\ report' = [report EXCEPT ![w] = r] /\ UNCHANGED <<past, catalog>>
    BY <2>1 DEF Answer
  <2>. HIDE DEF r
  <2>4. Typed' /\ \A v \in Workers : WorkerFits(v)'
    BY <2>2, <2>3, NoCallFits, WorkerMoves
  <2>. QED
    BY <2>3, <2>4, <1>2 DEF Fits
<1>. QED
  BY <1>3, <1>4, <1>5, <1>6, <1>7, <1>8, <1>9, <1>10, <1>11, <1>12, <1>13, <1>14, <1>15 DEF Step

LEMMA NextFits ==
  CatalogInv /\ [Next]_vars => Fits'
<1>. SUFFICES ASSUME CatalogInv, [Next]_vars PROVE Fits'
  OBVIOUS
<1>1. PastInv /\ CatalogFits
  BY DEF CatalogInv
<1>2. ASSUME UNCHANGED <<past, catalog>>
      PROVE  PastInv' /\ PastMoves /\ CatalogFits'
  BY <1>2, <1>1, PastRests, CatalogStays
<1>3. CASE Write
  <2>1. PastInv' /\ PastMoves /\ UNCHANGED <<catalog, pc, call, report>>
    BY <1>1, <1>3, WriteMoves DEF Untouched
  <2>. QED
    BY <2>1, <1>1, CatalogStays, WorkersStay DEF Fits
<1>4. ASSUME NEW w \in Workers, Step(w)
      PROVE  Fits'
  BY <1>4, StepFits
<1>5. ASSUME NEW w \in Workers, OperationFails(w)
      PROVE  Fits'
  <2>1. CallFits(call[w], pc[w]) /\ ReportFits(report[w]) /\ CallOK(call[w], pc[w])
    BY DEF CatalogInv, WorkerFits, CallFits
  <2>2. UNCHANGED <<past, catalog>> /\ pc[w] # "idle"
    BY <1>5 DEF OperationFails
  <2>3. CASE call[w].op = "audit"
    <3>. DEFINE r == [NoReport EXCEPT !.answer = "invalid", !.quiet = FALSE]
    <3>1. Continue(w, "idle", NoCall) /\ report' = [report EXCEPT ![w] = r]
      BY <1>5, <2>3 DEF OperationFails
    <3>2. ReportFits(r)
      BY DEF ReportFits, NoReport
    <3>. HIDE DEF r
    <3>3. Typed' /\ \A v \in Workers : WorkerFits(v)'
      BY <2>2, <3>1, <3>2, NoCallFits, WorkerMoves
    <3>. QED
      BY <3>3, <2>2, <1>2 DEF Fits
  <2>4. CASE call[w].op # "audit"
    <3>1. Continue(w, "unlock", call[w]) /\ UNCHANGED report /\ pc[w] \notin {"idle", "lock", "unlock"}
      BY <1>5, <2>4 DEF OperationFails
    <3>2. call[w].begin \in Instants /\ call[w].op \in {"build", "remove"}
      BY <2>1, <2>2, <2>4, <3>1 DEF CallOK, Collecting, Checking
    <3>3. CallFits(call[w], "unlock")
      BY <3>2, <2>1, RestingFits DEF Resting
    <3>4. Typed' /\ \A v \in Workers : WorkerFits(v)'
      BY <2>1, <2>2, <3>1, <3>3, WorkerMoves
    <3>. QED
      BY <3>4, <2>2, <1>2 DEF Fits
  <2>. QED
    BY <2>3, <2>4
<1>6. ASSUME NEW w \in Workers, Crash(w)
      PROVE  Fits'
  <2>1. UNCHANGED <<past, catalog, report>> /\ Continue(w, "idle", NoCall)
    BY <1>6 DEF Crash
  <2>2. Typed' /\ \A v \in Workers : WorkerFits(v)'
    <3>1. ReportFits(report[w])
      BY DEF CatalogInv, WorkerFits
    <3>. QED
      BY <2>1, <3>1, NoCallFits, WorkerMoves
  <2>. QED
    BY <2>1, <2>2, <1>2 DEF Fits
<1>7. CASE ClearLock
  <2>1. UNCHANGED <<past, catalog, pc, call, report>>
    BY <1>7 DEF ClearLock
  <2>. QED
    BY <2>1, <1>2, WorkersStay DEF Fits
<1>8. CASE UNCHANGED vars
  <2>1. UNCHANGED <<past, catalog, pc, call, report>>
    BY <1>8 DEF vars
  <2>. QED
    BY <2>1, <1>2, WorkersStay DEF Fits
<1>. QED
  BY <1>3, <1>4, <1>5, <1>6, <1>7, <1>8 DEF Next

-----------------------------------------------------------------------------
(* The lock. *)

(* A call goes on in, or leaves, its critical section, and writes no catalog. *)
LEMMA LockRests ==
  ASSUME CatalogInv, NEW w \in Workers, UNCHANGED <<lock, cleared, catalog>>, NEW c, NEW phase, Continue(w, phase, c),
         \/ c.op \notin {"build", "remove"}
         \/ phase = "lock"
         \/ /\ InCriticalSection(w) /\ c.op = call[w].op /\ c.begin = call[w].begin
            /\ phase = "unlock" \/ pc[w] # "unlock"
  PROVE  LockExcludes' /\ CatalogIsOlder'
<1>1. /\ DOMAIN pc = Workers /\ DOMAIN call = Workers
      /\ pc' = [pc EXCEPT ![w] = phase] /\ call' = [call EXCEPT ![w] = c]
  BY DEF CatalogInv, Continue
<1>2. \A v \in Workers : v # w => pc'[v] = pc[v] /\ call'[v] = call[v]
  BY <1>1
<1>3. pc'[w] = phase /\ call'[w] = c
  BY <1>1
<1>4. \A v \in Workers : InCriticalSection(v)' => InCriticalSection(v)
  BY <1>2, <1>3 DEF InCriticalSection
<1>5. LockExcludes'
  BY <1>4 DEF LockExcludes, CatalogInv
<1>6. \A v \in Workers :
        InCriticalSection(v)' /\ call'[v].op = "build" /\ pc'[v] # "unlock" =>
          call[v].op = "build" /\ pc[v] # "unlock" /\ call'[v].begin = call[v].begin
  BY <1>2, <1>3 DEF InCriticalSection
<1>7. CatalogIsOlder'
  BY <1>4, <1>6 DEF CatalogIsOlder, CatalogInv
<1>. QED
  BY <1>5, <1>7

LEMMA OutcomeKeepsLock ==
  ASSUME CatalogInv, NEW w \in Workers, pc[w] \in Collecting \cup Checking, Outcome(w)
  PROVE  LockExcludes' /\ CatalogIsOlder'
<1>1. CallOK(call[w], pc[w])
  BY DEF CatalogInv, WorkerFits, CallFits
<1>2. call[w].op \in {"build", "audit"} /\ pc[w] \notin {"lock", "unlock"}
  BY <1>1 DEF CallOK, Collecting, Checking
<1>3. NoCall.op = "none"
  BY DEF NoCall
<1>4. CASE Stop(w)
  <2>1. UNCHANGED <<lock, cleared, catalog>>
    BY <1>4 DEF Stop, Answer, Reads, bounds
  <2>2. \/ Continue(w, "idle", NoCall)
        \/ Continue(w, "unlock", call[w]) /\ call[w].op = "build"
    BY <1>4, <1>2 DEF Stop, Answer
  <2>3. CASE Continue(w, "idle", NoCall)
    BY <2>1, <2>3, <1>3, LockRests
  <2>4. CASE Continue(w, "unlock", call[w]) /\ call[w].op = "build"
    <3>1. InCriticalSection(w)
      BY <2>4, <1>2 DEF InCriticalSection
    <3>. QED
      BY <2>1, <2>4, <3>1, LockRests
  <2>. QED
    BY <2>2, <2>3, <2>4
<1>5. ASSUME NEW c, NEW phase, GoesOn(w, c, phase)
      PROVE  LockExcludes' /\ CatalogIsOlder'
  <2>1. UNCHANGED <<lock, cleared, catalog>> /\ Continue(w, phase, c) /\ c.op = call[w].op /\ c.begin = call[w].begin
    BY <1>5 DEF GoesOn, Reads, bounds
  <2>2. c.op \in {"build", "remove"} => InCriticalSection(w)
    BY <2>1, <1>2 DEF InCriticalSection
  <2>. QED
    BY <2>1, <2>2, <1>2, LockRests
<1>. QED
  BY <1>4, <1>5 DEF Outcome

LEMMA StepKeepsLock ==
  ASSUME CatalogInv, NEW w \in Workers, Step(w)
  PROVE  LockExcludes' /\ CatalogIsOlder'
<1>1. /\ CallFits(call[w], pc[w]) /\ PastInv /\ CallOK(call[w], pc[w]) /\ LockExcludes /\ CatalogIsOlder
      /\ DOMAIN pc = Workers /\ DOMAIN call = Workers
  BY DEF CatalogInv, WorkerFits, CallFits
<1>2. NoCall.op = "none"
  BY DEF NoCall
<1>3. ASSUME NEW c, NEW phase, Continue(w, phase, c)
      PROVE  /\ pc'[w] = phase /\ call'[w] = c
             /\ \A v \in Workers : v # w => pc'[v] = pc[v] /\ call'[v] = call[v]
  BY <1>1, <1>3 DEF Continue
<1>4. CASE rebuild_academic_catalog(w)
  <2>. DEFINE c == [NoCall EXCEPT !.op = "build", !.number = calls + 1, !.begin = Len(past), !.stored = None]
  <2>1. lock = Nobody /\ lock' = w /\ UNCHANGED <<cleared, catalog>> /\ Continue(w, "list", c)
    BY <1>4 DEF rebuild_academic_catalog, Begin
  <2>2. c.begin = Len(past)
    BY DEF NoCall
  <2>. HIDE DEF c
  <2>3. ~ cleared => \A v \in Workers : ~ InCriticalSection(v)
    BY <2>1, <1>1, StoresAssumption DEF LockExcludes
  <2>4. /\ pc'[w] = "list" /\ call'[w] = c
        /\ \A v \in Workers : v # w => pc'[v] = pc[v] /\ call'[v] = call[v]
    BY <2>1, <1>3
  <2>5. \A v \in Workers : v # w => (InCriticalSection(v)' <=> InCriticalSection(v))
    BY <2>4 DEF InCriticalSection
  <2>6. LockExcludes'
    BY <2>1, <2>3, <2>5 DEF LockExcludes
  <2>7. catalog # None => catalog.at <= Len(past)
    BY PastFacts DEF CatalogInv, CatalogFits, Instants
  <2>8. CatalogIsOlder'
    BY <2>1, <2>2, <2>3, <2>4, <2>5, <2>7 DEF CatalogIsOlder
  <2>. QED
    BY <2>6, <2>8
<1>5. CASE remove_academic_catalog(w)
  <2>. DEFINE c == [NoCall EXCEPT !.op = "remove", !.number = calls + 1, !.begin = Len(past), !.stored = None]
  <2>1. UNCHANGED <<lock, cleared, catalog>> /\ Continue(w, "lock", c)
    BY <1>5 DEF remove_academic_catalog, Begin
  <2>. HIDE DEF c
  <2>. QED
    BY <2>1, LockRests
<1>6. CASE _scan_catalog(w)
  <2>. DEFINE c == [NoCall EXCEPT !.op = "audit", !.number = calls + 1, !.begin = Len(past), !.stored = catalog]
  <2>1. UNCHANGED <<lock, cleared, catalog>> /\ Continue(w, "list", c)
    BY <1>6 DEF _scan_catalog, Begin
  <2>2. c.op = "audit"
    BY DEF NoCall
  <2>. HIDE DEF c
  <2>. QED
    BY <2>1, <2>2, LockRests
<1>7. CASE AcquireLock(w)
  <2>1. pc[w] = "lock" /\ UNCHANGED <<catalog, cleared>>
    BY <1>7 DEF AcquireLock, bounds
  <2>2. CASE lock = Nobody
    <3>1. lock' = w /\ Continue(w, "unlink", call[w]) /\ call[w].op = "remove"
      BY <2>1, <2>2, <1>1, <1>7 DEF AcquireLock, CallOK
    <3>2. ~ cleared => \A v \in Workers : ~ InCriticalSection(v)
      BY <2>2, <1>1, StoresAssumption DEF LockExcludes
    <3>3. /\ pc'[w] = "unlink" /\ call'[w] = call[w]
          /\ \A v \in Workers : v # w => pc'[v] = pc[v] /\ call'[v] = call[v]
      BY <3>1, <1>3
    <3>4. \A v \in Workers : v # w => (InCriticalSection(v)' <=> InCriticalSection(v))
      BY <3>3 DEF InCriticalSection
    <3>. QED
      BY <2>1, <3>1, <3>2, <3>3, <3>4 DEF LockExcludes, CatalogIsOlder
  <2>3. CASE lock # Nobody
    <3>1. UNCHANGED <<lock, cleared, catalog>> /\ Continue(w, "idle", NoCall)
      BY <2>1, <2>3, <1>7 DEF AcquireLock
    <3>. QED
      BY <3>1, <1>2, LockRests
  <2>. QED
    BY <2>2, <2>3
<1>8. CASE _discover_base_paths(w)
  BY <1>8, <1>1, ListOutcome, OutcomeKeepsLock DEF _discover_base_paths, Collecting
<1>9. CASE ReadFiles(w)
  BY <1>9, <1>1, ReadOutcome, OutcomeKeepsLock DEF ReadFiles, Collecting
<1>10. CASE ReadClass(w)
  BY <1>10, <1>1, ClassOutcome, OutcomeKeepsLock DEF ReadClass, Collecting
<1>11. CASE ReadAgain(w)
  BY <1>11, <1>1, AgainOutcome, OutcomeKeepsLock DEF ReadAgain, Checking
<1>12. CASE ListAgain(w)
  BY <1>12, <1>1, RelistOutcome, OutcomeKeepsLock DEF ListAgain, Checking
<1>13. CASE CheckMissingClass(w)
  BY <1>13, <1>1, PresentOutcome, OutcomeKeepsLock DEF CheckMissingClass, Checking
<1>14. CASE Replace(w) \/ Unlink(w)
  <2>1. pc[w] \in {"replace", "unlink"} /\ UNCHANGED <<lock, cleared>> /\ Continue(w, "unlock", call[w])
    BY <1>14 DEF Replace, Unlink, bounds
  <2>2. InCriticalSection(w)
    BY <2>1, <1>1 DEF CallOK, Checking, InCriticalSection
  <2>3. /\ pc'[w] = "unlock" /\ call'[w] = call[w]
        /\ \A v \in Workers : v # w => pc'[v] = pc[v] /\ call'[v] = call[v]
    BY <2>1, <1>3
  <2>4. \A v \in Workers : InCriticalSection(v)' => InCriticalSection(v)
    BY <2>2, <2>3 DEF InCriticalSection
  <2>5. LockExcludes'
    BY <2>1, <2>4, <1>1 DEF LockExcludes
  <2>6. ~ cleared => \A v \in Workers : InCriticalSection(v)' => v = w
    BY <2>2, <2>4, <1>1 DEF LockExcludes
  <2>7. CatalogIsOlder'
    BY <2>1, <2>3, <2>6 DEF CatalogIsOlder
  <2>. QED
    BY <2>5, <2>7
<1>15. CASE Unlock(w)
  <2>1. pc[w] = "unlock" /\ UNCHANGED <<catalog, cleared>> /\ lock' = Nobody /\ Continue(w, "idle", NoCall)
    BY <1>15 DEF Unlock, bounds
  <2>2. InCriticalSection(w)
    BY <2>1, <1>1 DEF CallOK, InCriticalSection
  <2>3. /\ pc'[w] = "idle" /\ call'[w] = NoCall
        /\ \A v \in Workers : v # w => pc'[v] = pc[v] /\ call'[v] = call[v]
    BY <2>1, <1>3
  <2>4. \A v \in Workers : InCriticalSection(v)' => v # w /\ InCriticalSection(v)
    BY <2>3, <1>2 DEF InCriticalSection
  <2>5. ~ cleared => \A v \in Workers : ~ InCriticalSection(v)'
    BY <2>2, <2>4, <1>1 DEF LockExcludes
  <2>. QED
    BY <2>1, <2>5 DEF LockExcludes, CatalogIsOlder
<1>16. CASE Compare(w)
  <2>1. UNCHANGED <<lock, cleared, catalog>> /\ Continue(w, "idle", NoCall)
    BY <1>16 DEF Compare, Answer, bounds
  <2>. QED
    BY <2>1, <1>2, LockRests
<1>. QED
  BY <1>4, <1>5, <1>6, <1>7, <1>8, <1>9, <1>10, <1>11, <1>12, <1>13, <1>14, <1>15, <1>16 DEF Step

LEMMA NextKeepsLock ==
  CatalogInv /\ [Next]_vars => LockExcludes' /\ CatalogIsOlder'
<1>. SUFFICES ASSUME CatalogInv, [Next]_vars PROVE LockExcludes' /\ CatalogIsOlder'
  OBVIOUS
<1>0. LockExcludes /\ CatalogIsOlder /\ PastInv
  BY DEF CatalogInv
<1>1. ASSUME UNCHANGED <<lock, cleared, catalog, pc, call>>
      PROVE  LockExcludes' /\ CatalogIsOlder'
  BY <1>0, <1>1 DEF LockExcludes, CatalogIsOlder, InCriticalSection
<1>2. CASE Write
  BY <1>0, <1>1, <1>2, WriteMoves DEF Untouched
<1>3. ASSUME NEW w \in Workers, Step(w)
      PROVE  LockExcludes' /\ CatalogIsOlder'
  BY <1>3, StepKeepsLock
<1>4. ASSUME NEW w \in Workers, OperationFails(w)
      PROVE  LockExcludes' /\ CatalogIsOlder'
  <2>1. pc[w] \notin {"lock", "unlock"} /\ UNCHANGED <<lock, cleared, catalog>>
    BY <1>4 DEF OperationFails
  <2>2. Continue(w, "idle", NoCall) \/ Continue(w, "unlock", call[w])
    BY <1>4 DEF OperationFails
  <2>3. CASE Continue(w, "idle", NoCall)
    <3>1. NoCall.op = "none"
      BY DEF NoCall
    <3>. QED
      BY <2>1, <2>3, <3>1, LockRests
  <2>4. CASE Continue(w, "unlock", call[w])
    <3>1. call[w].op \in {"build", "remove"} => InCriticalSection(w)
      BY <2>1 DEF InCriticalSection
    <3>. QED
      BY <2>1, <2>4, <3>1, LockRests
  <2>. QED
    BY <2>2, <2>3, <2>4
<1>5. ASSUME NEW w \in Workers, Crash(w)
      PROVE  LockExcludes' /\ CatalogIsOlder'
  <2>1. UNCHANGED <<lock, cleared, catalog>> /\ Continue(w, "idle", NoCall)
    BY <1>5 DEF Crash
  <2>2. NoCall.op = "none"
    BY DEF NoCall
  <2>. QED
    BY <2>1, <2>2, LockRests
<1>6. CASE ClearLock
  <2>1. /\ lock # Nobody /\ lock' = Nobody /\ UNCHANGED <<catalog, pc, call>>
        /\ cleared' = (cleared \/ InCriticalSection(lock))
    BY <1>6 DEF ClearLock
  <2>2. \A v \in Workers : InCriticalSection(v)' <=> InCriticalSection(v)
    BY <2>1 DEF InCriticalSection
  <2>3. ~ cleared' => ~ cleared /\ \A v \in Workers : ~ InCriticalSection(v)
    BY <2>1, <1>0 DEF LockExcludes
  <2>. QED
    BY <2>1, <2>2, <2>3 DEF LockExcludes, CatalogIsOlder
<1>7. CASE UNCHANGED vars
  BY <1>1, <1>7 DEF vars
<1>. QED
  BY <1>2, <1>3, <1>4, <1>5, <1>6, <1>7 DEF Next

-----------------------------------------------------------------------------
LEMMA InitFits ==
  Init => CatalogInv
<1>. SUFFICES ASSUME Init PROVE CatalogInv
  OBVIOUS
<1>1. PICK store \in InitialStores :
        /\ past = <<store>>
        /\ catalog \in {None} \cup
             IF _load_projection(store.files)
             THEN {[sources |-> Sources(store.files), from |-> 1, at |-> 1, serial |-> 0]} ELSE {}
  BY DEF Init
<1>2. /\ Len(past) = 1 /\ past[1] = store /\ Files = store.files /\ Instants = {1}
      /\ past \in Seq({past[k] : k \in DOMAIN past}) /\ past # <<>>
  BY <1>1 DEF Files, Now, Instants
<1>3. /\ DOMAIN store.files \subseteq BasePaths \cup {Class}
      /\ store.pending \subseteq DOMAIN store.files \ (Pointers \cup {Class})
      /\ \A path \in DOMAIN store.files \ {Class} :
           IF path \in Pointers THEN store.files[path] \in Nat ELSE store.files[path] \in {1, Torn}
  BY StoresAssumption
<1>4. PastInv
  <2>1. StateOK(1)
    BY <1>2, <1>3 DEF StateOK
  <2>2. FilesStay(1, 1) /\ ContentsDoNotReturn(1, 1, 1)
    <3>1. \A path \in Pointers \cap DOMAIN store.files : store.files[path] \in Nat
      BY <1>3, PathFacts
    <3>. QED
      BY <3>1, <1>2 DEF FilesStay, ContentsDoNotReturn
  <2>. QED
    BY <2>1, <2>2, <1>2 DEF PastInv
<1>5. CatalogFits
  <2>1. SUFFICES ASSUME catalog # None PROVE CatalogFits
    BY DEF CatalogFits
  <2>. DEFINE files == store.files
              sources == Sources(files)
  <2>2. Projectable(files) /\ ClassLoads(files) /\ catalog.sources = sources /\ catalog.from = 1 /\ catalog.at = 1
    BY <1>1, <2>1 DEF _load_projection
  <2>3. /\ DOMAIN sources \ {Class} = DOMAIN files \ {Class}
        /\ Class \in DOMAIN sources <=> Class \in DOMAIN files /\ HasWork(files)
        /\ \A path \in DOMAIN sources : sources[path] = files[path]
        /\ BaseOf(sources) = BaseOf(files)
    BY SourcesFacts
  <2>4. Projectable(BaseOf(sources))
    BY <2>2, <2>3, BaseIsProjectable
  <2>5. HasWork(sources) <=> HasWork(files)
    BY <2>3, BaseFacts
  <2>. HIDE DEF sources
  <2>6. Were(sources, DOMAIN sources, 1, 1)
    <3>1. \A path \in DOMAIN files \ {Class} : files[path] # Torn
      BY <2>2 DEF Projectable
    <3>2. 1 \in 1 .. 1
      OBVIOUS
    <3>. QED
      BY <3>1, <3>2, <2>3, <1>2 DEF Were, Holds
  <2>7. StaysFrom(1) \subseteq DOMAIN sources
    BY <2>3, <1>2 DEF StaysFrom
  <2>8. ClassFits(sources, 1)
    BY <2>3, <2>5, <1>2 DEF ClassFits, Holds
  <2>9. ClassLoads(sources)
    BY <2>2, <2>3, <2>5 DEF ClassLoads
  <2>10. 1 \in 1 .. 1
    OBVIOUS
  <2>. QED
    BY <2>2, <2>4, <2>6, <2>7, <2>8, <2>9, <2>10, <1>2 DEF CatalogFits
<1>6. \A w \in Workers : WorkerFits(w)
  BY NoCallFits DEF Init, WorkerFits
<1>7. LockExcludes /\ CatalogIsOlder
  <2>1. NoCall.op = "none"
    BY DEF NoCall
  <2>. QED
    BY <2>1 DEF Init, LockExcludes, CatalogIsOlder, InCriticalSection
<1>. QED
  BY <1>4, <1>5, <1>6, <1>7 DEF CatalogInv, Init

(***************************************************************************)
(* CatalogInv holds in every state: what each call has read are files that *)
(* were there between its beginning and now, none that stayed is missing,  *)
(* and a catalog holds the files of one instant of the past.               *)
(***************************************************************************)
THEOREM CatalogInvariance == Spec => []CatalogInv
<1>1. CatalogInv /\ [Next]_vars => CatalogInv'
  BY NextFits, NextKeepsLock DEF CatalogInv, Fits, Typed
<1>. QED
  BY <1>1, InitFits, PTL DEF Spec

LEMMA CatalogIsRecent ==
  CatalogInv => InstalledIsRecent
<1>1. SUFFICES ASSUME CatalogInv, catalog # None
               PROVE  \E k \in catalog.from .. catalog.at : Reflects(catalog.sources, past[k])
  BY DEF InstalledIsRecent
<1>2. PICK k \in catalog.from .. catalog.at :
        /\ Were(catalog.sources, DOMAIN catalog.sources, k, k)
        /\ StaysFrom(k) \subseteq DOMAIN catalog.sources
        /\ ClassFits(catalog.sources, k)
  BY <1>1 DEF CatalogInv, CatalogFits
<1>. DEFINE sources == catalog.sources
            files == past[k].files
<1>3. \A path \in DOMAIN sources \ {Class} : path \in DOMAIN files /\ files[path] = sources[path]
  <2>1. \A i \in k .. k : i = k
    BY <1>1 DEF CatalogInv, CatalogFits, Instants
  <2>. QED
    BY <1>2, <2>1 DEF Were, Holds
<1>4. \A path \in (DOMAIN files \ {Class}) \ past[k].pending : path \in DOMAIN sources
  BY <1>2 DEF StaysFrom
<1>5. /\ DOMAIN BaseOf(sources) = DOMAIN sources \ {Class}
      /\ \A path \in DOMAIN sources \ {Class} : BaseOf(sources)[path] = sources[path]
      /\ DOMAIN BaseOf(files) = DOMAIN files \ {Class}
      /\ \A path \in DOMAIN files \ {Class} : BaseOf(files)[path] = files[path]
  BY BaseFacts
<1>6. Agree(BaseOf(sources), BaseOf(files), past[k].pending)
  BY <1>3, <1>4, <1>5 DEF Agree
<1>7. IF Class \in DOMAIN sources THEN Class \in DOMAIN files /\ sources[Class] = files[Class]
      ELSE HasWork(sources) => Class \notin DOMAIN files
  BY <1>2 DEF ClassFits, Holds
<1>. QED
  BY <1>6, <1>7 DEF Reflects

(* A catalog is made of files as they stood together at one instant of its rebuild. *)
THEOREM InstalledIsRecentHolds == Spec => []InstalledIsRecent
BY CatalogInvariance, CatalogIsRecent, PTL

LEMMA ReportIsRight ==
  CatalogInv => AuditIsRight
<1>1. SUFFICES ASSUME CatalogInv, NEW w \in Workers, NEW answer, answer = report[w]
               PROVE  LET sources == answer.stored.sources
                          During == answer.begin .. answer.end
                      IN /\ answer.answer = "ready" =>
                              /\ \E k \in During : Agree(BaseOf(sources), BaseOf(past[k].files), past[k].pending)
                              /\ Class \in DOMAIN sources => \E k \in During : Class \in DOMAIN past[k].files
                                                                                /\ past[k].files[Class] = sources[Class]
                         /\ answer.answer = "invalid" /\ answer.quiet /\ answer.begin = answer.end =>
                              sources # Sources(past[answer.begin].files)
  BY DEF AuditIsRight
<1>. DEFINE sources == answer.stored.sources
            During == answer.begin .. answer.end
            k == answer.begin
            files == past[k].files
<1>2. ReportFits(answer)
  BY <1>1 DEF CatalogInv, WorkerFits
<1>3. answer.answer = "invalid" /\ answer.quiet /\ answer.begin = answer.end => sources # Sources(files)
  BY <1>2 DEF ReportFits
<1>4. ASSUME answer.answer = "ready"
      PROVE  /\ \E i \in During : Agree(BaseOf(sources), BaseOf(past[i].files), past[i].pending)
             /\ Class \in DOMAIN sources => \E i \in During : Holds(i, Class, sources[Class])
  <2>1. /\ k \in During /\ Were(sources, DOMAIN sources, k, k) /\ StaysFrom(k) \subseteq DOMAIN sources
        /\ Class \in DOMAIN sources => \E i \in During : Holds(i, Class, sources[Class])
        /\ k \in Nat
    BY <1>2, <1>4 DEF ReportFits
  <2>2. \A path \in DOMAIN sources \ {Class} : path \in DOMAIN files /\ files[path] = sources[path]
    <3>1. \A i \in k .. k : i = k
      BY <2>1
    <3>. QED
      BY <3>1, <2>1 DEF Were, Holds
  <2>3. \A path \in (DOMAIN files \ {Class}) \ past[k].pending : path \in DOMAIN sources
    BY <2>1 DEF StaysFrom
  <2>4. /\ DOMAIN BaseOf(sources) = DOMAIN sources \ {Class}
        /\ \A path \in DOMAIN sources \ {Class} : BaseOf(sources)[path] = sources[path]
        /\ DOMAIN BaseOf(files) = DOMAIN files \ {Class}
        /\ \A path \in DOMAIN files \ {Class} : BaseOf(files)[path] = files[path]
    BY BaseFacts
  <2>5. Agree(BaseOf(sources), BaseOf(files), past[k].pending)
    BY <2>2, <2>3, <2>4 DEF Agree
  <2>. QED
    BY <2>1, <2>5
<1>. QED
  BY <1>3, <1>4 DEF Holds

(* An audit calls a catalog ready or invalid with good reason. *)
THEOREM AuditIsRightHolds == Spec => []AuditIsRight
BY CatalogInvariance, ReportIsRight, PTL

LEMMA CatalogIsReplacedByNewer ==
  CatalogInv /\ [Next]_vars =>
    [catalog # None /\ catalog' # catalog /\ catalog' # None /\ ~ cleared => catalog'.from >= catalog.at]_vars
<1>1. SUFFICES ASSUME CatalogInv, Next, catalog # None, catalog' # catalog, catalog' # None, ~ cleared
               PROVE  catalog'.from >= catalog.at
  BY DEF vars
<1>2. \E w \in Workers : Replace(w)
  <2>1. ~ Write
    BY <1>1, WriteMoves DEF CatalogInv, Untouched
  <2>2. ~ ClearLock /\ \A w \in Workers : ~ OperationFails(w) /\ ~ Crash(w)
    BY <1>1 DEF ClearLock, OperationFails, Crash
  <2>3. PICK w \in Workers : Step(w)
    BY <1>1, <2>1, <2>2 DEF Next
  <2>4. ~ rebuild_academic_catalog(w) /\ ~ remove_academic_catalog(w) /\ ~ _scan_catalog(w)
    BY <1>1 DEF rebuild_academic_catalog, remove_academic_catalog, _scan_catalog, Begin
  <2>5. ~ Stop(w) /\ ~ Reads
    BY <1>1 DEF Stop, Answer, Reads
  <2>6. ~ AcquireLock(w) /\ ~ Unlock(w) /\ ~ Unlink(w) /\ ~ Compare(w)
    BY <1>1 DEF AcquireLock, Unlock, Unlink, Compare, Answer
  <2>7. ~ _discover_base_paths(w) /\ ~ ReadFiles(w) /\ ~ ReadClass(w)
    BY <2>5 DEF _discover_base_paths, ReadFiles, ReadClass
  <2>8. ~ ReadAgain(w) /\ ~ ListAgain(w) /\ ~ CheckMissingClass(w)
    BY <2>5 DEF ReadAgain, ListAgain, CheckMissingClass
  <2>. QED
    BY <2>3, <2>4, <2>6, <2>7, <2>8 DEF Step
<1>3. PICK w \in Workers : Replace(w)
  BY <1>2
<1>4. pc[w] = "replace" /\ catalog'.from = call[w].begin
  BY <1>3 DEF Replace
<1>5. CallOK(call[w], pc[w])
  BY <1>1 DEF CatalogInv, WorkerFits, CallFits
<1>6. call[w].op = "build" /\ call[w].begin \in Nat
  BY <1>4, <1>5 DEF CallOK, Checking, Instants
<1>7. InCriticalSection(w)
  BY <1>4, <1>6 DEF InCriticalSection
<1>8. catalog.at <= call[w].begin
  BY <1>1, <1>4, <1>6, <1>7 DEF CatalogInv, CatalogIsOlder
<1>9. catalog.at \in Nat
  BY <1>1 DEF CatalogInv, CatalogFits, Instants
<1>. QED
  BY <1>4, <1>6, <1>8, <1>9

(* The lock keeps a rebuild that began before a catalog was installed from replacing it. *)
THEOREM CatalogNeverGoesBackHolds == Spec => CatalogNeverGoesBack
BY CatalogInvariance, CatalogIsReplacedByNewer, PTL DEF Spec, CatalogNeverGoesBack
=============================================================================
