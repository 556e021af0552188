------------------------------ MODULE AcademicCatalog ------------------------------
(***************************************************************************)
(* What academic_catalog.py makes of the canonical files, how it verifies  *)
(* the database made of them, and what registry_audit.py finds wrong with  *)
(* the same files: three implementations of one notion of valid state.     *)
(*                                                                         *)
(* Files are a function from the paths that exist to their contents. Paths *)
(* are pairs: Class, <<"publications", p>>, <<"withdrawals", p>>, and for  *)
(* each history h (the registrations of a work, the calendars of a school  *)
(* year) <<h, 0>> for the current pointer and <<h, n>> for revision n. The *)
(* content of a pointer is the revision it selects; that of another file   *)
(* tells one writing of it from the next, or is Torn.                      *)
(***************************************************************************)
EXTENDS Integers, FiniteSets

CONSTANTS
  Histories,    \* subset of {"periods", "registrations"}
  Publications, \* the publication IDs
  Record,       \* of each one: [series, revision, supersedes, registration]
  Torn,         \* the content of a file that is being written, and of class metadata that does not load
  None          \* no catalog, no predecessor, no registration

Class == <<"class", "class.json">>
Pointer(h) == <<h, 0>>
Revisions(files, h) == {n \in {path[2] : path \in {q \in DOMAIN files : q[1] = h}} : n > 0}
Ids(files, collection) == {path[2] : path \in {q \in DOMAIN files : q[1] = collection}}
Published(files) == Ids(files, "publications")
Withdrawn(files) == Ids(files, "withdrawals")
SeriesOf(files, p) == {q \in Published(files) : Record[q].series = Record[p].series}
Superseded(ids) == {Record[p].supersedes : p \in ids} \ {None}
Latest(revisions) == CHOOSE n \in revisions : \A m \in revisions : m <= n

(* validate_academic_work_registration_transition asks for the next revision, that of calendars for a later one. *)
Transition(h, m, n) == IF h = "registrations" THEN n = m + 1 ELSE n > m
Consecutive(revisions) == {p \in revisions \X revisions : p[1] < p[2] /\ ~ \E k \in revisions : p[1] < k /\ k < p[2]}

(* validate_publication_record_series *)
ValidSeries(ids) ==
  /\ \A p, q \in ids : Record[p].revision = Record[q].revision => p = q
  /\ Cardinality({p \in ids : Record[p].supersedes = None}) = 1
  /\ \A p \in ids : Record[p].supersedes # None =>
       /\ Record[p].supersedes \in ids
       /\ Record[p].revision > Record[Record[p].supersedes].revision
       /\ \A q \in ids : Record[q].supersedes = Record[p].supersedes => p = q

-----------------------------------------------------------------------------
(***************************************************************************)
(* _load_projection raises no error for the base files: every one parses,  *)
(* each pointer selects the last of a chain of revisions, each academic    *)
(* publication finds its registration revision, each series is one chain   *)
(* and each withdrawal has its publication.                                *)
(***************************************************************************)
(* Mutant of SeriesProjectable: only the revision numbers are looked at. *)
SeriesProjectableByRevision(files) ==
  \A p \in Published(files) : \A q \in SeriesOf(files, p) : Record[p].revision = Record[q].revision => p = q

SeriesProjectable(files) == \A p \in Published(files) : ValidSeries(SeriesOf(files, p))

Projectable(files) ==
  /\ \A path \in DOMAIN files \ {Class} : files[path] # Torn
  /\ \A h \in Histories :
       LET revisions == Revisions(files, h)
       IN /\ \A step \in Consecutive(revisions) : Transition(h, step[1], step[2])
          /\ Pointer(h) \in DOMAIN files <=> revisions # {}
          /\ revisions # {} => files[Pointer(h)] = Latest(revisions)
  /\ \A p \in Published(files) :
       Record[p].registration # None => Record[p].registration \in Revisions(files, "registrations")
  /\ SeriesProjectable(files)
  /\ Withdrawn(files) \subseteq Published(files)

(* Then it reads the metadata of the classes referred to: there may be none, but none that does not load. *)
HasWork(files) == Published(files) # {} \/ Revisions(files, "registrations") # {}
ClassLoads(files) == HasWork(files) /\ Class \in DOMAIN files => files[Class] # Torn
_load_projection(files) == Projectable(files) /\ ClassLoads(files)

(* _insert_projection *)
RevisionRows(files) ==
  UNION {{[history |-> h, revision |-> n, is_current |-> n = files[Pointer(h)]] : n \in Revisions(files, h)} :
           h \in Histories}

PublicationRows(files) ==
  {LET head == p \notin Superseded(Published(files))
       withdrawn == p \in Withdrawn(files)
   IN [publication_id |-> p, is_series_head |-> head, is_withdrawn |-> withdrawn,
       is_current_selectable |-> head /\ ~ withdrawn] : p \in Published(files)}

(* The conditions of query_publication_catalog on each publication state. *)
query_publication_catalog(rows, state) ==
  {row \in rows : CASE state = "current" -> row.is_current_selectable
                    [] state = "series_heads" -> row.is_series_head
                    [] state = "historical" -> ~ row.is_series_head
                    [] state = "withdrawn" -> row.is_withdrawn
                    [] state = "all" -> TRUE}

(* _verify and _verify_semantic_histories, of the rows and the source inventory. *)
Verified(revisions, rows, sources) ==
  /\ \A h \in Histories :
       LET history == {r \in revisions : r.history = h}
           current == {r \in history : r.is_current}
       IN /\ \A step \in Consecutive({r.revision : r \in history}) : Transition(h, step[1], step[2])
          /\ history # {} =>
               Cardinality(current) = 1 /\ \A r \in history, c \in current : r.revision <= c.revision
  /\ \A row \in rows :
       LET ids == {r.publication_id : r \in rows} \cap SeriesOf(sources, row.publication_id)
       IN /\ ValidSeries(ids)
          /\ row.is_series_head <=> row.publication_id \notin Superseded(ids)
          /\ row.is_current_selectable <=> row.is_series_head /\ ~ row.is_withdrawn
          /\ row.is_withdrawn <=> row.publication_id \in Withdrawn(sources)
  /\ Withdrawn(sources) \subseteq {row.publication_id : row \in rows}

-----------------------------------------------------------------------------
(***************************************************************************)
(* The canonical part of the audit (periods, registrations, publications   *)
(* and withdrawals): the codes of its errors. It asks for the producer's   *)
(* directory of every work that has a directory of registrations, which    *)
(* the projection does not; hasRoot tells whether it is there. Of class    *)
(* metadata it wants to know the school year only, and finds none in what  *)
(* does not load.                                                          *)
(***************************************************************************)

Whole(files, h) == {n \in Revisions(files, h) : files[<<h, n>>] # Torn}
Loaded(files, collection) == {p \in Ids(files, collection) : files[<<collection, p>>] # Torn}

(* _scan_periods, _scan_registrations *)
HistoryErrors(files, h) ==
  LET valid == Whole(files, h)
      pointed == Pointer(h) \in DOMAIN files
      current == {n \in valid : pointed /\ n = files[Pointer(h)]}
  IN {code \in {"revision_invalid", "transition_invalid", "pointer_invalid", "pointer_missing"} :
        CASE code = "revision_invalid" -> valid # Revisions(files, h)
          [] code = "transition_invalid" -> \E step \in Consecutive(valid) : ~ Transition(h, step[1], step[2])
          [] code = "pointer_invalid" ->
               \/ pointed /\ current = {}
               \/ current # {} /\ current # {Latest(valid)}
          [] code = "pointer_missing" -> valid # {} /\ ~ pointed}

(* _scan_publications *)
PublicationErrors(files) ==
  LET records == Loaded(files, "publications")
      Of(p) == {q \in records : Record[q].series = Record[p].series}
  IN {code \in {"record_invalid", "registration_missing", "logical_revision_duplicate", "series_invalid",
                "competing_head", "withdrawal_invalid", "withdrawal_orphan"} :
        CASE code = "record_invalid" -> records # Published(files)
          [] code = "registration_missing" ->
               \E p \in records : Record[p].registration # None
                                  /\ Record[p].registration \notin Whole(files, "registrations")
          [] code = "logical_revision_duplicate" ->
               \E p \in records : \E q \in Of(p) : p # q /\ Record[p].revision = Record[q].revision
          [] code = "series_invalid" -> \E p \in records : ~ ValidSeries(Of(p))
          [] code = "competing_head" -> \E p \in records : Cardinality(Of(p) \ Superseded(Of(p))) > 1
          [] code = "withdrawal_invalid" -> Loaded(files, "withdrawals") # Withdrawn(files)
          [] code = "withdrawal_orphan" -> ~ Loaded(files, "withdrawals") \subseteq records}

(* _scan_registrations, of the work itself *)
RootErrors(files, hasRoot) ==
  {code \in {"producer_work_missing"} : ~ hasRoot /\ \E path \in DOMAIN files : path[1] = "registrations"}

CanonicalErrors(files, hasRoot) ==
  (UNION {HistoryErrors(files, h) : h \in Histories}) \cup RootErrors(files, hasRoot) \cup PublicationErrors(files)

-----------------------------------------------------------------------------
(***************************************************************************)
(* Projection and audit disagree in two ways only: the audit objects to a  *)
(* work whose directory is missing, the projection to class metadata that  *)
(* does not load. What is projected passes verification, and publication   *)
(* states cut the catalog as they are meant to.                            *)
(***************************************************************************)
Sound(files) ==
  /\ \A hasRoot \in BOOLEAN : Projectable(files) <=> CanonicalErrors(files, hasRoot) \subseteq {"producer_work_missing"}
  /\ Projectable(files) =>
       LET rows == PublicationRows(files)
           Query(state) == query_publication_catalog(rows, state)
       IN /\ Verified(RevisionRows(files), rows, files)
          /\ \A p \in Published(files) :
               Cardinality({row \in Query("series_heads") : row.publication_id \in SeriesOf(files, p)}) = 1
          /\ Query("current") = Query("series_heads") \ Query("withdrawn")
=============================================================================
