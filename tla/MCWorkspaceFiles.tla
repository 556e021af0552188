------------------------------ MODULE MCWorkspaceFiles ------------------------------
(* Small values for every component of WorkspaceFiles. *)
EXTENDS WorkspaceFiles, TLC

CONSTANTS w1, w2

(* Two signals under one ID, the second with two dimensions; rosters with a student in the wrong class. *)
Dimension(id, count) == [dimension_id |-> id, band_count |-> count]
Band(student, dimension, band) == [student_id |-> student, dimension_id |-> dimension, band |-> band]
ASignal(created, dimensions, bands) ==
  [signal_set_id |-> "x", class_id |-> "c1", created_at |-> created, dimensions |-> dimensions, student_bands |-> bands]
MCSignals ==
  {ASignal(1, {Dimension("m", 2)}, {Band("a", "m", 1)}),
   ASignal(2, {Dimension("m", 2), Dimension("r", 2)}, {Band("a", "m", 1), Band("b", "r", 2)})}
MCClassRosters == {[c1 |-> {"a", "b"}, c2 |-> {}], [c1 |-> {"a"}, c2 |-> {"b"}], [c1 |-> {"c"}, c2 |-> {"a"}]}

(* Packs that agree, extend and contradict each other. *)
Standard(text) == [text |-> text, active |-> TRUE]
Profile(standards, text) == [standards |-> standards, text |-> text]
Framework(origin, text) == [source |-> origin, text |-> text]
MCDefinitions == {Standard(1), Standard(2)}
MCPacks ==
  {[standards |-> "s1" :> Standard(1), profiles |-> "p1" :> Profile({"s1"}, 1), frameworks |-> "f1" :> Framework("src", 1)],
   [standards |-> "s1" :> Standard(2) @@ "s2" :> Standard(1), profiles |-> "p1" :> Profile({"s1", "s2"}, 1),
    frameworks |-> "f2" :> Framework("src", 1)],
   [standards |-> "s2" :> Standard(1), profiles |-> "p1" :> Profile({"s2"}, 2), frameworks |-> "f1" :> Framework("src", 2)]}
MCLibraryFiles ==
  {[standards |-> "s1" :> Standard(2), profiles |-> "p2" :> Profile({"s1"}, 1), frameworks |-> << >>],
   [standards |-> << >>, profiles |-> "p1" :> Profile({"s1"}, 1), frameworks |-> << >>]}

(* A session of the menu: a standard and its subpart, one profile, one pack, two libraries and a profile to import. *)
MCMenuPacks == {pack \in MCPacks : pack.standards = ("s2" :> Standard(1))}
MCSubpartsOf(id) == {"s1.A"}
MCBatches == {"s1" :> Standard(1)}
Whole(l) == [kind |-> "library", content |-> l]
Single(id, profile) == [kind |-> "profile", id |-> id, content |-> profile]
MCImports ==
  {Whole(pack) : pack \in MCMenuPacks}
    \cup {Whole([standards |-> "s1.A" :> Standard(1), profiles |-> << >>, frameworks |-> << >>]),
          Single("p1", Profile({"s2"}, 3))}

MCRewrites == {<<>>, <<"e1">>}

(* Packages for the modules quiz and grade: good ones, rivals, and what can be wrong with one. *)
Point(sort, name, origin, gives, profile) ==
  [kind |-> sort, name |-> name, distribution |-> origin, gives |-> gives, profile |-> profile]
Module(id, contracts) ==
  [module_id |-> id, contracts |-> contracts, qr_schemas |-> {"PDS2"}, registration_schemas |-> {"1"}, dispatchable |-> {"active"}]
Contract(manifests, sources, readers) ==
  [kind |-> "academic_result_set", manifests |-> manifests, capabilities |-> {"scores"}, sources |-> sources,
   missing_source |-> FALSE, readers |-> {[manifest |-> r, distribution |-> "quiz-tools", version |-> "v1"] : r \in readers}]
Row(versions, unversioned) == [record_kind |-> "test", versions |-> versions, unversioned |-> unversioned]
Producer(id, schemas, contracts) ==
  [module_id |-> id, core_schemas |-> schemas, work_contracts |-> {"1"}, publication_contracts |-> contracts]
Producers ==
  {Producer("quiz", {"1"}, {Contract({"m1"}, {Row({"1"}, FALSE)}, {"m1"})}),
   Producer("quiz", {"1", "2"}, {Contract({"m1", "m2"}, {Row({"1", "2"}, TRUE)}, {})}),
   Producer("grade", {"2"}, {Contract({"m1"}, {Row({"1"}, FALSE)}, {"m2"})}),
   Producer("grade", {"2"}, {[Contract({"m1"}, {}, {}) EXCEPT !.kind = "intervention_record_set"]})}
Report(capability, evaluation, ready, notices, summaries) ==
  [raises |-> FALSE,
   report |-> [capability |-> capability, evaluation |-> evaluation, ready |-> ready, notices |-> notices, summaries |-> summaries]]
Summary(count, class, work, action) == [count |-> count, class_id |-> class, work |-> work, action |-> action]
WorkOf(id, class) == [module_id |-> id, class_id |-> class]
Attention(summary) == Report("attention", "evaluated", None, << >>, <<summary>>)
Readiness == {None, [raises |-> TRUE], Report("readiness", "evaluated", TRUE, <<"quiz">>, << >>)}
Attentions ==
  {None, Attention(Summary(1000000, "c1", WorkOf("quiz", "c1"), "quiz")), Attention(Summary(1000001, "c1", None, None)),
   Attention(Summary(1, None, WorkOf("quiz", "c2"), None)), Attention(Summary(None, None, WorkOf("grade", "c1"), None)),
   Report("attention", "unavailable", None, <<"grade">>, << >>),
   Report("attention", "unavailable", None, [k \in 1 .. 17 |-> None], << >>)}
MCEntryPoints ==
  {Point("routing_module", "quiz", d, "profile", Module("quiz", {"1"})) : d \in {1, 2}}
  \cup {Point("routing_module", "quiz", 3, "profile", Module("quiz", {"9"})),
        Point("routing_module", "grade", 1, "profile", Module("quiz", {"1"})),
        Point("routing_module", "grade", 2, "profile", Module("grade", {})),
        Point("routing_module", "Bad Name", 1, "profile", Module("quiz", {"1"}))}
  \cup {Point("routing_module", "grade", 3, gives, None) : gives \in {"load_failed", "not_callable", "wrong_type"}}
  \cup {Point("publication_producer", p.module_id, 1, "profile", p) : p \in Producers}
  \cup {Point("module_operations", "quiz", 1, "profile",
              [module_id |-> "quiz", contracts |-> {"1"}, readiness |-> r, attention |-> a]) : r \in Readiness, a \in Attentions}
MCOperationRequests == {[class_id |-> c] : c \in {None, "c1"}}
APublication(manifest, version) ==
  [work |-> WorkOf("quiz", "c1"), schema |-> "1", kind |-> "academic_result_set", revision |-> 1, manifest |-> manifest,
   capabilities |-> {"scores"}, source |-> [module_id |-> "quiz", record_kind |-> "test", version |-> version]]
MCPublications == {APublication(m, v) : m \in {"m1", "m2"}, v \in {None, "1"}}
MCPublicationRegistrations == {[work |-> WorkOf("quiz", "c1"), revision |-> 1, contract |-> c] : c \in {"1", "2"}}
MCRouteRequests == {[module_id |-> "quiz", schema |-> s] : s \in {"PDS2", "PDS9"}}

MCEnvironment == w1 :> None @@ w2 :> "usb"

(* Standards that share some values, one with a separator in its category; profiles of a course. *)
Described(id, about, courses, path_, modules) ==
  [standard_id |-> id, subject |-> about, source |-> "src", course |-> courses, domain |-> None,
   category_path |-> path_, active |-> id # "s3", available_modules |-> modules]
Used(id, type, assignment) == [standard_id |-> id, usage_type |-> type, module |-> "quiz", assignment_id |-> assignment]
MCDescriptions ==
  {Described("s1", "ela", "c12", <<<<"reading">>, <<"prose">>>>, {"quiz"}),
   Described("s2", None, None, <<<<"reading">>>>, {}), Described("s3", "ela", "c11", << >>, {"quiz"}),
   Described("s4", "math", "c12", <<<<"data", "charts">>>>, {"quiz", "grade"})}
MCProfileRecords ==
  {[profile_id |-> "p1", standards |-> {"s2", "s3"}, subject |-> None, course |-> "c12", source |-> "src"],
   [profile_id |-> "p2", standards |-> {"s1"}, subject |-> "ela", course |-> None, source |-> None]}
MCUsageEvents == {Used("s1", "assessed", None), Used("s1", "taught", "a1"), Used("s9", "taught", None)}

(* A lock of every kind, and what may stand in its place or beside it. *)
At(place, sort) == [path |-> place, sort |-> sort]
Series == <<"publication", "c", "m", "W", "k">>
MCLockFile == "s" :> "s.lock"
MCClassYears == "c" :> "y1"
MCArtifacts ==
  {At(<<"core", "catalog.lock">>, "file"), At(<<"core", "x">>, "file"),
   At(<<"period", "y1", ".write.lock">>, "file"), At(<<"period", "y2", ".write.lock">>, "other"), At(<<"period", "y1">>, "other"),
   At(<<"period", "c", ".write.lock">>, "file"), At(<<"period", "y1", "revisions", "1">>, "file"),
   At(<<"registration", "c", "m", "W", ".write.lock">>, "file"), At(<<"registration", "W", "c", "c", ".write.lock">>, "file"),
   At(<<"registration", "c", "W", "c", ".write.lock">>, "file"), At(<<"registration", ".hidden">>, "directory"),
   At(<<"registration", "c", "m", "W", ".current.json.tmp">>, "file"), At(<<"registration", "c", "m", "W", "current.json">>, "file"),
   At(<<"registration", "c", "m">>, "file"),
   At(Append(Series, "s.lock"), "file"), At(Append(Series, "s.lock"), "directory"), At(Append(Series, "s"), "file"),
   At(<<"publication", "W", "m", "c", "junk", "s.lock">>, "file"), At(<<"publication", "c", "m", "c", "k", "s.lock">>, "file")}

(* The commands of the registry, and two publications of one series. *)
MCRecords ==
  [p1 |-> [series |-> "s", supersedes |-> None, revision |-> 1], p2 |-> [series |-> "s", supersedes |-> "p1", revision |-> 1]]
Command(op, entity, id, verify) ==
  [op |-> op, entity |-> entity, id |-> id, revision |-> None, state |-> "all", verify |-> verify]
MCRequests ==
  {Command("list", "publication", None, FALSE), Command("show", "publication", "p1", TRUE),
   Command("show", "withdrawal", "p1", FALSE), Command("list", "registration", None, FALSE),
   Command("show", "catalog", None, FALSE)}
=============================================================================
