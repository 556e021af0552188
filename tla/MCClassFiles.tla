------------------------------- MODULE MCClassFiles -------------------------------
(* Small files of every component of ClassFiles. *)
EXTENDS ClassFiles, TLC

CONSTANTS w1, w2

Symmetry == Permutations(Writers)

PeriodOf(id, type, parent, sequence, start, end) ==
  [period_id |-> id, period_type |-> type, parent_period_id |-> parent, sequence |-> sequence,
   start_date |-> start, end_date |-> end, lifecycle |-> "active"]
Year == PeriodOf("y", "year", NoParent, 1, 1, 4)
Fall == PeriodOf("f", "term", "y", 1, 1, 2)
Spring == PeriodOf("s", "term", "y", 2, 3, 4)
Unit == PeriodOf("u", "unit", "f", 1, 1, 1)
CalendarOf(created, updated, periods) == [created_at |-> created, updated_at |-> updated, periods |-> periods]

(* One year, a full tree, one that changes a period's type, and one whose parents go round in a circle. *)
SomeCalendars ==
  {CalendarOf(1, 1, {Year}),
   CalendarOf(1, 2, {Year, Fall, Spring, Unit}),
   CalendarOf(1, 2, {Year, [Fall EXCEPT !.period_type = "unit"]}),
   CalendarOf(1, 1, {PeriodOf("a", "t", "b", 1, 1, 1), PeriodOf("b", "t", "c", 1, 1, 1), PeriodOf("c", "t", "a", 1, 1, 1)})}
YearDates == 1 .. 4

(* Three student records, two of one student. *)
Student(id, details) == [student_id |-> id, details |-> details]
MCStudents == {Student("a", 1), Student("a", 2), Student("b", 1)}
MCCandidates == {<<Student("a", 1)>>, <<Student("b", 1), Student("a", 2)>>}

(* Rosters cell by cell: padded and blank cells, short, empty and long lines, another column, another class. *)
Cell(text) == [text |-> text, padded |-> FALSE]
Padded(text) == [text |-> text, padded |-> TRUE]
Pupil(id, name) == [class_id |-> Cell("c1"), student_id |-> id, name |-> name]
Item(key, value) == [key |-> key, value |-> value]
Columns == <<Cell("class_id"), Cell("student_id"), Cell("name")>>
WithNotes == <<Padded("student_id"), Cell("name"), Cell("class_id"), Cell("note")>>
Sheet(header, content) == [header |-> header, lines |-> content]
MCPupils ==
  {Pupil(Cell("a"), Padded("n2")), Pupil(Padded("a"), Cell("n1")), Pupil(Cell("b"), Cell("")),
   Pupil(Cell("b"), Cell("n1")) @@ ("note" :> Cell("x")), Pupil(Cell("b"), Cell("n2")), Pupil(Padded("c"), Cell("n1"))}
MCCreations ==
  {[students |-> <<<<Item(Cell("student_id"), Cell("a")), Item(Padded("name"), Cell("n1")), Item(Cell("name"), Cell(""))>>>>,
    columns |-> << >>],
   [students |-> <<<<Item(Cell("student_id"), Cell("b")), Item(Cell("name"), Cell("n1"))>>>>, columns |-> WithNotes]}
MCImports ==
  {Sheet(Columns, <<<<Cell("c1"), Cell("a"), Padded("n1")>>>>),
   Sheet(WithNotes, <<<<Padded("b"), Cell("n1"), Cell("c1")>>, << >>, <<Cell("a"), Cell("n2"), Cell("c1"), Cell("")>>>>),
   Sheet(Columns, <<<<Cell("c1"), Cell("a"), Cell("n1")>>, <<Cell("c1"), Padded("a"), Cell("n2")>>>>),
   Sheet(Columns, <<<<Cell("c1"), Cell("a"), Cell("n1"), Cell("x")>>>>),
   Sheet(Columns, <<<<Cell("c2"), Cell("a"), Cell("n1")>>>>)}

Metadata(created, updated) == [class_id |-> "c1", year |-> "y1", created_at |-> created, updated_at |-> updated]
MCClassMetadata == {Metadata(1, 2), Metadata(2, 1)}

(* One active module, two registrations of a route, two failures and two resolutions under one ID. *)
D == INSTANCE ModuleDispatch
MCRegistry ==
  CHOOSE registry \in
    D!build_module_registry(<<[module_id |-> "quiz", contracts |-> {"1"}, qr_schemas |-> {"PDS2"},
                               registration_schemas |-> {"1"}, dispatchable |-> {"active"}]>>, <<>>) : TRUE
Route(place, status) ==
  [module_id |-> "quiz", route_id |-> "r", target |-> place, target_module |-> "quiz", schema_version |-> "1", status |-> status]
MCRegistrations == {Route("a", "active"), Route("b", "retired")}
Request(time, origin) ==
  [module_id |-> "quiz", route_id |-> "r", schema |-> "PDS2", failure_id |-> "f", created_at |-> time, provenance |-> origin]
MCRequests == {Request(1, "s1"), Request(2, "s2")}
Resolution(origin, time) ==
  [resolution_id |-> "z", failure_id |-> "f", provenance |-> origin, resolved_at |-> time, resolution_status |-> "resolved",
   resolution_action |-> "other", route |-> "none", evidence |-> FALSE]
MCResolutions == {Resolution("s1", 1), Resolution("s2", 1)}
=============================================================================
