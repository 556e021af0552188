---------------------------------- MODULE Rosters ----------------------------------
(***************************************************************************)
(* The cells of a class roster: what rosters.py reads from a CSV file,     *)
(* accepts from a program, edits and writes, one call after the other. How *)
(* calls at the same time get along is the matter of RosterStore.          *)
(*                                                                         *)
(* A cell is [text, padded]: its text without the white space around it,   *)
(* and whether there is any. A document is [header, lines] of cells; a     *)
(* roster is [class_id, columns, students], where a student maps column    *)
(* names to cells. The text "" is blank. first_name, last_name and period  *)
(* are the one column "name". What raises yields {}, anything else {it}.   *)
(***************************************************************************)
EXTENDS Integers, Sequences, SequencesExt

CONSTANTS
  Identifiers,  \* the texts that are identifiers
  ClassId,      \* the class
  Students,     \* the student records that edits are given
  Creations,    \* what rosters are created from: [students, columns]
  Imports,      \* the CSV documents that are imported
  NoFile

VARIABLE sheet  \* the canonical file: a document, or NoFile

vars == sheet

ROSTER_REQUIRED_COLUMNS == <<"class_id", "student_id", "name">>

Plain(text) == [text |-> text, padded |-> FALSE]
Required == ToSet(ROSTER_REQUIRED_COLUMNS)
Header(columns) == [k \in DOMAIN columns |-> Plain(columns[k])]

-----------------------------------------------------------------------------
(* Validation. *)

_validate_columns(columns) ==
  LET names == [k \in DOMAIN columns |-> columns[k].text]
  IN IF "" \notin ToSet(names) /\ IsInjective(names) /\ Required \subseteq ToSet(names) THEN {names} ELSE {}

(* A row is a function from the headers, as they were written or stripped, to cells. *)
_row_value(row, column) ==
  CASE column \in DOMAIN row -> row[column]
    [] column \notin DOMAIN row /\ Plain(column.text) \in DOMAIN row -> row[Plain(column.text)]
    [] OTHER -> Plain("")

Stripped(columns, row) ==
  [name \in {column.text : column \in ToSet(columns)} |->
     LET column == CHOOSE c \in ToSet(columns) : c.text = name IN Plain(_row_value(row, column).text)]

ValidStudent(student) ==
  /\ \A name \in Required : student[name] # Plain("")
  /\ \A name \in {"class_id", "student_id"} : student[name].text \in Identifiers

OneClass(students) == \A s, t \in ToSet(students) : s["class_id"] = t["class_id"]
Distinct(students) ==
  \A j, k \in DOMAIN students : students[j]["student_id"] = students[k]["student_id"] => j = k

Roster(columns, students) == [class_id |-> students[1]["class_id"].text, columns |-> columns, students |-> students]

(* Mutant of validate_roster_rows: students are told apart before their IDs are stripped. *)
validate_rows_unstripped(columns, rows) ==
  LET students == [k \in DOMAIN rows |-> Stripped(columns, rows[k])]
      asWritten == [k \in DOMAIN rows |-> [name \in {"student_id"} |-> _row_value(rows[k], Plain(name))]]
  IN IF /\ rows # << >>
        /\ \A student \in ToSet(students) : ValidStudent(student)
        /\ OneClass(students) /\ Distinct(asWritten)
     THEN {Roster([k \in DOMAIN columns |-> columns[k].text], students)} ELSE {}

validate_roster_rows(columns, rows) ==
  LET students == [k \in DOMAIN rows |-> Stripped(columns, rows[k])]
      Accepted ==
        /\ rows # << >>
        /\ \A student \in ToSet(students) : ValidStudent(student)
        /\ OneClass(students) /\ Distinct(students)
  IN {Roster(names, students) : names \in {n \in _validate_columns(columns) : Accepted}}

-----------------------------------------------------------------------------
(* Files. *)

(* csv.DictReader passes over empty lines and fills short ones. *)
load_roster(document) ==
  LET NotEmpty(line) == line # << >>
      lines == SelectSeq(document.lines, NotEmpty)
      Row(line) ==
        [column \in ToSet(document.header) |->
           LET k == CHOOSE n \in DOMAIN document.header : document.header[n] = column
           IN IF k \in DOMAIN line THEN line[k] ELSE Plain("")]
  IN IF \E line \in ToSet(lines) : Len(line) > Len(document.header) THEN {}
     ELSE validate_roster_rows(document.header, [k \in DOMAIN lines |-> Row(lines[k])])

_student_to_csv_row(student, columns) ==
  [column \in ToSet(Header(columns)) |-> IF column.text \in DOMAIN student THEN student[column.text] ELSE Plain("")]

_check_writable_roster(roster) ==
  /\ Required \subseteq ToSet(roster.columns)
  /\ \A student \in ToSet(roster.students) : student["class_id"] = Plain(roster.class_id)

(* The bytes that _write_roster_unlocked writes. *)
Document(roster) ==
  LET header == Header(roster.columns)
      Line(student) == LET row == _student_to_csv_row(student, roster.columns) IN [k \in DOMAIN header |-> row[header[k]]]
  IN [header |-> header, lines |-> [k \in DOMAIN roster.students |-> Line(roster.students[k])]]

-----------------------------------------------------------------------------
(* Rosters from programs. *)

_unsupported_extra_fields(student, columns) == DOMAIN student \ (Required \cup ToSet(columns))

_validated_roster_with_students(roster, students) ==
  validate_roster_rows(Header(roster.columns),
                       [k \in DOMAIN students |-> _student_to_csv_row(students[k], roster.columns)])

_validate_roster_instance(roster) ==
  {valid \in _validated_roster_with_students(roster, roster.students) :
     /\ \A student \in ToSet(roster.students) : _unsupported_extra_fields(student, roster.columns) = {}
     /\ valid.class_id = roster.class_id}

(* _roster_state_token: the digest of these bytes. *)
_canonical_roster_bytes(roster) == {Document(valid) : valid \in _validate_roster_instance(roster)}

(* A student comes as a sequence of [key, value]; of keys that are alike when stripped the first one counts. *)
_infer_roster_columns(students) ==
  LET Seen(columns, item) == IF item.key.text \in ToSet(columns) THEN columns ELSE Append(columns, item.key.text)
  IN Header(FoldLeft(Seen, ROSTER_REQUIRED_COLUMNS, FlattenSeq(students)))

(* Without columns, << >>, they are inferred. *)
create_roster(class_id, students, columns) ==
  LET Row(items) ==
        [column \in {Plain(item.key.text) : item \in ToSet(items)} \cup {Plain("class_id")} |->
           IF column = Plain("class_id") THEN Plain(class_id)
           ELSE items[SelectInSeq(items, LAMBDA item : item.key.text = column.text)].value]
  IN validate_roster_rows(IF columns = << >> THEN _infer_roster_columns(students) ELSE columns,
                          [k \in DOMAIN students |-> Row(students[k])])

-----------------------------------------------------------------------------
(* Edits. The ID of the student given is compared as it is, and stripped only afterwards. *)

_validate_mutation_student(roster, student) ==
  student["class_id"] = Plain(roster.class_id) /\ _unsupported_extra_fields(student, roster.columns) = {}

Mutable(roster, student) == {valid \in _validate_roster_instance(roster) : _validate_mutation_student(valid, student)}
Has(roster, student_id) == \E existing \in ToSet(roster.students) : existing["student_id"] = student_id
Appended(roster, student) == _validated_roster_with_students(roster, Append(roster.students, student))
Replaced(roster, student) ==
  _validated_roster_with_students(roster,
    [k \in DOMAIN roster.students |->
       IF roster.students[k]["student_id"] = student["student_id"] THEN student ELSE roster.students[k]])

add_student_record(roster, student) ==
  UNION {IF Has(r, student["student_id"]) THEN {} ELSE Appended(r, student) : r \in Mutable(roster, student)}

replace_student_record(roster, student) ==
  UNION {IF Has(r, student["student_id"]) THEN Replaced(r, student) ELSE {} : r \in Mutable(roster, student)}

upsert_student_record(roster, student) ==
  UNION {IF Has(r, student["student_id"]) THEN Replaced(r, student) ELSE Appended(r, student) : r \in Mutable(roster, student)}

remove_student_record(roster, student_id) ==
  LET Other(student) == student["student_id"] # Plain(student_id)
      Rest(r) == SelectSeq(r.students, Other)
  IN UNION {IF Rest(r) \in {r.students, << >>} THEN {} ELSE _validated_roster_with_students(r, Rest(r)) :
              r \in _validate_roster_instance(roster)}

-----------------------------------------------------------------------------
(* load_class_roster *)
load_class_roster(document) == {r \in load_roster(document) : r.class_id = ClassId}

(* load_class_roster, an edit, write_class_roster *)
Edits(r) ==
  UNION {add_student_record(r, s) \cup replace_student_record(r, s) \cup upsert_student_record(r, s)
           \cup remove_student_record(r, s["student_id"].text) : s \in Students}
Write(r) == _check_writable_roster(r) /\ sheet' = Document(r)

Init == sheet = NoFile
Create(creation) ==
  sheet = NoFile /\ \E r \in create_roster(ClassId, creation.students, creation.columns) : Write(r)
EditRoster == sheet # NoFile /\ \E r \in load_class_roster(sheet) : \E edited \in Edits(r) : Write(edited)

(* An import as a whole: the candidate is validated, compared with what is there, and written. *)
Import(document) ==
  /\ sheet # NoFile => load_class_roster(sheet) # {}
  /\ \E r \in load_class_roster(document) : Write(r)

Next == EditRoster \/ (\E creation \in Creations : Create(creation)) \/ (\E document \in Imports : Import(document))
Spec == Init /\ [][Next]_vars

-----------------------------------------------------------------------------
(***************************************************************************)
(* The validations, the writer and the reader mean the same rosters.       *)
(* Whatever was created, edited or imported: the file that was written     *)
(* loads again, as a roster of its class that a program may give back,     *)
(* writing that one changes nothing, and every edit of it can be written.  *)
(* So no call locks the others out of the class, and a state token does    *)
(* not get stale by loading and writing.                                   *)
(***************************************************************************)
WrittenRostersLoad ==
  sheet # NoFile =>
    \E r \in load_class_roster(sheet) :
      /\ _validate_roster_instance(r) = {r} /\ _canonical_roster_bytes(r) = {sheet}
      /\ \A edited \in Edits(r) : _check_writable_roster(edited)
=============================================================================
