----------------------------- MODULE GroupingSignals -----------------------------
(***************************************************************************)
(* Grouping signals as values: what grouping_signals.py accepts, what      *)
(* grouping_signal_csv.py makes of one dimension and back, and what        *)
(* grouping_signal_diagnostics.py says of a signal and the class rosters.  *)
(* Dimensions and student bands are sets of records; the code sorts them.  *)
(***************************************************************************)
EXTENDS Integers, FiniteSets

DimensionIds(signal) == {d.dimension_id : d \in signal.dimensions}
Entries(signal, id) == {b \in signal.student_bands : b.dimension_id = id}
Students(entries) == {b.student_id : b \in entries}

(* GroupingSignalSet *)
ValidSignal(signal) ==
  /\ signal.dimensions # {} /\ signal.student_bands # {}
  /\ \A d, e \in signal.dimensions : d.dimension_id = e.dimension_id => d = e
  /\ \A d \in signal.dimensions : d.band_count >= 2
  /\ \A a, b \in signal.student_bands :
       a.student_id = b.student_id /\ a.dimension_id = b.dimension_id => a = b
  /\ \A b \in signal.student_bands :
       \E d \in signal.dimensions : b.dimension_id = d.dimension_id /\ b.band \in 1 .. d.band_count
  /\ \A id \in DimensionIds(signal) : Entries(signal, id) # {}

-----------------------------------------------------------------------------
(* The CSV exchange format carries one dimension. *)

Scope(signal) == IF Cardinality(signal.dimensions) = 1 THEN "complete_signal" ELSE "dimension_projection"

(* grouping_signal_set_to_csv *)
ToCsv(signal, dimension) ==
  [scope         |-> Scope(signal),
   signal_set_id |-> signal.signal_set_id,
   class_id      |-> signal.class_id,
   created_at    |-> signal.created_at,
   dimension     |-> dimension,
   rows          |-> {[student_id |-> b.student_id, band |-> b.band] :
                        b \in Entries(signal, dimension.dimension_id)}]

(* _parse_rows and GroupingSignalCsvDocument *)
ValidDocument(document) ==
  /\ document.rows # {}
  /\ \A r, q \in document.rows : r.student_id = q.student_id => r = q
  /\ \A r \in document.rows : r.band \in 1 .. document.dimension.band_count

(* Mutant of Refused: a projection may keep the ID of its signal. *)
RefusedWithoutScope(document, identity) == \E new \in identity : new[1] = document.signal_set_id

(* grouping_signal_csv_to_signal_set refuses these arguments; identity is {} or {<<id, created_at>>}. *)
Refused(document, identity) ==
  \/ document.scope = "dimension_projection" /\ identity = {}
  \/ \E new \in identity : new[1] = document.signal_set_id

FromCsv(document, identity) ==
  LET new == IF identity = {} THEN <<document.signal_set_id, document.created_at>>
             ELSE CHOOSE n \in identity : TRUE
  IN [signal_set_id |-> new[1],
      class_id      |-> document.class_id,
      created_at    |-> new[2],
      dimensions    |-> {document.dimension},
      student_bands |-> {[student_id |-> r.student_id, dimension_id |-> document.dimension.dimension_id,
                          band |-> r.band] : r \in document.rows}]

(***************************************************************************)
(* An import never claims the identity of a stored signal for other        *)
(* content: what keeps the ID is the whole signal again, and every import  *)
(* of an export is a valid signal.                                         *)
(***************************************************************************)
ImportKeepsIdentity(signal, ids, times) ==
  \A d \in signal.dimensions :
    LET document == ToCsv(signal, d)
    IN /\ ValidDocument(document)
       /\ \A identity \in {{}} \cup {{<<id, t>>} : id \in ids, t \in times} :
            ~ Refused(document, identity) =>
              LET imported == FromCsv(document, identity)
              IN /\ ValidSignal(imported)
                 /\ imported.signal_set_id = signal.signal_set_id => imported = signal

-----------------------------------------------------------------------------
(* Diagnostics; rosters maps each class to its set of students, {} for no roster. *)

(* _find_other_class_memberships *)
OtherClasses(rosters, target, student) == {c \in DOMAIN rosters \ {target} : student \in rosters[c]}

(* diagnose_grouping_signal, one dimension. *)
Diagnose(signal, target, rosters, dimension) ==
  LET entries == Entries(signal, dimension.dimension_id)
      matched == {b \in entries : b.student_id \in rosters[target]}
      unmatched == entries \ matched
      wrong == {b \in unmatched : OtherClasses(rosters, target, b.student_id) # {}}
  IN [roster  |-> rosters[target],
      entries |-> entries,
      matched |-> matched,
      missing |-> rosters[target] \ Students(matched),
      wrong   |-> wrong,
      unknown |-> unmatched \ wrong,
      band_counts |-> [band \in 1 .. dimension.band_count |-> Cardinality({b \in matched : b.band = band})]]

(* GroupingSignalDimensionDiagnostics accepts the counts. *)
AddsUp(d) ==
  LET Total[n \in 0 .. Cardinality(DOMAIN d.band_counts)] ==
        IF n = 0 THEN 0 ELSE Total[n - 1] + d.band_counts[n]
  IN /\ Cardinality(d.matched) + Cardinality(d.missing) = Cardinality(d.roster)
     /\ Cardinality(d.matched) + Cardinality(d.unknown) + Cardinality(d.wrong) = Cardinality(d.entries)
     /\ Total[Cardinality(DOMAIN d.band_counts)] = Cardinality(d.matched)

(* has_errors: an entry of a student outside the target class, or the signal of another class. *)
HasErrors(signal, target, rosters) ==
  \/ signal.class_id # target
  \/ \E d \in signal.dimensions :
       LET diagnosis == Diagnose(signal, target, rosters, d)
       IN diagnosis.wrong \cup diagnosis.unknown # {}
=============================================================================
