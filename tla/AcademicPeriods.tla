----------------------------- MODULE AcademicPeriods -----------------------------
(***************************************************************************)
(* Academic periods of one school year: what academic_periods.py accepts   *)
(* as a calendar and as its next revision, and what the queries of         *)
(* academic_period_queries.py return.  A period is a record; the periods   *)
(* of a calendar are a set of such records, which are sorted by ID only    *)
(* when they are written.                                                  *)
(***************************************************************************)
EXTENDS Integers, Sequences, SequencesExt

CONSTANTS
  SchoolYearDates,  \* the dates in the two calendar years of the school year
  NoParent          \* parent_period_id of a root period

Ids(periods) == {period.period_id : period \in periods}
Period(periods, id) == CHOOSE period \in periods : period.period_id = id

-----------------------------------------------------------------------------
(* Validation. *)

(***************************************************************************)
(* _validate_no_cycles.  From each period not yet known to be complete,    *)
(* climb to a root or to a complete period; then the whole path is         *)
(* complete.  A climb that meets its own path raises, so that some period  *)
(* stays incomplete.                                                       *)
(***************************************************************************)
Climb(periods, complete) ==
  LET up[path \in Seq(Ids(periods))] ==
        LET parent == Period(periods, Last(path)).parent_period_id
        IN IF parent = NoParent \/ parent \in complete THEN complete \cup ToSet(path)
           ELSE IF parent \in ToSet(path) THEN complete
           ELSE up[Append(path, parent)]
  IN up

(* Mutant of NoCycles: only the direct parent is looked at. *)
NoShortCycles(periods) ==
  \A p, q \in periods : p.parent_period_id = q.period_id => q.parent_period_id # p.period_id

NoCycles(periods) ==
  Ids(periods) =
    FoldLeft(LAMBDA complete, id : IF id \in complete THEN complete ELSE Climb(periods, complete)[<<id>>],
             {}, SetToSeq(Ids(periods)))

(* AcademicPeriod and validate_academic_period_hierarchy. *)
ValidHierarchy(periods) ==
  /\ \A p, q \in periods : p.period_id = q.period_id => p = q
  /\ \A p \in periods :
       /\ p.start_date <= p.end_date
       /\ {p.start_date, p.end_date} \subseteq SchoolYearDates
       /\ p.parent_period_id # p.period_id
       /\ p.parent_period_id \in Ids(periods) \cup {NoParent}
  /\ NoCycles(periods)
  /\ \A p, q \in periods :
       p.parent_period_id = q.period_id => q.start_date <= p.start_date /\ p.end_date <= q.end_date
  /\ \A p, q \in periods :
       p.parent_period_id = q.parent_period_id /\ p.sequence = q.sequence => p = q

(* AcademicPeriodCalendar *)
ValidCalendar(calendar) ==
  /\ calendar.created_at <= calendar.updated_at
  /\ ValidHierarchy(calendar.periods)

(***************************************************************************)
(* validate_academic_period_calendar_transition: later revisions keep      *)
(* every period and its type; dates, labels, parents and lifecycles may    *)
(* change.                                                                 *)
(***************************************************************************)
ValidTransition(previous, candidate) ==
  /\ candidate.calendar_revision > previous.calendar_revision
  /\ candidate.created_at = previous.created_at
  /\ candidate.updated_at >= previous.updated_at
  /\ \A p \in previous.periods :
       \E q \in candidate.periods : q.period_id = p.period_id /\ q.period_type = p.period_type

-----------------------------------------------------------------------------
(* Queries. *)

(* _by_parent *)
Children(periods, parent) ==
  SetToSortSeq({p \in periods : p.parent_period_id = parent}, LAMBDA p, q : p.sequence < q.sequence)

(* _preorder_periods: the head of the sequence is the top of the stack. *)
Preorder(periods, initial) ==
  LET visit[stack \in Seq(periods)] ==
        IF stack = <<>> THEN <<>>
        ELSE <<Head(stack)>> \o visit[Children(periods, Head(stack).period_id) \o Tail(stack)]
  IN visit[initial]

ListPeriods(periods) == Preorder(periods, Children(periods, NoParent))
Descendants(periods, period) == Preorder(periods, Children(periods, period.period_id))

(* list_academic_period_ancestors, from the parent to the root. *)
Ancestors(periods, period) ==
  LET above[p \in periods] ==
        IF p.parent_period_id = NoParent THEN <<>>
        ELSE LET parent == Period(periods, p.parent_period_id) IN <<parent>> \o above[parent]
  IN above[period]

(* list_academic_periods_containing_date *)
ContainingDate(periods, target) ==
  SelectSeq(ListPeriods(periods), LAMBDA p : p.start_date <= target /\ target <= p.end_date)

(***************************************************************************)
(* What the queries promise together: the display order lists every        *)
(* period once, a period is followed by exactly its descendants, being an  *)
(* ancestor and being a descendant are the same relation, and a date in a  *)
(* period is in every ancestor of it.                                      *)
(***************************************************************************)
QueriesAgree(periods) ==
  LET listing == ListPeriods(periods)
  IN /\ Len(listing) = Cardinality(periods) /\ ToSet(listing) = periods
     /\ \A i \in DOMAIN listing :
          LET below == Descendants(periods, listing[i])
          IN SubSeq(listing, i + 1, i + Len(below)) = below
     /\ \A p, q \in periods :
          p \in ToSet(Ancestors(periods, q)) <=> q \in ToSet(Descendants(periods, p))
     /\ \A target \in SchoolYearDates :
          LET found == ToSet(ContainingDate(periods, target))
          IN \A p \in found : ToSet(Ancestors(periods, p)) \subseteq found
=============================================================================
