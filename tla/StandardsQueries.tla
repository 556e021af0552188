--------------------------- MODULE StandardsQueries ---------------------------
(***************************************************************************)
(* How standards and profiles are looked up, and what is counted of their  *)
(* use: the filters of the library (standards.py), of the commands         *)
(* (standards_read.py) and of the menu (menu_filters.py), what modules are *)
(* offered for selection (standards_selection.py), and the summary of the  *)
(* usage events. A library and a sequence of events grow here by single    *)
(* records; a field that is not given is None.                             *)
(*                                                                         *)
(* A category path is a sequence of parts, and a part a sequence of words: *)
(* more than one where its text holds the separator "/" of the commands.   *)
(***************************************************************************)
EXTENDS Integers, Sequences, FiniteSets, SequencesExt

CONSTANTS
  Definitions,  \* [standard_id, subject, source, course, domain, category_path, active, available_modules]
  Profiles,     \* [profile_id, standards, subject, course, source]
  UsageEvents,  \* [standard_id, usage_type, module, assignment_id]
  MaxUsage,     \* bound on the events
  None

VARIABLES
  standards, profiles,  \* the records of the library
  usage                 \* the events of the ledger

vars == <<standards, profiles, usage>>

Init == standards = {} /\ profiles = {} /\ usage = << >>

AddStandard(d) ==
  /\ \A s \in standards : s.standard_id # d.standard_id
  /\ standards' = standards \cup {d} /\ UNCHANGED <<profiles, usage>>
SetActive(d) ==
  standards' = (standards \ {d}) \cup {[d EXCEPT !.active = ~ d.active]} /\ UNCHANGED <<profiles, usage>>
AddProfile(p) ==
  /\ \A q \in profiles : q.profile_id # p.profile_id
  /\ p.standards \subseteq {s.standard_id : s \in standards}
  /\ profiles' = profiles \cup {p} /\ UNCHANGED <<standards, usage>>
RecordUsage(e) == Len(usage) < MaxUsage /\ usage' = Append(usage, e) /\ UNCHANGED <<standards, profiles>>

Next ==
  \/ \E d \in Definitions : AddStandard(d)
  \/ \E d \in standards : SetActive(d)
  \/ \E p \in Profiles : AddProfile(p)
  \/ \E e \in UsageEvents : RecordUsage(e)
Spec == Init /\ [][Next]_vars

-----------------------------------------------------------------------------
(* StandardFilters: a field that does not filter is None, the category prefix << >>. *)
Fields == {"subject", "source", "course", "domain"}
NoFilters == [subject |-> None, source |-> None, course |-> None, domain |-> None, available_module |-> None, category |-> << >>, active |-> None]
Passes(filter, value) == filter \in {None, value}
Serves(filter, definition) == filter # None => filter \in definition.available_modules

filter_standard_definitions(f) ==
  {d \in standards :
     /\ \A field \in Fields \ {"course"} : Passes(f[field], d[field])
     /\ Passes(f.active, d.active) /\ Serves(f.available_module, d)
     /\ IsPrefix(f.category, d.category_path)}

matching_standards(f) == {d \in filter_standard_definitions(f) : Passes(f.course, d.course)}

filter_standards_profiles(f) == {p \in profiles : \A field \in {"subject", "course", "source"} : Passes(f[field], p[field])}

(* The text of a category, which the menu offers, and what the commands make of it. *)
Joined(category_path) == FlattenSeq(category_path)
parse_category_path(text) == [i \in DOMAIN text |-> <<text[i]>>]

(* list_standard_subjects and the like, which take some of the filters, and the commands that print such a list. *)
Values(field, definitions) == {d[field] : d \in definitions} \ {None}
Narrowed(f, fields) ==
  [field \in DOMAIN NoFilters |-> IF field \in fields \cup {"active", "available_module"} THEN f[field] ELSE NoFilters[field]]
list_standard_values(field, f) ==
  Values(field, filter_standard_definitions(Narrowed(f, IF field = "domain" THEN {"subject", "source"} ELSE {})))
list_standard_category_paths(f) ==
  {d.category_path : d \in filter_standard_definitions(Narrowed(f, {"subject", "source", "domain"}))} \ {<< >>}
handle_standards_values(field, f) == Values(field, matching_standards(f))

(* What the menu offers for one filter, depending on the status only. *)
OfStatus(active) == {d \in standards : Passes(active, d.active)}
_standard_values(field, active) == Values(field, OfStatus(active))
_standard_category_values(active) == {Joined(d.category_path) : d \in OfStatus(active)} \ {<< >>}
_standard_module_values(active) == UNION {d.available_modules : d \in OfStatus(active)}
_profile_values(field) == Values(field, profiles)

(***************************************************************************)
(* The menu asks for one filter after another; a blank answer does not     *)
(* filter, and neither do those left out when the rest is skipped. What is *)
(* chosen of the categories is their text.                                 *)
(***************************************************************************)
_standard_filter_args == <<"category", "source", "subject", "course", "domain", "available_module">>
_filtered_available_standards == <<"subject", "course", "domain">>
_profile_filter_args == <<"source", "subject", "course">>

FiltersChosen(prompts, choices, answered) ==
  [field \in DOMAIN NoFilters |->
     CASE field = "active" -> choices.active
       [] field \notin {prompts[i] : i \in 1 .. answered} -> NoFilters[field]
       [] field = "category" -> parse_category_path(choices.category)
       [] OTHER -> choices[field]]

-----------------------------------------------------------------------------
(* What modules are offered to select from. *)

(* Mutant of list_standards_for_selection: the course of a standard alone decides. *)
list_standards_by_their_course(f) == {d \in filter_standard_definitions(f) : Passes(f.course, d.course)}

list_standards_for_selection(f) ==
  LET members == UNION {p.standards : p \in filter_standards_profiles([NoFilters EXCEPT !.course = f.course])}
  IN {d \in filter_standard_definitions(f) : Passes(f.course, d.course) \/ d.standard_id \in members}

list_standards_for_profile_selection(p, active, available_module) ==
  {d \in standards : d.standard_id \in p.standards /\ Passes(active, d.active) /\ Serves(available_module, d)}

validate_profile_standard_selection(p, ids) ==
  ids \subseteq {d.standard_id : d \in standards} /\ ids \subseteq p.standards

-----------------------------------------------------------------------------
(* The summary counts event by event. *)
Counted(counter, key) ==
  [k \in DOMAIN counter \cup {key} |-> (IF k \in DOMAIN counter THEN counter[k] ELSE 0) + (IF k = key THEN 1 ELSE 0)]
Grouped(counters, id, key) ==
  [k \in DOMAIN counters \cup {id} |->
     IF k # id THEN counters[k] ELSE Counted(IF id \in DOMAIN counters THEN counters[id] ELSE << >>, key)]

EmptySummary == [total_events |-> 0, totals |-> << >>, usage_type |-> << >>, module |-> << >>, assignment_id |-> << >>]
summarize_standard_usage_events(events) ==
  LET Count(e, summary) ==
        [total_events  |-> summary.total_events + 1,
         totals        |-> Counted(summary.totals, e.standard_id),
         usage_type    |-> Grouped(summary.usage_type, e.standard_id, e.usage_type),
         module        |-> Grouped(summary.module, e.standard_id, e.module),
         assignment_id |-> Grouped(summary.assignment_id, e.standard_id, e.assignment_id)]
  IN FoldSeq(Count, EmptySummary, events)

-----------------------------------------------------------------------------
(***************************************************************************)
(* What a list or a menu offers leads to the standards it was taken from:  *)
(* each value of a standard is offered, and however many prompts are       *)
(* answered by its own values, it is among the standards found; the lists  *)
(* for those filters name its values. (A category whose part holds the     *)
(* separator is offered too, but what is made of its text finds nothing.)  *)
(***************************************************************************)
OwnChoices(d) ==
  {[subject |-> d.subject, source |-> d.source, course |-> d.course, domain |-> d.domain,
    category |-> Joined(d.category_path), available_module |-> module, active |-> active] :
     module \in d.available_modules \cup {None}, active \in {d.active, None}}
Searchable(category_path) == \A i \in DOMAIN category_path : Len(category_path[i]) = 1

OffersLeadSomewhere ==
  \A d \in standards : \A choices \in OwnChoices(d) :
    /\ \A field \in Fields : d[field] \in _standard_values(field, choices.active) \cup {None}
    /\ choices.category \in _standard_category_values(choices.active) \cup {<< >>}
    /\ choices.available_module \in _standard_module_values(choices.active) \cup {None}
    /\ Searchable(d.category_path) =>
         \A prompts \in {_standard_filter_args, _filtered_available_standards} : \A answered \in 0 .. Len(prompts) :
           LET f == FiltersChosen(prompts, choices, answered)
           IN /\ d \in matching_standards(f)
              /\ \A field \in Fields : d[field] \in {None} \cup (handle_standards_values(field, f) \cap list_standard_values(field, f))
              /\ d.category_path \in list_standard_category_paths(f) \cup {<< >>}

(***************************************************************************)
(* What is offered for a profile can be selected, is offered for the       *)
(* course of the profile as well, and so is what the commands list of that *)
(* course; a profile is found by the values offered of it.                 *)
(***************************************************************************)
SelectionsAgree ==
  \A p \in profiles : \A active \in BOOLEAN \cup {None} :
    LET f == [NoFilters EXCEPT !.course = p.course, !.active = active]
        offered == list_standards_for_profile_selection(p, active, None)
    IN /\ validate_profile_standard_selection(p, {d.standard_id : d \in offered})
       /\ offered \cup matching_standards(f) \subseteq list_standards_for_selection(f)
       /\ \A field \in {"subject", "course", "source"} : p[field] \in _profile_values(field) \cup {None}
       /\ \A answered \in 0 .. 3 :
            p \in filter_standards_profiles(
                   FiltersChosen(_profile_filter_args, [subject |-> p.subject, course |-> p.course, source |-> p.source, active |-> None], answered))

(* Every event is counted once under its standard, by each of its attributes; the order does not matter. *)
Times(P(_)) == Cardinality({i \in DOMAIN usage : P(usage[i])})
SummaryCountsEveryEvent ==
  LET summary == summarize_standard_usage_events(usage)
  IN /\ summary = summarize_standard_usage_events(Reverse(usage))
     /\ summary.total_events = Len(usage)
     /\ DOMAIN summary.totals = {usage[i].standard_id : i \in DOMAIN usage}
     /\ \A id \in DOMAIN summary.totals :
          /\ summary.totals[id] = Times(LAMBDA e : e.standard_id = id)
          /\ \A attribute \in {"usage_type", "module", "assignment_id"} :
               LET counts == summary[attribute][id]
               IN /\ SumFunction(counts) = summary.totals[id]
                  /\ \A value \in DOMAIN counts : counts[value] = Times(LAMBDA e : e.standard_id = id /\ e[attribute] = value)

QueriesAgree == OffersLeadSomewhere /\ SelectionsAgree /\ SummaryCountsEveryEvent
=============================================================================
