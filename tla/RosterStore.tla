------------------------------- MODULE RosterStore -------------------------------
(***************************************************************************)
(* The canonical roster of one class: plain writers that load, edit and    *)
(* overwrite it, writers that create it, and guarded imports that are      *)
(* previewed first and committed later under the state tokens of the       *)
(* preview. Every write replaces the file in one step while its process    *)
(* holds the hidden write lock of the class.                               *)
(*                                                                         *)
(* A roster is a sequence of students [student_id, details]; its state     *)
(* token is the roster itself (the digest of its canonical bytes).         *)
(***************************************************************************)
EXTENDS Integers, Sequences, FiniteSets, SequencesExt

CONSTANTS
  Writers,         \* the processes
  Students,        \* the student records there are, each with a student_id
  Candidates,      \* the rosters teachers create or import
  MaxDisturbances, \* bound on failing file operations and crashes together
  NoFile,          \* no roster file
  Nobody           \* no lock file

VARIABLES
  roster,       \* the canonical file
  lock,         \* .roster.write.lock, and who created it
  pc,           \* the next step of each process
  kind,         \* what its call is: "edit", "create" or "commit"
  candidate,    \* the roster it writes
  overwrite,    \* whether it may replace a file
  preview,      \* the preview it holds, or NoFile
  outcome,      \* what the call has come to; between two calls, how the last one was answered
  wrote,        \* whether the call has replaced the file
  disturbances

call == <<pc, kind, candidate, overwrite, preview, outcome>>
vars == <<roster, lock, call, wrote, disturbances>>

Ids(r) == {r[i].student_id : i \in DOMAIN r}
Student(r, id) == r[CHOOSE i \in DOMAIN r : r[i].student_id = id]

(* validate_roster_rows *)
ValidRoster(r) == r # << >> /\ Cardinality(Ids(r)) = Len(r)

Init ==
  /\ roster = NoFile /\ lock = Nobody
  /\ pc = [w \in Writers |-> "idle"]
  /\ kind = [w \in Writers |-> "none"]
  /\ candidate = [w \in Writers |-> NoFile]
  /\ overwrite = [w \in Writers |-> FALSE]
  /\ preview = [w \in Writers |-> NoFile]
  /\ outcome = [w \in Writers |-> "none"]
  /\ wrote = [w \in Writers |-> FALSE]
  /\ disturbances = 0

NoFault == UNCHANGED disturbances
Fault == disturbances < MaxDisturbances /\ disturbances' = disturbances + 1

Goto(w, phase) == pc' = [pc EXCEPT ![w] = phase] /\ UNCHANGED <<kind, candidate, overwrite, preview, outcome, wrote>>

(***************************************************************************)
(* The call returns, "written", or raises; which error its caller gets is  *)
(* not kept. Its preview was good for one commit.                          *)
(***************************************************************************)
Return(w, answer) ==
  /\ pc' = [pc EXCEPT ![w] = "idle"]
  /\ outcome' = [outcome EXCEPT ![w] = answer]
  /\ kind' = [kind EXCEPT ![w] = "none"]
  /\ candidate' = [candidate EXCEPT ![w] = NoFile]
  /\ overwrite' = [overwrite EXCEPT ![w] = FALSE]
  /\ preview' = [preview EXCEPT ![w] = IF kind[w] = "commit" THEN NoFile ELSE @]
  /\ UNCHANGED wrote

(* The result is known; the lock is removed next. *)
Leave(w, result) ==
  /\ pc' = [pc EXCEPT ![w] = "release"]
  /\ outcome' = [outcome EXCEPT ![w] = result]
  /\ UNCHANGED <<kind, candidate, overwrite, preview>>

Begin(w, what, r, replacing) ==
  /\ pc[w] = "idle"
  /\ pc' = [pc EXCEPT ![w] = "lock"]
  /\ kind' = [kind EXCEPT ![w] = what]
  /\ candidate' = [candidate EXCEPT ![w] = r]
  /\ overwrite' = [overwrite EXCEPT ![w] = replacing]
  /\ outcome' = [outcome EXCEPT ![w] = "none"]
  /\ wrote' = [wrote EXCEPT ![w] = FALSE]
  /\ UNCHANGED <<preview, roster, lock>> /\ NoFault

-----------------------------------------------------------------------------
(* The edits of rosters.py: {} where they raise, else the one result. *)

add_student_record(r, student) ==
  IF student.student_id \in Ids(r) THEN {} ELSE {Append(r, student)}

Replaced(r, student) == [i \in DOMAIN r |-> IF r[i].student_id = student.student_id THEN student ELSE r[i]]

replace_student_record(r, student) ==
  IF student.student_id \in Ids(r) THEN {Replaced(r, student)} ELSE {}

(* Mutant of upsert_student_record: the student may be there twice. *)
upsert_by_appending(r, student) == {Append(r, student)}

upsert_student_record(r, student) ==
  {IF student.student_id \in Ids(r) THEN Replaced(r, student) ELSE Append(r, student)}

(* The one student of that ID, but not the last one of all. *)
remove_student_record(r, id) == {RemoveAt(r, i) : i \in {j \in DOMAIN r : r[j].student_id = id /\ Len(r) > 1}}

Edits(r) ==
  (UNION {add_student_record(r, s) \cup replace_student_record(r, s) \cup upsert_student_record(r, s) : s \in Students})
  \cup (UNION {remove_student_record(r, id) : id \in Ids(r)})

(***************************************************************************)
(* load_class_roster, an edit, write_class_roster(overwrite=True). Who     *)
(* holds a preview commits it next; writes of one's own in between are     *)
(* like those of another process.                                          *)
(***************************************************************************)
Edit(w) ==
  /\ roster # NoFile /\ preview[w] = NoFile
  /\ \E edited \in Edits(roster) : Begin(w, "edit", edited, TRUE)

(* create_roster, write_class_roster(overwrite=False). *)
Create(w, r) == ValidRoster(r) /\ preview[w] = NoFile /\ Begin(w, "create", r, FALSE)

-----------------------------------------------------------------------------
(* plan_roster_import *)

CurrentIds(current) == IF current = NoFile THEN {} ELSE Ids(current)

(* Mutant of Comparison: students that both rosters have count as unchanged. *)
ComparisonByIdentity(current, proposed) ==
  [additions |-> Ids(proposed) \ CurrentIds(current),
   removals  |-> CurrentIds(current) \ Ids(proposed),
   unchanged |-> CurrentIds(current) \cap Ids(proposed),
   changes   |-> {}]

Comparison(current, proposed) ==
  LET both == CurrentIds(current) \cap Ids(proposed)
      same == {id \in both : Student(current, id) = Student(proposed, id)}
  IN [additions |-> Ids(proposed) \ CurrentIds(current),
      removals  |-> CurrentIds(current) \ Ids(proposed),
      unchanged |-> same,
      changes   |-> both \ same]

Preview(w, r) ==
  /\ pc[w] = "idle" /\ ValidRoster(r)
  /\ preview' = [preview EXCEPT ![w] =
       [baseline |-> roster, candidate |-> r, comparison |-> Comparison(roster, r)]]
  /\ outcome' = [outcome EXCEPT ![w] = "none"]
  /\ wrote' = [wrote EXCEPT ![w] = FALSE]
  /\ UNCHANGED <<pc, kind, candidate, overwrite, roster, lock>> /\ NoFault

(* commit_roster_import up to its lock; the candidate file is read again. *)
Commit(w, r) ==
  /\ preview[w] # NoFile
  /\ \/ r = preview[w].candidate /\ Begin(w, "commit", r, FALSE)
     \/ /\ pc[w] = "idle" /\ r # preview[w].candidate
        /\ preview' = [preview EXCEPT ![w] = NoFile]
        /\ outcome' = [outcome EXCEPT ![w] = "raised"]
        /\ UNCHANGED <<pc, kind, candidate, overwrite, wrote, roster, lock>> /\ NoFault

-----------------------------------------------------------------------------
(* acquire_roster_write_lock and what runs under it. *)

Inside(w) == IF kind[w] = "commit" THEN "reload" ELSE "check"

TakeLock(w) ==
  /\ pc[w] = "lock"
  /\ \/ lock = Nobody /\ lock' = w /\ Goto(w, Inside(w))
     \/ lock # Nobody /\ UNCHANGED lock /\ Return(w, "raised")
  /\ UNCHANGED roster /\ NoFault

(* Mutant of Reload: the token is not compared again under the lock. *)
ReloadTrusting(w) ==
  /\ pc[w] = "reload"
  /\ pc' = [pc EXCEPT ![w] = "check"]
  /\ overwrite' = [overwrite EXCEPT ![w] = roster # NoFile]
  /\ UNCHANGED <<kind, candidate, preview, outcome, wrote, roster, lock>> /\ NoFault

Reload(w) ==
  /\ pc[w] = "reload"
  /\ \/ /\ roster = preview[w].baseline
        /\ pc' = [pc EXCEPT ![w] = "check"]
        /\ overwrite' = [overwrite EXCEPT ![w] = roster # NoFile]
        /\ UNCHANGED <<kind, candidate, preview, outcome>>
     \/ roster # preview[w].baseline /\ Leave(w, "raised")
  /\ UNCHANGED <<roster, lock, wrote>> /\ NoFault

(* _write_roster_unlocked: the check of the target, then the replacement. *)
CheckTarget(w) ==
  /\ pc[w] = "check"
  /\ \/ roster # NoFile /\ ~ overwrite[w] /\ Leave(w, "raised") /\ UNCHANGED wrote
     \/ (roster = NoFile \/ overwrite[w]) /\ Goto(w, "replace")
  /\ UNCHANGED <<roster, lock>> /\ NoFault

ReplaceRoster(w) ==
  /\ pc[w] = "replace"
  /\ roster' = candidate[w]
  /\ wrote' = [wrote EXCEPT ![w] = TRUE]
  /\ Leave(w, "written")
  /\ UNCHANGED lock /\ NoFault

Release(w) ==
  /\ pc[w] = "release"
  /\ lock' = Nobody /\ Return(w, outcome[w])
  /\ UNCHANGED roster /\ NoFault

-----------------------------------------------------------------------------
(* What fails. A lock whose removal failed, or whose process crashed, stays for good. *)

AcquireFails(w) == pc[w] = "lock" /\ Return(w, "raised") /\ UNCHANGED <<roster, lock>> /\ Fault
ReloadFails(w) == pc[w] = "reload" /\ Leave(w, "raised") /\ UNCHANGED <<roster, lock, wrote>> /\ Fault
ReplaceFails(w) == pc[w] = "replace" /\ Leave(w, "raised") /\ UNCHANGED <<roster, lock, wrote>> /\ Fault

(* Mutant of ReleaseFails: the failing removal of the lock is raised. *)
ReleaseFailsMasking(w) == pc[w] = "release" /\ Return(w, "raised") /\ UNCHANGED <<roster, lock>> /\ Fault
ReleaseFails(w) == pc[w] = "release" /\ Return(w, outcome[w]) /\ UNCHANGED <<roster, lock>> /\ Fault
Crash(w) == pc[w] # "idle" /\ Return(w, "none") /\ UNCHANGED <<roster, lock>> /\ Fault

Next ==
  \E w \in Writers :
    \/ Edit(w)
    \/ \E r \in Candidates : Create(w, r) \/ Preview(w, r) \/ Commit(w, r)
    \/ TakeLock(w) \/ Reload(w) \/ CheckTarget(w) \/ ReplaceRoster(w) \/ Release(w)
    \/ AcquireFails(w) \/ ReloadFails(w) \/ ReplaceFails(w) \/ ReleaseFails(w) \/ Crash(w)

Spec == Init /\ [][Next]_vars

-----------------------------------------------------------------------------
Rosters == {NoFile} \cup {r \in Seq(Students) : ValidRoster(r)}

TypeOK ==
  /\ roster \in Rosters /\ lock \in Writers \cup {Nobody}
  /\ pc \in [Writers -> {"idle", "lock", "reload", "check", "replace", "release"}]
  /\ kind \in [Writers -> {"none", "edit", "create", "commit"}]
  /\ candidate \in [Writers -> Rosters] /\ DOMAIN preview = Writers
  /\ overwrite \in [Writers -> BOOLEAN] /\ wrote \in [Writers -> BOOLEAN]
  /\ outcome \in [Writers -> {"none", "written", "raised"}]
  /\ disturbances \in 0 .. MaxDisturbances

(***************************************************************************)
(* A guarded import replaces exactly the roster that was reviewed by the   *)
(* candidate that was reviewed, however long the review took and whoever   *)
(* wrote meanwhile.                                                        *)
(***************************************************************************)
CommitIsGuarded ==
  \A w \in Writers :
    kind[w] = "commit" /\ wrote'[w] /\ ~ wrote[w] =>
      roster = preview[w].baseline /\ roster' = preview[w].candidate

(***************************************************************************)
(* Nobody who creates a roster replaces one: whether as write_class_roster *)
(* without overwrite or as a first import, the file was not there when it  *)
(* appeared. An import whose preview showed no roster never overwrites.    *)
(***************************************************************************)
CreationIsExclusive ==
  \A w \in Writers :
    (kind[w] = "create" \/ (kind[w] = "commit" /\ preview[w].baseline = NoFile))
      /\ wrote'[w] /\ ~ wrote[w] => roster = NoFile

(* Guarded writers replace what they saw: the reviewed roster, or none. *)
GuardedWritesHold == [][CommitIsGuarded /\ CreationIsExclusive]_vars

(***************************************************************************)
(* A preview accounts for every student: its four lists share no student,  *)
(* and removing, adding and changing what they say turns the students of   *)
(* the reviewed roster into those of the candidate.                        *)
(***************************************************************************)
StudentsOf(r) == IF r = NoFile THEN {} ELSE {r[i] : i \in DOMAIN r}

PreviewAccountsForEveryStudent ==
  \A w \in Writers :
    preview[w] # NoFile =>
      LET p == preview[w]
          c == p.comparison
      IN /\ Cardinality(c.additions) + Cardinality(c.removals) + Cardinality(c.unchanged) + Cardinality(c.changes)
              = Cardinality(CurrentIds(p.baseline) \cup Ids(p.candidate))
         /\ StudentsOf(p.candidate) =
              {s \in StudentsOf(p.baseline) : s.student_id \in c.unchanged}
              \cup {Student(p.candidate, id) : id \in c.additions \cup c.changes}

(***************************************************************************)
(* A call that is answered with success has replaced the roster, and one   *)
(* answered with an error has not, also when its lock cannot be removed: a *)
(* cleanup failure does not mask the result of the write that already ran. *)
(***************************************************************************)
AnswersAreTrue ==
  \A w \in Writers : pc[w] = "idle" /\ outcome[w] # "none" => (wrote[w] <=> outcome[w] = "written")

-----------------------------------------------------------------------------
(***************************************************************************)
(* What these properties rest on. Who is past the lock has it, so that the *)
(* roster is as it was when a commit compared it with the preview, or a    *)
(* creation looked for it; and until it is replaced nothing is written.    *)
(***************************************************************************)
UnderLock == {"reload", "check", "replace", "release"}

PreviewFits(p) ==
  p.baseline \in Rosters /\ p.candidate \in Rosters \ {NoFile} /\ p.comparison = Comparison(p.baseline, p.candidate)

CallFits(w) ==
  /\ pc[w] \in UnderLock => lock = w
  /\ pc[w] \in {"lock", "reload", "check", "replace"} => ~ wrote[w]
  /\ pc[w] = "release" => outcome[w] # "none" /\ (wrote[w] <=> outcome[w] = "written")
  /\ pc[w] = "idle" => kind[w] = "none" /\ (outcome[w] # "none" => (wrote[w] <=> outcome[w] = "written"))
  /\ pc[w] = "reload" => kind[w] = "commit"
  /\ preview[w] # NoFile =>
       PreviewFits(preview[w]) /\ (IF pc[w] = "idle" THEN ~ wrote[w] ELSE kind[w] = "commit")
  /\ kind[w] = "commit" => preview[w] # NoFile /\ candidate[w] = preview[w].candidate
  /\ kind[w] = "commit" /\ pc[w] \in {"check", "replace"} =>
       roster = preview[w].baseline /\ (overwrite[w] <=> roster # NoFile)
  /\ kind[w] = "create" => ~ overwrite[w]
  /\ pc[w] = "replace" => overwrite[w] \/ roster = NoFile

RosterInv == TypeOK /\ \A w \in Writers : CallFits(w)
=============================================================================
