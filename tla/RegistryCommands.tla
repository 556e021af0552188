----------------------------- MODULE RegistryCommands -----------------------------
(***************************************************************************)
(* The list and show commands of the registry                              *)
(* (cli_support/academic_registry.py) at work while others write. A        *)
(* command takes no lock: it fingerprints the directories it reads, runs   *)
(* the audit over them, works out its answer, fingerprints them again and  *)
(* answers only when nothing differs.                                      *)
(*                                                                         *)
(* A path is a sequence of names:                                          *)
(*                                                                         *)
(*   <<"publications", p>>, <<"withdrawals", p>>   one file per publication *)
(*   <<"work", "current.json">>, <<"work", ".write.lock">>                 *)
(*   <<"work", "revisions", r>>                    the registration        *)
(*   <<"manifest", p>>, <<"catalog">>                                      *)
(*                                                                         *)
(* A file is [holds, stamp]: each write gives it a new stamp, which stands *)
(* for its inode and its times; directories have none, the fingerprint     *)
(* leaves their times out. School years and the contracts of modules are   *)
(* left out.                                                               *)
(***************************************************************************)
EXTENDS Integers, Sequences, FiniteSets, SequencesExt, TLC

CONSTANTS
  Records,       \* publication ID -> [series, supersedes, revision]
  MaxRevision,   \* bounds the revisions of the registration
  MaxChanges,    \* bounds what the others do
  MaxTakeBacks,  \* bounds the files they create and remove again
  Requests,      \* [op, entity, id, revision, state, verify]
  None

VARIABLES
  namespace,  \* path -> file, of all that is there
  pending,    \* files whose writer may still take them back
  changes,    \* [made, takenBack], counted against the bounds
  run,        \* the command
  witness     \* since it began: the answers to the files of each moment; has nobody written, was a file taken back

vars == <<namespace, pending, changes, run, witness>>

Publications == DOMAIN Records
Record(p) == <<"publications", p>>
Withdrawal(p) == <<"withdrawals", p>>
Manifest(p) == <<"manifest", p>>
Pointer == <<"work", "current.json">>
WorkLock == <<"work", ".write.lock">>
Revisions == <<"work", "revisions">>
Revision(r) == Append(Revisions, r)
Catalog == <<"catalog">>
Directories == {<<"publications">>, <<"withdrawals">>, <<"work">>, Revisions}

File(holds) == [holds |-> holds, stamp |-> changes.made + 1]
Directory == [holds |-> "directory", stamp |-> 0]
IsThere(path) == path \in DOMAIN namespace
Entries(path) == {q \in DOMAIN namespace : Len(q) = Len(path) + 1 /\ Front(q) = path}

(* Steps of a command: one, one for each path, and the end of a directory whose entries were listed. *)
To(do, path) == <<[do |-> do, path |-> path]>>
Each(do, paths) == LET order == SetToSeq(paths) IN [n \in DOMAIN order |-> [do |-> do, path |-> order[n]]]
Close(path, listed) == <<[do |-> "close", path |-> path, listed |-> listed]>>

-----------------------------------------------------------------------------
(***************************************************************************)
(* What a command makes of the files it has loaded (found: path -> file)   *)
(* and of those that were gone when it came to them (gone).                *)
(***************************************************************************)
Loaded(found, kind) == {p \in Publications : <<kind, p>> \in DOMAIN found}
Selected(request, found) ==
  LET loaded == Loaded(found, "publications")
  IN IF request.op = "list" THEN loaded
     ELSE {p \in loaded : request.id \in loaded /\ Records[p].series = Records[request.id].series}
Successors(request, found, p) == {q \in Selected(request, found) : Records[q].supersedes = p}

PublicationErrors(request, found) ==
  LET chosen == Selected(request, found)
      Unrooted(p) == Records[p].supersedes \notin chosen \cup {None}
      Unregistered(p) == Revision(Records[p].revision) \notin DOMAIN found
  IN \/ \E p \in chosen : Unrooted(p) \/ Unregistered(p) \/ Cardinality(Successors(request, found, p)) > 1
     \/ Loaded(found, "withdrawals") \ Loaded(found, "publications") # {}
     \/ request.op = "show" /\ request.id \notin chosen

Listed(found) == {r \in 1 .. MaxRevision : Revision(r) \in DOMAIN found}
Latest(found) == CHOOSE r \in Listed(found) : \A q \in Listed(found) : q <= r
RegistrationErrors(found) ==
  Listed(found) # {} /\ (Pointer \notin DOMAIN found \/ found[Pointer].holds # Latest(found))

ManifestErrors(request, found) ==
  request.verify /\ \E p \in Selected(request, found) : Manifest(p) \notin DOMAIN found \/ found[Manifest(p)].holds # "recorded"

(* The errors of the audit: report.ok of its scopes. *)
Fails(request, found, gone) ==
  \/ gone # {}
  \/ request.entity \in {"publication", "withdrawal"} /\ PublicationErrors(request, found)
  \/ request.entity = "registration" /\ RegistrationErrors(found)
  \/ ManifestErrors(request, found)

(* A publication as it is listed or shown. *)
Described(request, found, p) ==
  LET head == Successors(request, found, p) = {}
      withdrawn == Withdrawal(p) \in DOMAIN found
  IN [id |-> p, is_head |-> head, is_withdrawn |-> withdrawn, is_current_selectable |-> head /\ ~ withdrawn]
_publication_matches(row, state) ==
  CASE state = "current" -> row.is_current_selectable
    [] state = "series-heads" -> row.is_head
    [] state = "historical" -> ~ row.is_head
    [] state = "withdrawn" -> row.is_withdrawn
    [] OTHER -> TRUE

handle_registry_list(request, found) ==
  CASE request.entity = "publication" ->
         {row \in {Described(request, found, p) : p \in Selected(request, found)} : _publication_matches(row, request.state)}
    [] request.entity = "withdrawal" -> {[withdrawn |-> p] : p \in Loaded(found, "withdrawals")}
    [] OTHER ->
         {[revision |-> r, current |-> r = Latest(found)] :
            r \in {q \in Listed(found) : request.state = "all" \/ q = Latest(found)}}

(* What a publication shows even where the audit has errors; a registration, a withdrawal and a catalog show nothing then. *)
ShownPublication(request, found, gone) ==
  [ok |-> ~ Fails(request, found, gone),
   manifest_valid |-> IF request.verify THEN ~ ManifestErrors(request, found) ELSE None,
   derived |-> IF gone # {} \/ PublicationErrors(request, found) THEN None
               ELSE [row |-> Described(request, found, request.id), successors |-> Successors(request, found, request.id)]]

handle_registry_show(request, found, gone) ==
  CASE request.entity = "publication" ->
         {ShownPublication(request, found, gone) : p \in {request.id} \cap Loaded(found, "publications")}
    [] Fails(request, found, gone) -> {}
    [] request.entity = "withdrawal" -> {[withdrawn |-> p] : p \in {request.id} \cap Loaded(found, "withdrawals")}
    [] request.entity = "registration" ->
         {[revision |-> r, history |-> Listed(found), current |-> Latest(found)] :
            r \in Listed(found) \cap {IF request.revision = None THEN Latest(found) ELSE request.revision}}
    [] OTHER -> {[stamps |-> {found[path].stamp : path \in DOMAIN found}]}

(* The rows of the answer: {} where there is only an error or a report of errors. *)
Answer(request, found, gone) ==
  IF request.op = "list"
  THEN IF Fails(request, found, gone) THEN {} ELSE {handle_registry_list(request, found)}
  ELSE {rows \in {handle_registry_show(request, found, gone)} : rows # {}}

-----------------------------------------------------------------------------
(***************************************************************************)
(* What a command reads, and in which order. The audit of a catalog, its   *)
(* metadata and its sources are three reads of one file.                   *)
(***************************************************************************)
OfPublications(request) == request.entity \in {"publication", "withdrawal"}

Guarded(request) ==
  IF OfPublications(request) THEN To("visit", <<"publications">>) \o To("visit", <<"withdrawals">>)
  ELSE To("visit", IF request.entity = "registration" THEN <<"work">> ELSE Catalog)

Audited(request) ==
  IF OfPublications(request)
  THEN To("list", <<"publications">>) \o To("relate", Revisions) \o To("list", <<"withdrawals">>)
         \o (IF request.verify THEN To("verify", <<"manifest">>) ELSE << >>)
  ELSE IF request.entity = "registration" THEN To("list", Revisions) \o To("find", Pointer)
  ELSE To("find", Catalog) \o To("find", Append(Catalog, "metadata")) \o To("find", Append(Catalog, "sources"))

FileOf(path) == IF path[1] = "catalog" THEN Catalog ELSE path
Related(request, found) == {Revision(Records[p].revision) : p \in Selected(request, found)}
Manifests(request, found) == {Manifest(p) : p \in Selected(request, found)}

(* All that it would find in one moment. *)
Observed(request, files) ==
  LET base == {path \in DOMAIN files \ Directories :
                 IF OfPublications(request) THEN path[1] \in {"publications", "withdrawals"}
                 ELSE IF request.entity = "registration" THEN path = Pointer \/ Front(path) = Revisions
                 ELSE path = Catalog}
      found == [path \in base |-> files[path]]
      more == IF OfPublications(request)
              THEN Related(request, found) \cup (IF request.verify THEN Manifests(request, found) ELSE {}) ELSE {}
  IN [path \in base \cup (more \cap DOMAIN files) |-> files[path]]
Possible(request, files) == Answer(request, Observed(request, files), {})

Nothing == [path \in {} |-> None]
Idle(request) ==
  [phase |-> "idle", request |-> request, todo |-> << >>, noted |-> Nothing, guard |-> Nothing,
   found |-> Nothing, gone |-> {}, answer |-> {}]
Running == run.phase \notin {"idle", "answered", "reported", "changed"}

(* A work with one registration, some publications, every manifest as recorded, a catalog; a behaviour repeats one request. *)
Init ==
  /\ \E published \in SUBSET Publications :
       /\ \A p \in published : Records[p].supersedes \in published \cup {None}
       /\ LET first == {Revision(1), Pointer, Catalog} \cup {Manifest(p) : p \in Publications} \cup {Record(p) : p \in published}
              directories == {<<"work">>, Revisions} \cup (IF published = {} THEN {} ELSE {<<"publications">>})
          IN namespace = [path \in first \cup directories |->
                            IF path \in directories THEN Directory
                            ELSE [holds |-> IF path[1] = "manifest" THEN "recorded" ELSE 1, stamp |-> 0]]
  /\ pending = {} /\ changes = [made |-> 0, takenBack |-> 0] /\ run \in {Idle(request) : request \in Requests}
  /\ witness = [answers |-> {}, quiet |-> TRUE, undone |-> FALSE]

-----------------------------------------------------------------------------
(***************************************************************************)
(* The others. A file is created pending and then settled or taken back,   *)
(* under the lock of its series or work; see PublicationStore and          *)
(* RegistrationStore. They write only where the command looks: what they   *)
(* write elsewhere is nothing to it.                                       *)
(***************************************************************************)
Concerns(path) ==
  CASE run.request.entity = "registration" -> path[1] = "work"
    [] run.request.entity = "catalog" -> path = Catalog
    [] OTHER -> path[1] \in {"publications", "withdrawals"} \cup (IF run.request.verify THEN {"manifest"} ELSE {})
Becomes(path, files) ==
  /\ Concerns(path) /\ namespace' = files
  /\ witness' = IF ~ Running THEN witness
                ELSE [answers |-> witness.answers \cup Possible(run.request, files), quiet |-> FALSE,
                      undone |-> witness.undone \/ (path \in pending /\ path \notin DOMAIN files)]
  /\ UNCHANGED run
Writes(path, holds) ==
  /\ changes.made < MaxChanges /\ changes' = [changes EXCEPT !.made = @ + 1]
  /\ Becomes(path, [q \in {path} |-> File(holds)] @@ namespace)
Creates(path) == ~ IsThere(path) /\ IsThere(Front(path)) /\ Writes(path, path[Len(path)])
Removes(path) == IsThere(path) /\ Becomes(path, [q \in DOMAIN namespace \ {path} |-> namespace[q]])

SeriesIsFree(p) == \A path \in pending : Front(path) # Revisions => Records[path[2]].series # Records[p].series
Settled(p) == IsThere(Record(p)) /\ SeriesIsFree(p)

MakeDirectory(path) ==
  /\ ~ IsThere(path) /\ Becomes(path, (path :> Directory) @@ namespace) /\ UNCHANGED <<pending, changes>>
Publish(p) ==
  /\ SeriesIsFree(p) /\ Records[p].supersedes # None => Settled(Records[p].supersedes)
  /\ Records[p].revision <= namespace[Pointer].holds
  /\ Creates(Record(p)) /\ pending' = pending \cup {Record(p)}
Withdraw(p) == Settled(p) /\ Creates(Withdrawal(p)) /\ pending' = pending \cup {Withdrawal(p)}
TakeBack(path) ==
  /\ path \in pending /\ changes.takenBack < MaxTakeBacks /\ changes' = [changes EXCEPT !.takenBack = @ + 1]
  /\ Removes(path) /\ pending' = pending \ {path}
Settle(path) ==
  /\ path \in pending /\ Front(path) # Revisions /\ pending' = pending \ {path}
  /\ UNCHANGED <<namespace, changes, run, witness>>

(* Any two locks are alike: seeing them apart, a command would only give up more often. *)
TakeWorkLock ==
  /\ ~ IsThere(WorkLock) /\ namespace[Pointer].holds < MaxRevision
  /\ Becomes(WorkLock, (WorkLock :> [holds |-> "lock", stamp |-> 0]) @@ namespace)
  /\ UNCHANGED <<pending, changes>>
CreateRevision ==
  LET path == Revision(namespace[Pointer].holds + 1)
  IN /\ IsThere(WorkLock) /\ namespace[Pointer].holds < MaxRevision
     /\ Creates(path) /\ pending' = pending \cup {path}
MovePointer ==
  LET next == namespace[Pointer].holds + 1
  IN Revision(next) \in pending /\ Writes(Pointer, next) /\ pending' = pending \ {Revision(next)}
ReleaseWorkLock ==
  /\ \A path \in pending : Front(path) # Revisions
  /\ Removes(WorkLock) /\ UNCHANGED <<pending, changes>>

RewriteManifest(p, holds) == Writes(Manifest(p), holds) /\ UNCHANGED pending
ReplaceCatalog == Writes(Catalog, 1) /\ UNCHANGED pending

-----------------------------------------------------------------------------
(***************************************************************************)
(* The command. Looking at a file, reading it and looking again is one     *)
(* step: where the two looks differ the command stops as if it were gone.  *)
(***************************************************************************)
Others == UNCHANGED <<namespace, pending, changes, witness>>
Continue(call) == run' = call /\ Others
Stop(phase, answer) == run' = [Idle(run.request) EXCEPT !.phase = phase, !.answer = answer] /\ Others
At(do) == Running /\ run.todo # << >> /\ Head(run.todo).do = do
Path == Head(run.todo).path
Rest == Tail(run.todo)

Begin ==
  /\ run.phase = "idle" /\ run' = [run EXCEPT !.phase = "guard", !.todo = Guarded(run.request)]
  /\ witness' = [answers |-> Possible(run.request, namespace), quiet |-> TRUE, undone |-> FALSE]
  /\ UNCHANGED <<namespace, pending, changes>>

Exit ==
  /\ run.phase \in {"answered", "reported", "changed"} /\ run' = Idle(run.request)
  /\ witness' = [answers |-> {}, quiet |-> TRUE, undone |-> FALSE] /\ UNCHANGED <<namespace, pending, changes>>

(* Only what a guard starts from may be absent. *)
Visit ==
  /\ At("visit")
  /\ LET note(file) == [q \in {Path} |-> file] @@ run.noted
     IN IF IsThere(Path)
        THEN Continue([run EXCEPT !.noted = note(namespace[Path]),
                                  !.todo = IF Path \in Directories
                                           THEN Each("visit", Entries(Path)) \o Close(Path, Entries(Path)) \o Rest ELSE Rest])
        ELSE IF To("visit", Path)[1] \in Range(Guarded(run.request))
             THEN Continue([run EXCEPT !.noted = note(None), !.todo = Rest])
             ELSE Stop("changed", {})
CloseDirectory ==
  /\ At("close")
  /\ IF Entries(Path) = Head(run.todo).listed THEN Continue([run EXCEPT !.todo = Rest]) ELSE Stop("changed", {})

ListDirectory == At("list") /\ Continue([run EXCEPT !.todo = Each("load", Entries(Path)) \o Rest])
Relate == At("relate") /\ Continue([run EXCEPT !.todo = Each("find", Related(run.request, run.found)) \o Rest])
Verify == At("verify") /\ Continue([run EXCEPT !.todo = Each("find", Manifests(run.request, run.found)) \o Rest])
LoadFile ==
  /\ At("load") \/ At("find")
  /\ Continue(IF IsThere(FileOf(Path))
              THEN [run EXCEPT !.found = [q \in {Path} |-> namespace[FileOf(Path)]] @@ @, !.todo = Rest]
              ELSE [run EXCEPT !.gone = @ \cup (IF At("load") THEN {Path} ELSE {}), !.todo = Rest])
LookAgain ==
  /\ At("same")
  /\ IF IsThere(Path) /\ namespace[Path] = run.found[Path] THEN Continue([run EXCEPT !.todo = Rest]) ELSE Stop("changed", {})

(* Mutant of _namespace_changed: only what was there at first is compared. *)
GuardedFilesChanged(before, after) == \E path \in DOMAIN before : path \notin DOMAIN after \/ after[path] # before[path]
_namespace_changed(before, after) == before # after

(* The answer is worked out after the audit. What it rests on is compared in this order. *)
FinishGuard ==
  /\ run.phase = "guard" /\ run.todo = << >>
  /\ Continue([run EXCEPT !.phase = "audit", !.guard = run.noted, !.noted = Nothing, !.todo = Audited(run.request)])
FinishAudit ==
  /\ run.phase = "audit" /\ run.todo = << >>
  /\ LET answer == Answer(run.request, run.found, run.gone)
     IN IF answer = {} THEN Stop("reported", {})
        ELSE Continue([run EXCEPT !.phase = "manifests", !.answer = answer,
                         !.todo = Each("same", {path \in DOMAIN run.found : path[1] = "manifest"})])
GuardAgain ==
  /\ run.phase = "manifests" /\ run.todo = << >>
  /\ Continue([run EXCEPT !.phase = "again", !.todo = Guarded(run.request)])
(* Of a changed catalog the code still prints path, application ID and `current`, with ok = false: no answer. *)
CompareGuards ==
  /\ run.phase = "again" /\ run.todo = << >>
  /\ IF _namespace_changed(run.guard, run.noted) THEN Stop("changed", {})
     ELSE Continue([run EXCEPT !.phase = "relations", !.noted = Nothing,
                      !.todo = IF run.request.op = "show" /\ OfPublications(run.request)
                               THEN Each("same", {path \in DOMAIN run.found : Front(path) = Revisions}) ELSE << >>])
Emit == run.phase = "relations" /\ run.todo = << >> /\ Stop("answered", run.answer)

Write ==
  \/ \E path \in {<<"publications">>, <<"withdrawals">>} : MakeDirectory(path)
  \/ \E p \in Publications : Publish(p) \/ Withdraw(p) \/ \E holds \in {"recorded", "other"} : RewriteManifest(p, holds)
  \/ \E path \in pending : TakeBack(path) \/ Settle(path)
  \/ TakeWorkLock \/ CreateRevision \/ MovePointer \/ ReleaseWorkLock \/ ReplaceCatalog
Next ==
  \/ Write \/ Begin \/ Exit
  \/ Visit \/ CloseDirectory \/ ListDirectory \/ Relate \/ Verify \/ LoadFile \/ LookAgain
  \/ FinishGuard \/ FinishAudit \/ GuardAgain \/ CompareGuards \/ Emit

Spec == Init /\ [][Next]_vars

-----------------------------------------------------------------------------
(***************************************************************************)
(* What a command prints, it would have printed in one moment of its run   *)
(* with nobody writing: no row is of an earlier moment than another. And   *)
(* it gives up only where somebody wrote. The fingerprint of a directory   *)
(* has no times, so that a file which comes and goes while the audit runs  *)
(* leaves no trace. One such file is shown with what else there was then,  *)
(* but not so with manifests, which are looked at later.                   *)
(***************************************************************************)
AnswersAreOfOneMoment ==
  /\ run.phase = "answered" /\ ~ (run.request.verify /\ witness.undone) => run.answer \subseteq witness.answers
  /\ run.phase = "changed" => ~ witness.quiet
=============================================================================
