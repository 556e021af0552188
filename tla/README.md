# Formal models of pds-core

pds-core is the shared layer of a family of classroom tools.  Several
processes (teacher terminals, command lines, producer modules) work on one
directory tree, the workspace, with no server between them: what they share
are files, and what keeps them apart is exclusive creation (`open("x")`),
atomic replacement (`os.replace`) and small lock files.  These TLA+ modules
model that layer: the academic registry, which everything else depends on,
in most detail, and the smaller stores beside it.

## Inventory

| Component (`src/pds_core/`) | State on disk | Operations | What is hard | What makes it correct |
| --- | --- | --- | --- | --- |
| Academic Work Registrations (`registry_services.py`, `academic_work_registration_storage.py`, `academic_work_registrations.py`) | per work: `.write.lock`, `revisions/N.json`, `current.json` | register, update, list, load | several writers, crashes between revision and pointer, rollbacks, cleared locks, reconciliation after an error | the pointer names a complete, chained, immutable history; answers are true; orphans are never promoted |
| Publication Records and withdrawals (`publication_storage.py`, `publication_records.py`, `registry_services.py`) | one file per record and per withdrawal, one lock per series | publish, supersede, withdraw, read current | random IDs (no path two writers meet at), reads without lock, three looks at a manifest others own, the registration under another lock | a series is one chain with one head; withdrawals have a record; created records stay |
| Lock clearing (`registry_audit.py`) | the lock files above | list, show, clear | a live writer's lock looks like a dead one's | the stores survive a wrong decision as far as they can |
| Academic Period Calendars (`academic_period_storage.py`, `academic_periods.py`, `academic_period_queries.py`) | like registrations, per school year | write revision, resolve, query | as registrations, and callers choose revision numbers, so that two writers need not meet at a path | the pointer moves forward along valid transitions; references stay resolvable; queries agree |
| Academic catalog (`academic_catalog.py`) | one SQLite file and a lock | rebuild, query, remove | canonical files change while the catalog is built from them one by one | an installed catalog was true at one instant; it never goes back |
| Registry audit and registry commands (`registry_audit.py`, `cli_support/academic_registry.py`) | none, they read all of the above | audit, status, list, show, clear lock | reads while others write; two fingerprints around an answer | what is said was true of one moment; every lock can be named |
| Grouping signals (`grouping_signals.py`, `grouping_signal_storage.py`, `grouping_signal_csv.py`, `grouping_signal_diagnostics.py`) | JSON file and digest file per signal | write, load, import, export, diagnose | two files, no lock, identical calls at once | a reported pair stays; of concurrent writers one succeeds |
| Rosters (`rosters.py`, `roster_imports.py`, `_roster_write_lock.py`) | `roster.csv`, lock | edit, create, preview, commit | guarded imports beside plain overwrites | an import replaces exactly the reviewed state |
| Standards (`standards.py`, `starter_standards.py`, `standards_selection.py`, `cli_support/standards_*.py`, `cli_support/menu*.py`) | library file, usage ledger | commands, a menu session, packs, searches, usage events | read-change-write without lock, a session's stale copy, torn last line | libraries stay valid and take packs safely; a session writes what it showed; acknowledged events stay |
| Scan intake and review (`scan_retention.py`, `scan_failure_metadata.py`, `scan_resolution_metadata.py`) | retained scans, failures, resolutions | retain, record, resolve | source changes while it is copied, two reviewers, rollbacks | retained bytes stay (finding 5 apart); a decision rests on a stored failure |
| Routes and dispatch (`route_registrations.py`, `routing_models.py`, `module_dispatch.py`) | one file per locator | register, load, dispatch | two registrations of one locator | a locator means one page |
| Profiles, compatibility, operations (`module_profiles.py`, `publication_compatibility.py`, `provider_diagnostics.py`, `module_operations.py`) | none, reads installed packages | discover, diagnose, evaluate, invoke | broken and rival packages | one package changes nothing for the others; diagnosis foretells discovery |
| Workspace (`workspace.py`, `cli_support/workspace_management.py`) | preference file, directory tree, marker | set, ensure, validate, reset | half-made trees, two terminals | a saved preference names a ready workspace |
| School years and classes (`school_years.py`, `class_metadata.py`, `classes.py`) | year file, a folder per class | open, close, create, list | look and replace without lock | nothing is replaced unasked by a terminal that is alone |
| Terminal, menus, command line | none | | presentation | see *Not modelled* |
| Release and qualification scripts | none | | | see *Not modelled* |

How they interact: a producer registers a work, writes a manifest, and
publishes it; publishing reads the current registration, which lives under a
lock of its own.  The catalog and the audit read registrations, publications
and calendars without any lock.  `clear_registry_lock` removes the lock files
of all of them.  No component calls back into another and nothing is shared
but the files.  The registry commands run the audit and read the catalog; the
standards menu and the standards commands replace the same library file.

## Modules

| Module | What it is |
| --- | --- |
| `RegistrationStore` | the registration of one work: every file operation of the two services and of the strict writer they call, by several processes, with failing operations, crashes and cleared locks |
| `RevisionHistory` | what those services promise: one growing history and truthful answers, without files or locks |
| `RegistrationInvariant` | the inductive invariant `IInv` of `RegistrationStore` |
| `RegistrationProofs` | the theorems about `RegistrationStore`, the refinement among them |
| `MCRegistrationStore` | symmetry, and the refinement mapping from `RegistrationStore` to `RevisionHistory` |
| `PublicationStore` | records and withdrawals of one work, several series, with the registration and the manifests as a changing environment |
| `PublicationInvariant`, `PublicationProofs` | the inductive invariant `PublicationInv` in three layers, and the theorems |
| `MCPublicationStore` | symmetry and the bound on disturbances |
| `AcademicPeriods` | calendars as values: validation, transitions and queries |
| `CalendarStore` | the calendars of one school year as several processes write and resolve them |
| `CalendarInvariant`, `CalendarProofs` | the inductive invariant `CalendarInv`, and the theorems |
| `AcademicCatalog` | what the rebuild makes of canonical files, how the database is verified, what the audit finds wrong: three notions of a valid registry, and where they differ |
| `CatalogStore`, `MCCatalogStore` | rebuild, removal and audit of the catalog, read by read, composed with the canonical writers |
| `CatalogInvariant`, `CatalogProofs` | the inductive invariant `CatalogInv`: what a call knows of the past; and the theorems |
| `CatalogAgreement` | the proof that rebuild, verification and audit agree on every set of files, but for a missing work directory and class metadata that does not load |
| `GroupingSignals`, `SignalStore` | signals as values (validity, CSV exchange, diagnosis), and their pairs of files |
| `RosterStore` | one class roster as several processes write it: plain edits, creations, previewed imports, the hidden write lock |
| `Rosters` | one class roster cell by cell: validation, inferred columns, edits, the documents written and read |
| `Standards`, `StandardsStore` | the standards library as a value, its edits and the merge of packs; the commands that overwrite it |
| `StandardsMenu` | a session of the standards menu beside commands |
| `StandardsQueries` | searches, offered values, selections and the usage summary |
| `UsageLedger` | the usage ledger, down to torn lines |
| `ScanRetention` | copying a scan into the workspace |
| `ModuleDispatch`, `ScanReview` | which module handles a page; route registrations, failures and resolutions |
| `PublicationContracts`, `ModuleOperations`, `Providers` | compatibility of publications, readiness and attention reports, discovery and diagnosis of installed packages |
| `WorkspaceRoot`, `SchoolRecords` | the preferred workspace and its creation; school years and class metadata |
| `RegistryLocks` | lock files as an operator sees them: scan, IDs, filters, guarded clearing |
| `RegistryCommands` | the list and show commands between their two fingerprints |
| `ClassFiles`, `MCClassFiles` | calendars, rosters, school years and class metadata, retention and review in one specification, and their values for the run |
| `ClassFilesProofs` | the inductive invariants of these components (`RosterInv`, `RecordsInv`, `RetentionInv`, `ReviewInv`, stated in their modules) and the theorems about them |
| `WorkspaceFiles`, `MCWorkspaceFiles` | signals, standards with menu, queries and ledger, providers, workspace root, lock listings and registry commands in one specification, and their values for the run |
| `StandardsProofs` | the lemmas about libraries, the merge of packs, the session of the menu and the ledger |
| `WorkspaceFilesProofs` | the inductive invariants of these components (`SignalInv`, `StoreInv`, `MenuInv`, `LedgerInv`, `RootsInv` stated in their modules, `ProvidersInv` and `LockInv` here) and the theorems about them |

### RegistrationStore and the code

`lock`, `revision[r]` and `current` are the files.  A revision file is
absent, torn (the name exists, the content is not yet valid, or never will
be) or complete.  `pc[w]` is the next file operation of the call process `w`
is in; `candidate`, `seen`, `cause` and `persisted` are that call's Python
variables.  One action is one file operation, since everything between two of
them is private to the process.

| Code | Actions |
| --- | --- |
| `register_academic_work`, `update_academic_work_registration` | `Register`, `Update`, `ListRevisions` |
| `write_academic_work_registration` | `AcquireLock`, `ReadPointer`, `ScanRevisions`, `CreateRevision`, `FillRevision`, `VerifyRevision`, `PublishPointer`, `ConfirmPointer`, `ReleaseLock` |
| `_write_registration_candidate`, `_raise_registration_write_state` | `ReloadSelected`, `ReconcileConflict`, `ClassifyCandidate`, `ClassifySelection` |
| `except OSError` at each place | `FirstReadFails`, `AcquireFails`, `StateReadFails`, `RevisionWriteFails`, `RollbackFails`, `PublishFails`, `ConfirmFails`, `ReleaseFails`, `LastReadFails` |
| `clear_registry_lock` | `ClearLock` |
| a killed process | `Crash` |

`trace[w]` is a history variable: what the last call of `w` itself has left
in the directory.  Reading the pointer and the revision it names is one step,
because a selected revision is complete and never changes (`SelectedHistory`,
`HistoryIsImmutable`, both proved).  Listing the revisions and loading each
of them is one step as well; a listing that straddles changes sees a state no
stricter than one of the moments it spans, as revisions above the pointer
come and go one at a time.

### PublicationStore and the code

`file` holds records and withdrawals by path, `lock` one lock per series.
Listing takes two steps, the names and then the contents, because a record
may be rolled back in between.  The service then reports a "write error" if
it notices when it opens the file, and an integrity error if the entry is gone
when `is_file` looks (`LoadErrors`).  `registration` and `manifest` belong to the
environment: `UpdateRegistration` is the other service under its own lock,
`RewriteManifest` a producer that changes bytes it should leave alone.

| Code | Actions |
| --- | --- |
| `publish_manifest_revision`, `supersede_manifest_revision` | `Publish`, `ListSeries`, `LoadSeries` |
| `_create_publication`, `_generated_publication_id` | `GenerateId`, `Confirm`, `Retry` (at most `_PUBLICATION_ID_ATTEMPTS` times) |
| `withdraw_publication` | `Withdraw`, `Reconsider`, `Confirm` |
| `write_publication_record`, `write_publication_withdrawal` | `AcquireLock`, `PublicationVanished`, `CheckRecord`, `CheckWithdrawal`, `CheckHistory`, `CreateFile`, `FillFile`, `VerifyFile`, `ReleaseLock` |
| `_reconcile_after_publication_error` | `Relist`, `Reload` |
| `except OSError` at each place | the actions ending in `Fails` |

### CalendarStore and the code

As `RegistrationStore`, but the caller of `write_academic_period_calendar`
chooses the revision (`Write`).  `AcquireLock`, `ValidateWriteState`,
`CreateRevision`, `FillRevision`, `VerifyRevision`, `PublishPointer`,
`ConfirmPointer`, `ReleaseLock` are its file operations, `RemoveRevision` its
rollback, `Resolve` and `LoadResolved` are `resolve_academic_period_ref`.
`StateError` is `_validate_write_state` with every reason for which it
refuses.  `ClearLock` waits until the lock's writer is gone: cleared under a
live writer, nothing would keep two writers with different numbers apart.

### CatalogStore and the code

| Code | Actions |
| --- | --- |
| `rebuild_academic_catalog` | `rebuild_academic_catalog`, `AcquireLock`, `Listing` (in the order of `_discover_base_paths`), `ReadFiles`, `ReadClass`, `ReadAgain`, `ListAgain`, `CheckMissingClass`, `Replace`, `Unlock` |
| `remove_academic_catalog` | `remove_academic_catalog`, `Unlink`, `Unlock` |
| `_scan_catalog` of the audit | `_scan_catalog`, the same reads, `Compare` |
| the canonical stores | `CreateRevision`, `CreatePublication`, `CreateWithdrawal`, `Fill`, `Settle`, `TakeBack`, `MovePointer`, `ReplaceClass` |

The writers appear by the effects the store modules allow them: a file is
created torn, filled, then settled or taken back.

### The smaller stores

| Code | Module: actions |
| --- | --- |
| `write_grouping_signal`, `load_grouping_signal` | `SignalStore`: `Write`, `LookJson`, `LookDigest`, `CreateJson`, `FillJson`, `CreateDigest`, `FillDigest`, `Load`, `ExistsJson`, `ExistsDigest`, `ReadJson`, `ReadDigest`, `UndoDigest`, `UndoJson` |
| `plan_roster_import`, `commit_roster_import`, roster edits | `RosterStore`: `Preview`, `Commit`, `Edit`, `Create`, `TakeLock`, `Reload`, `CheckTarget`, `ReplaceRoster`, `Release` |
| `validate_roster_rows`, `load_roster`, `create_roster`, `add_`/`replace_`/`upsert_`/`remove_student_record` | `Rosters`: operators of the same names; `Create`, `EditRoster`, `Import` |
| standards and profile commands | `StandardsStore`: the handlers as operators, `Edit`, `ImportLibrary`, `Install`, `LookForLibrary` (whether there is one, just before a pack is written), `ReplaceLibrary` |
| `cli_support/menu_*.py` | `StandardsMenu`: `OpenSession`, `ChooseMenu`, the workflows, `Confirm`, `Cancel`, `CarryOut`, `Replace`, `ReplaceExport`, `Reload`; `CommandWrites` and `FilesChange` are everybody else |
| `append_standard_usage_events` and the rewriting writer | `UsageLedger`: `Open`, `WriteLine`, `WriteBreaks`, `Rewrite` |
| `retain_source_scan` | `ScanRetention`: `Hash`, `OpenSource`, `CreateCopy`, `Copy`, `Compare`, `CopyFails`; `Strike` is the removal by an intake that has created no copy; `ScanOver` and `MoveAway` are the teacher, in every run |
| route registrations, dispatch, failures, resolutions | `ScanReview`: `Register`, `Dispatch`, `LoadRoute`, `LoadRouteError`, `Report`, `Resolve`, `VerifyLink`, and `Create`, `Fill`, `Fsync` for every exclusive file |
| discovery, diagnosis, compatibility, operations | `Providers`: `Install` and `Uninstall` of packages; the judgements are operators on what is installed |
| `ensure_workspace_root` and the workspace commands | `WorkspaceRoot`: `SetRoot`, `Ensure`, `ValidateRoot`, `Reset`, and one action per file operation of the creation |
| `school_years.py`, `class_metadata.py` | `SchoolRecords`: `OpenYear`, `CloseYear`, `WriteYear`, `WriteMetadata`, `MakeFolder`, `ReplaceMetadata`, `EnsureFolder`; `list_class_folders` is an operator |
| `_scan_locks`, `list_registry_locks`, `get_registry_lock`, `clear_registry_lock` | `RegistryLocks`: operators on what lies in the lock directories, which changes by `Appears` and `Vanishes` |
| `handle_registry_list`, `handle_registry_show` | `RegistryCommands`: `Begin`, `Visit`, `CloseDirectory` (first fingerprint), `ListDirectory`, `Relate`, `LoadFile`, `LookAgain`, `Verify` (audit), `GuardAgain`, `CompareGuards` (second fingerprint), `Emit`; `Publish`, `Withdraw`, `TakeBack`, `Settle`, `CreateRevision`, `MovePointer` and the like are everybody else |

## Runs

| Run | Instance | What it shows |
| --- | --- | --- |
| `registration` | two processes, two metadata values, two clock values, locks cleared at any time | the inductive invariant and with it the safety of the store, its immutability, that orphans are never promoted, and that the store implements `RevisionHistory`.  None of this needs the lock: `open("x")` on the next number decides |
| `registration_guarded` | locks cleared only when their writer is gone, up to three revisions, two faults | what the lock is for: mutual exclusion, and findings under the lock that are real.  Also that the history grows to the bound unless an orphan stands in its way |
| `publication` | two processes, one academic series, two publication IDs, two revisions, one disturbance (fault, crash or rewritten manifest) | the inductive invariant `PublicationInv`; a series is one unbranched chain at every moment, a withdrawal has its record, and a broken history found under the lock is no living colleague's |
| `publication_two_series` | two series, the same two IDs, locks cleared at any time, one fault | records that were reported as created stay, and complete files are removed only by the call that made them: here the lock does not help, as the series have different ones |
| `class_files` | the stores of `ClassFiles`, one in each behaviour; two processes, one fault or crash.  Calendars: one school year, revisions up to three with gaps, four calendars (a full tree, a changed period type, a circle of parents among them).  Rosters: three student records, cells with padding, blanks, short and long lines.  Retention: one timestamp and two contents, so intakes meet at one name; 349,000 states | the inductive invariants of the components (`TypesHold`).  Calendars: the selected history is chained across gaps, references stay resolvable, orphans need a disturbance, readers find no broken pointer, the queries agree on every selected calendar.  Rosters: an import replaces exactly what was reviewed, previews account for every student, answers are true even when the lock file cannot be removed, and whatever is written loads again.  School years and metadata are replaced unasked only by one who met another; retained copies stay but for those that a failing intake struck, and review records stay |
| `catalog` | two workers, one class, one registration history, three publications of a series, six initial stores (with orphans, a torn file, two heads, class metadata that does not load), five canonical steps and one disturbance; 470,000 states | an installed catalog is one that was true during its rebuild and never goes back; an audit is right about one moment; the inductive invariant `CatalogInv`; rebuild, verification and audit agree, also on every damage to seven files (`OtherFiles`; all in `CatalogHolds`), but for a missing work directory, an error of the audit only, and class metadata that does not load, which only the rebuild refuses |
| `workspace_files` | the components of `WorkspaceFiles`, one in each behaviour, two processes, one disturbance (the ledger two); 436,000 states | the properties of those components, named in `WorkspaceFiles` and explained in their modules, and their inductive invariants; of the writers of one signal one succeeds |
| `registration_read_error` | | finding: a storage exception passes the service |
| `registration_false_orphan` | | finding: a colleague's revision is reported as an orphan |
| `publication_registration_race` | no faults | finding: a record appears under a registration that is no longer current |
| `publication_vanishes` | one rewritten manifest | finding: a replay is answered with a record that is then removed |
| `retention_removes_copy` | two intakes, one failing operation or crash | finding: a failing intake removes another one's copy |

Bounds.  Two processes suffice for every conflict here: each conflict is
between one call and one other step (another call, a cleared lock, a changed
manifest), and the proofs cover any number of processes, files and
disturbances for registrations, publications, calendars, the catalog, the
class files and the workspace files, except for the registry commands.  Two
revisions give a first and a superseding one; three let the liveness run
make progress twice.  `MaxFaults`, `MaxCrashes` and `MaxChanges` count
disturbances over the whole behaviour, not per call; one fault reaches every
error path, two are needed only for a write and its removal to fail together
in the registration store.  In the publication model such a pair counts as one.  `MaxAttempts` is 2
instead of 8, enough for a collision and for the exhaustion of attempts.

The calendars need revision three to leave a gap and close in on it.  In the
catalog run `MaxEffort` bounds what canonical writers do to five steps: enough
for a publication to be created, filled and taken back, or for a pointer to
move, and for something else to change between a worker's two looks.  Three
publications give a chain and a fork.  The smaller stores get one ID, or
two where two matter, since files of different IDs are independent there.
Where a run has one disturbance, one fault reaches each error path and one
crash each half-done state; the ledger has two, so that a second torn line can meet
the first.  `MaxTakeBacks` of the registry commands is one, see *Abstractions*.
Runs with symmetric processes check no liveness.

`ClassFiles` and `WorkspaceFiles` move one component per behaviour.  These
components share no file and no variable of the program, but for the roster a
class listing looks at, which appears in `SchoolRecords` by an action of its own.
So a behaviour in which several move is an interleaving of such behaviours and
their properties look at one component each; nothing is lost.

Deadlock is not checked in the catalog run, whose canonical writers stop at
their bound and whose workers may all have crashed.

Fairness.  `HistoryGrows`: a process runs the call it is in
(nothing in a call waits: a lock that exists is an error, not a queue), an
operator eventually clears the lock of a dead writer, as the recovery guide
has it, and processes keep coming back with calls that start from what is
selected.  The last is strong fairness because such a call is enabled only
between two calls of the process.  `SomeWriterWins`: a signal call that has
begun goes on; nothing makes a process begin one.  Crashes and failing
operations are not fair, they need not happen.

## Findings

1. `_write_registration_candidate` does not handle
   `AcademicWorkRegistrationReadError`, which the strict writer raises when it
   finds a torn revision or cannot read under the lock; producers see an
   exception of the storage module.
2. An update lists revisions before it takes the lock and reports the
   revision of a colleague at work as an orphan in need of repair.  Under the
   lock the same report is right (`LockedScanFindsRealOrphans`).
3. The registration of an academic publication is checked under the lock of
   the series but changed under the lock of the work; a record can appear
   with a superseded or cancelled registration.
4. A replay reads the series without its lock and may answer `existing` with
   a record whose own call removes it afterwards, when its last look at the
   manifest finds other bytes.
5. `retain_source_scan` removes the file at the path of its copy after every
   `OSError` but `FileExistsError`, also after one raised before it created the
   copy: an intake that cannot open its source (moved away since its digest,
   or too many open files) or cannot create its copy deletes what another has
   retained.  `RetainedUnlessStruck` shows that nothing else takes a retained
   copy away.

Met while modelling, without a run of their own.  Two commands or sessions that
replace the standards library at once lose one another's changes, and the same
holds for plain roster edits and school years; no document promises otherwise.
A part of a category path may hold the separator `/`; such a standard cannot
be found by the category the menu offers for it (`AnswersAreTrue` leaves these
categories out).

## Proofs

Each component has an inductive invariant that TLC checks on its run and
`tlapm` proves to be inductive, for all values of the constants that satisfy
the named assumptions.  A proof has one lemma per action, or per kind of
action, and a theorem that combines them; the properties of the runs follow
from the invariant.

| Module | Theorems (without `Spec =>`) | Assumptions beyond those of the stores |
| --- | --- | --- |
| `RegistrationProofs` | `[]IInv`, and from it `TypeOK`, `SelectedHistory`, `OneUnselectedRevision`, `AcknowledgedIsDurable`, `PlainFailureLeftNothing`, `HistoryIsImmutable`, `OrphanNeverPromoted` | none |
| | `ImplementsHistory` | none |
| | `MutualExclusion`, `LockedScanFindsRealOrphans` | `GuardedClearing` |
| `PublicationProofs` | `[]PublicationInv`, `TypeOK`, `CreatedIsDurable`, `SettledFilesAreImmutable` | none |
| | `SeriesIsChain`, `LockedHistoryIsSettled` | `GuardedClearing` |
| | `WithdrawalHasRecord` | `GuardedClearing`, `OneSeries` |
| `CalendarProofs` | `[]CalendarInv`, `HistoryIsChained`, `ReferencesStayResolvable`, `OrphanNeedsDisturbance`, `ReadersFindCalendar` | none; clearing is always guarded in this model |
| `CatalogProofs` | `[]CatalogInv`, `InstalledIsRecent`, `AuditIsRight`, `CatalogNeverGoesBack` | none |
| `CatalogAgreement` | `[]CatalogHolds`, with `AcceptedStateIsSound`; of every set of well-formed files, reachable or not: `Sound`, which names the two disagreements | the files are well-formed (`AreCanonical`) |
| `ClassFilesProofs` | `[]TypesHold`, `RostersHold`, `GuardedWritesHold`, `SchoolRecordsHold`, `RetainedUnlessStruck`, `ReviewRecordsHold` | none but the types of the constants; finding 5 refutes the same about struck copies |
| `WorkspaceFilesProofs`, with `StandardsProofs` | `[]ComponentsHold`, `SignalsHold`, `LibrariesHold`, `MenusWriteWhatWasAgreed`, `AcknowledgedEventsStay`, `ProvidersAreContained`, `SettingsAndLocksHold` | none |

The assumptions of the stores say that bounds are natural numbers, times are
numbers, publication IDs are finitely many (they have 32 hexadecimal digits),
that what stands for "nobody" or "nothing" is no writer or value, and that
canonical files lie where the stores put them.  Those of `WorkspaceFiles` add
what the constructors and validators of the code see to: signals, rosters and
packs are finite and have the fields of their types, a profile or a report has
the fields its class checks, names in a path are strings, lock files of
different record sets have different names, and every artifact lies below a
namespace directory.

*Registrations.*  The lock appears nowhere in `IInv`, since it may be cleared
under a live writer.  What remains is this: a call that has an unselected
revision of its own (a *holder*) knows that this revision is `current + 1`
and that nobody else is a holder (`HolderIsNext`, `OneHolder`).  It got there
through `open("x")`, so nobody else owned that path; every other candidate
was made from a revision not above the pointer (`CandidateContinues`), so it
is for the same path, which is taken, or for one below the pointer, which is
taken as well.  Hence nobody but the holder can move the pointer, and when
the holder does it moves by one.  `TraceFitsPhase` relates the place in the
code and the error being raised to what the call has left behind, which makes
`PlainFailureLeftNothing` inductive.  `AnswerIsTrue` says that answers stay
true, which needs the history to be immutable.

*The refinement.*  Under the mapping of `MCRegistrationStore` a step of a call
begins an operation of `RevisionHistory`, goes on with it unseen, answers or
dies; the replacement of `current.json` is the one step that extends the
history.  Each action is shown to be one of these.

*Publications.*  Random IDs mean that two writers of a series never meet at a
path, so exclusive creation says only who owns a file.  `FilesInv` is that
layer, with locks cleared at any time: one owner per file, and only an owner
fills it or takes it back; what was reported as created has none any more.
`ChainInv` adds the lock.  Who holds it has seen every record of its series
(`HistoryIsListed`), and its candidate still extends them when it is created
(`CandidateExtends`), as nobody else may create one meanwhile.
`WithdrawalInv` says that a withdrawal's record is there, complete and no
longer owned.  It needs `OneSeries`: `write_publication_withdrawal`
(`publication_storage.py:435`) locks the series of the record as it was read
before the lock.  That record can be rolled back and its ID drawn again for
another series in between; with random IDs nobody will see this happen, but
it is no consequence of the code, and the theorem says so.

*Calendars.*  The lock takes the place of exclusive creation, since callers
choose revision numbers.  What the holder found when it validated stays so
(`Continues`): the pointer is what its caller expected, its calendar may
follow the selected one, and no file above the pointer is another's.  Selected
histories have gaps; that a reference resolves in every later calendar needs
the transitivity of `ValidTransition`, which is a lemma.

*The catalog.*  A worker reads files one by one while they change, so the
invariant speaks of instants.  A file's content is the instant of its writing,
and contents never return (`PastInv`).  Collecting finds what stays from the
call's beginning.  The second look finds the same files with the same
contents, so all of them were there at the instant `m` between the two at
which the class metadata was read, and the second listing covers whatever
stays from `m` on: the files read are those of `m` (`CheckedAt`).  For the
audit the sources stored in the catalog take the place of the first look.
Nothing of this needs the lock; only `CatalogNeverGoesBack` does, and it
excepts removed locks.

*The agreement.*  `EveryRegistryIsSound` is about operators only.  For every
finite set of well-formed files, however damaged, and whether the directory of
the work is there or not: the projection accepts the base files exactly if the
audit finds no fault with them but a missing work directory
(`registrations.producer_work_missing`), and beyond that refuses nothing but
class metadata that does not load, at which the audit does not look
(`_load_projection` is `Projectable` and `ClassLoads`).  These are the two
disagreements of the code, and there is no third.  What the projection writes passes
the verification of the database, every series has one head in the queries,
and the current publications are the heads that are not withdrawn.  Its lemmas
say that a finite set of numbers has a greatest one, and that all records of a
chain but the first supersede one each, so that one is superseded by none.
`CatalogHoldsAlways` adds that the stores write such files only.

*The class files.*  Retention: under a name that was not struck, a copy in the
making is its maker's own, through exclusive creation, and was not returned, so
what a maker takes back is its own.  Review: a complete record
stays or is known to have been taken back, so that what was founded once stays
founded.  Rosters: whoever is past the write lock is alone and has seen the
roster it replaces; that a preview loses nobody rests on lemmas about
sequences of students with distinct IDs (what an edit makes is valid, the
preview's lists cover both rosters and are disjoint).  School years: what a terminal is
about to write fits what it has seen, and what is there is what it has seen
unless it has met another.  `NextTypes` puts the components together.

*Signals.*  No lock keeps writers of one signal apart.  Exclusive creation of
the JSON file leaves one maker of a pair; only a maker creates, fills or takes
back a file of it, and it gives both up when it reports the pair
(`MakerFits`, `CreatedFits`).  With no failing operation no maker takes
anything back, so that a pair without maker is whole or not there
(`NothingIsHalf`), which is what a call that finds half a pair reports.  What
an import or a diagnosis says of a signal rests on lemmas about cardinalities of
finite sets.

*The standards library.*  Every command and every workflow of the menu
validates the library before it replaces the file, so validity is a matter of
each edit.  That a pack adds what is missing and changes nothing else is a
lemma about the merge.  The menu's invariant ties the session to its copy
(`Fits`): what is prepared or about to be written is a library that keeps
everything in the copy and changes one profile of it at most, and where nobody
disturbed the session it is what was shown.  That at most one profile
changes is counted in the property and a quantifier in the invariant; a lemma
about cardinalities leads from one to the other.

*The ledger.*  An acknowledged event is a whole line that nothing can be
added to: a later line follows it, or it ends with a newline (`Standing`).  An
append that no other write has met since it opened the file puts a newline
first or needs none, so it cannot grow an old line, and its own is a line of
its own.

*The workspace root.*  A call makes the directories in their order and saves
the preference last, so its place in the code says which of them are there
(`MadeSoFar`); nobody removes one.

*Providers.*  The judgement of an entry point depends on this entry point
alone, except for rivals, and rivalry is symmetric: none of two rivals is
taken.  So what discovery returns
is what diagnosis calls usable, and a broken package changes nothing for the
others.  Of `WideningKeepsCompatible` only one reading can be proved: when a
profile supports more, a publication that was compatible stays compatible.  The
reasons given for an incompatible one need not become fewer, since an
unsupported kind of publication hides its unsupported manifest version.  The
property states the first reading.

*Lock listings.*  `LockInv` says of the tree that paths are unique and that
whatever has something below it is a directory.  The ID of a lock has one of
four forms, and each names one file; this is all that `EveryLockIsFound` needs.
For `NothingIsOmitted`, a path that the scan does not reach is followed name
by name: at the first name where the scan stops it has a finding, and a path
that leads on to a lock has six names at most, so no induction is needed.

`NextTypes` and `WorkspaceFilesInvariance` put the components together.

Only model-checked:

- `HistoryGrows` and `SomeWriterWins`: liveness is out of the prover's reach;
- `ContentsHold`: the queries of calendars and the cells of rosters are
  computed by recursion over sequences, and induction over data is out of
  reach as well;
- the two parts of `AnswersAreTrue`.  The registry commands' answers are of one
  moment only within `MaxTakeBacks` of one, as said under *Abstractions*; a theorem
  would be about the behaviours in which nothing is taken back, and its inductive
  invariant, about all that a command has still to read, is not part of this
  project.  The searches and the usage summary (`QueriesAgree`) are folds over
  sequences, so that an equality about them needs induction again.

## Abstractions

- Requests are valid and, but in the audit, the directory of the work exists; field validation, JSON syntax, paths and
  Windows-specific checks are left out.  Metadata, digests and reasons are
  opaque values that are compared for equality only, as the services do.
- A crash is the end of a process.  Files written before it stay, as after a
  process crash; lost directory entries after a power failure
  (`_fsync_directory_if_supported` ignores its errors) are not modelled.
- The transition check of the strict writer cannot fail when called from the
  services, as the candidate is built from the revision it is compared with.
- A manifest is its digest.
- `withdraw_publication` compares the record it finds under an ID with the one it
  had found before, and ends in an integrity error when they differ.  They can only
  when a rolled-back record's ID is drawn again; `Reconsider` then goes on.
- `clear_registry_lock` compares identity, size and times of the lock file
  between its own observation and the removal; it is one step here.  Between
  `show lock` and `clear-lock` only the digest is compared, and the lock
  files of a kind all have the same bytes, so that the step may remove any
  lock that is there.

Calendars and catalog:

- A calendar lock is cleared only after its writer is gone (see above).
- Reads of settled files are merged into the next read of a file that may
  change, as they commute with every step of the others.
- The audit's agreement is about registrations, calendars, publications and
  withdrawals; hidden or unexpected entries, and its scopes of manifests and
  contracts, have no counterpart.  A class file is read once where the projection
  reads it again to compare (`load_class_metadata_for_class`).
- There is one class.  Two class files changed back and forth between two reads
  could defeat the comparison of snapshots; the model does not show this.
- The catalog is its rows; SQLite, its journals and side files, and the filters of
  queries by column are left out.

Standards:

- Fields are opaque; the order of records reaches only displays.  A command
  loads and replaces the library in two steps, an installation in three;
  writing is atomic (`os.replace`).
- The menu: one session, whose commands are steps of the environment.  Workflows
  that only show something are left out.  An import reads its file again after
  YES, and `ReplacesWhatWasAgreed` is about the content at that moment.  A session
  writes its whole copy and so overwrites what commands did since.  "Validate
  library" only looks whether the file exists.  A `StandardsWriteError` while a
  pack is installed is handled by `cli._run` only, and ends the session.
- Rosters: `RosterStore` knows a student by ID and one other value, and may be read
  by any process at any step; `Rosters` knows every cell and padding, one call after
  the other.  The three name columns are one, texts are opaque, quoting is left out.
  `RostersHold` is about the first, the roster part of `ContentsHold` about the second.
- The ledger: `AcknowledgedEventsStay` excepts an append whose look at the last
  byte was outdated by another writer's torn write.  It says that the event has a
  line of its own: while a torn line is there, `load_standard_usage_events` refuses
  the whole ledger, and the event can be read once that line is repaired.

Stores without locks and the rest:

- Review records, signals and scans are created exclusively and taken back by
  their creators only; field syntax is left out, invalid content appears as what
  the validators refuse.
- Providers: constructors validate, so that an invalid profile or report counts
  as a provider that raises.
- The workspace root is a directory or absent, never a file; temporary files of
  atomic replacements are not modelled.
- Locks: the namespace roots are directories.  Lock files of a kind have the same
  bytes.  The catalog lock is counted by the audit and dropped by its filters, as
  in the code.
- Registry commands: a behaviour repeats one request; others write only where it
  looks; school years and module contracts are left out; one look at a
  file is one step.  The fingerprint leaves out the times of directories, so a
  publication created and taken back inside one command leaves no trace;
  `AnswersAreOfOneMoment` excuses the verification of such a publication, and two
  of them in one command could mix moments.

## Not modelled

- Terminal presentation, argument parsing, prompts and text (`teacher_ui.py`,
  `core_menu.py`, `menu_navigation.py`, `parser.py`, most of `cli.py`): they keep
  no state beyond the screen; what they change goes through modelled operations.
- `PDS2` payloads, route IDs and identifiers: pure parsing of strings.
- JSON and CSV syntax, path normalisation, Windows-specific checks.
- Release and qualification scripts: they build and probe wheels.
- SQLite.

## What remains

The answers of the registry commands are a theorem to be proved for the behaviours
in which no file is taken back; without that condition the bound `MaxTakeBacks` is
part of the statement, since the code's fingerprint does not show a file that was
taken back inside one command.  The
equalities between folds (`ContentsHold`, `QueriesAgree`) wait for a prover that
can instantiate an induction theorem.  Liveness stays with TLC.
