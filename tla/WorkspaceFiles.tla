------------------------------ MODULE WorkspaceFiles ------------------------------
(***************************************************************************)
(* What belongs to the whole workspace, in one specification: grouping     *)
(* signals, the standards library with its menu and its queries, the usage *)
(* ledger, installed providers, the workspace root, lock listings and the  *)
(* registry commands. They share no file, so what one of them does changes *)
(* nothing for another: a behaviour moves the active one only. Each        *)
(* component keeps its own variables; those it has under a common name     *)
(* (pc, seen, library, disturbances) are one variable here, and those of   *)
(* the inactive ones are None.                                             *)
(***************************************************************************)
EXTENDS Integers, Sequences, FiniteSets

CONSTANTS
  Writers, MaxDisturbances, None,
  Signals, ClassRosters,                                          \* SignalStore
  LibraryWriters, StandardIds, Definitions, ProfileIds, Texts, LibraryFiles, Packs, \* StandardsStore
  MenuStandardIds, SubpartsOf(_), MenuPacks, Imports, Batches,    \* StandardsMenu
  Events, Rewrites, MaxLines, MaxLedgerFaults,                    \* UsageLedger
  EntryPoints, MaxInstalled, Names, OperationRequests, PublicationsOnFile, PublicationRegistrations, RouteRequests, \* Providers
  Roots, Default, Environment,                                    \* WorkspaceRoot
  Descriptions, ProfileRecords, UsageEvents, MaxUsage,            \* StandardsQueries
  Years, Identifiers, Lowercase, PublicationKinds, LockFile, ClassYears, Artifacts, MaxArtifacts, \* RegistryLocks
  Records, MaxRevision, MaxChanges, MaxTakeBacks, Requests        \* RegistryCommands

VARIABLES
  active, pc, disturbances,
  json, digest, own, made, mode, seen, outcome,
  library, candidate,
  mine, screen, draft, inbox, outbox,
  known, grouped, usage,
  lines, terminated, appending, separator, opened, acknowledged, raced,
  installed,
  config, disk, target, saving,
  entries,
  namespace, pending, changes, run, witness

signalVars == <<json, digest, own, made, mode, seen, outcome>>
menuVars == <<mine, screen, draft, inbox, outbox>>
queryVars == <<known, grouped, usage>>
ledgerVars == <<lines, terminated, appending, separator, opened, acknowledged, raced>>
rootVars == <<config, disk, target, saving>>
commandVars == <<namespace, pending, changes, run, witness>>
workspaceFilesVars ==
  <<active, pc, disturbances, signalVars, library, candidate, menuVars, queryVars, ledgerVars, installed, rootVars, entries,
    commandVars>>

-----------------------------------------------------------------------------
Signal == INSTANCE SignalStore
Library == INSTANCE StandardsStore WITH Writers <- LibraryWriters

(* What commands make of the library while a session of the menu is open: some add standards, some install a pack. *)
Libraries == INSTANCE Standards
CommandsInstall(l, pack) == {result.library : result \in Libraries!Installed(l, pack, TRUE)}
CommandsMake(l) ==
  (UNION {Libraries!add_standard_definitions(l, batch) : batch \in Batches}) \cup (UNION {CommandsInstall(l, pack) : pack \in MenuPacks})
Menu == INSTANCE StandardsMenu
          WITH StandardIds <- MenuStandardIds, Subparts <- SubpartsOf, Packs <- MenuPacks, Edits <- CommandsMake

Query == INSTANCE StandardsQueries
           WITH standards <- known, profiles <- grouped, Definitions <- Descriptions, Profiles <- ProfileRecords
Ledger == INSTANCE UsageLedger WITH MaxDisturbances <- MaxLedgerFaults
Provider == INSTANCE Providers WITH Missing <- None, Requests <- OperationRequests, Publications <- PublicationsOnFile
Root == INSTANCE WorkspaceRoot WITH Terminals <- Writers
Lock == INSTANCE RegistryLocks
Commands == INSTANCE RegistryCommands

(* Processes are not file names, what stands for nothing is no root. *)
ASSUME WorkspaceFilesAssumption ==
  /\ \A w \in Writers : w \notin Root!Phases \cup {"root", ".pds", "marker"}
  /\ MaxDisturbances \in Nat
  /\ Rewrites \subseteq Seq(Events) /\ None \notin Seq(Seq([event : Events, torn : BOOLEAN]))
  /\ None \notin Roots /\ Default \in Roots /\ Environment \in [Writers -> Roots \cup {None}]

(* Signals and rosters are finite, and have the fields of GroupingSignalSet, GroupingSignalDimension and GroupingSignalStudentBand that are modelled. *)
ASSUME SignalsAssumption ==
  /\ \A s \in Signals :
       /\ s = [signal_set_id |-> s.signal_set_id, class_id |-> s.class_id, created_at |-> s.created_at,
               dimensions |-> s.dimensions, student_bands |-> s.student_bands]
       /\ IsFiniteSet(s.dimensions) /\ \A d \in s.dimensions : d.band_count \in Nat
       /\ IsFiniteSet(s.student_bands)
       /\ \A b \in s.student_bands : b = [student_id |-> b.student_id, dimension_id |-> b.dimension_id, band |-> b.band]
  /\ \A rosters \in ClassRosters : \A c \in DOMAIN rosters : IsFiniteSet(rosters[c])

(* Starter packs are libraries, and so are the files of a menu that can be loaded as such; a file that is imported by a command is checked for its references only then. *)
ASSUME LibrariesAssumption ==
  /\ \A pack \in Packs \cup MenuPacks : Libraries!IsLibrary(pack) /\ IsFiniteSet(DOMAIN pack.profiles)
  /\ \A file \in Imports : file.kind = "library" => Libraries!IsLibrary(file.content) /\ IsFiniteSet(DOMAIN file.content.profiles)
  /\ \A l \in LibraryFiles : Libraries!ValidLibrary(l) => Libraries!IsLibrary(l)

(* An entry point is of one of the kinds; what its provider gives, and what the capabilities of its operations answer, has the type the code checks. *)
ASSUME ProvidersAssumption ==
  \A point \in EntryPoints :
    /\ point.kind \in Provider!Kinds /\ point.gives \in {"load_failed", "not_callable", "raises", "wrong_type", "profile"}
    /\ point.kind = "module_operations" /\ point.gives = "profile" =>
         LET profile == point.profile
         IN /\ profile = [module_id |-> profile.module_id, contracts |-> profile.contracts,
                          readiness |-> profile.readiness, attention |-> profile.attention]
            /\ \A capability \in {"readiness", "attention"} :
                 profile[capability] # None /\ ~ profile[capability].raises =>
                   LET report == profile[capability].report
                   IN /\ report # None /\ report.evaluation \in {"evaluated", "unavailable"}
                      /\ report.capability = "readiness" => report.summaries = << >>

(* Names are strings, no two record sets share a lock file, and what lies in the registry's directories lies in a namespace. *)
ASSUME LocksAssumption ==
  /\ Years \cup Identifiers \cup Lowercase \cup PublicationKinds \cup DOMAIN LockFile \subseteq STRING
  /\ \A s \in DOMAIN LockFile : LockFile[s] \in STRING
  /\ \A s, t \in DOMAIN LockFile : LockFile[s] = LockFile[t] => s = t
  /\ \A a \in Artifacts : a.path \in Seq(STRING) /\ Len(a.path) > 1 /\ a.path[1] \in Lock!Kinds \cup {"core"}

-----------------------------------------------------------------------------
NoSignals == json = None /\ digest = None /\ own = None /\ made = None /\ mode = None /\ seen = None /\ outcome = None
NoLedger ==
  lines = None /\ terminated = None /\ appending = None /\ separator = None /\ opened = None /\ acknowledged = None /\ raced = None
NoRoot == config = None /\ disk = None /\ target = None /\ saving = None
NoCommands == namespace = None /\ pending = None /\ changes = None /\ run = None /\ witness = None
NoQueries == known = None /\ grouped = None /\ usage = None
NoMenu == mine = None /\ screen = None /\ draft = None /\ inbox = None /\ outbox = None

(* What a component that is not the active one has: nothing. *)
Without(components, nothing) == IF active \in components THEN TRUE ELSE nothing
WorkspaceFilesInit ==
  /\ \/ (active = "signals" /\ Signal!Init)
     \/ (active = "library" /\ Library!Init)
     \/ (active = "menu" /\ Menu!Init)
     \/ (active = "ledger" /\ Ledger!Init)
     \/ (active = "providers" /\ Provider!Init)
     \/ (active = "root" /\ Root!Init)
     \/ (active = "locks" /\ Lock!Init)
     \/ (active = "queries" /\ Query!Init)
     \/ (active = "commands" /\ Commands!Init)
  /\ Without({"signals"}, NoSignals)
  /\ Without({"ledger"}, NoLedger)
  /\ Without({"root"}, NoRoot)
  /\ Without({"menu"}, NoMenu)
  /\ Without({"queries"}, NoQueries)
  /\ Without({"commands"}, NoCommands)
  /\ Without({"library", "menu"}, library = None)
  /\ Without({"library"}, candidate = None)
  /\ Without({"providers"}, installed = {})
  /\ Without({"locks"}, entries = None)
  /\ IF active \in {"providers", "locks", "menu", "queries", "commands"} THEN pc = None ELSE TRUE
  /\ IF active \in {"providers", "locks", "queries", "commands"} THEN disturbances = 0 ELSE TRUE

Unless(components, variables) == IF active \in components THEN TRUE ELSE UNCHANGED variables
OthersStay ==
  /\ UNCHANGED active
  /\ Unless({"signals"}, signalVars)
  /\ Unless({"ledger"}, ledgerVars)
  /\ Unless({"library", "menu"}, library)
  /\ Unless({"library"}, candidate)
  /\ Unless({"providers"}, installed)
  /\ Unless({"root"}, rootVars)
  /\ Unless({"menu"}, menuVars)
  /\ Unless({"locks"}, entries)
  /\ Unless({"queries"}, queryVars)
  /\ Unless({"commands"}, commandVars)
  /\ active \in {"providers", "locks", "menu", "queries", "commands"} => UNCHANGED pc
  /\ active \in {"providers", "locks", "queries", "commands"} => UNCHANGED disturbances

OnSignals == active = "signals" /\ Signal!Next /\ OthersStay
OnLibrary == active = "library" /\ Library!Next /\ OthersStay
OnLedger == active = "ledger" /\ Ledger!Next /\ OthersStay
OnProviders == active = "providers" /\ Provider!Next /\ OthersStay
OnRoot == active = "root" /\ Root!Next /\ OthersStay
OnMenu == active = "menu" /\ Menu!Next /\ OthersStay
OnLocks == active = "locks" /\ Lock!Next /\ OthersStay
OnQueries == active = "queries" /\ Query!Next /\ OthersStay
OnCommands == active = "commands" /\ Commands!Next /\ OthersStay
WorkspaceFilesNext ==
  \/ OnSignals \/ OnLibrary \/ OnMenu \/ OnQueries \/ OnLedger \/ OnProviders \/ OnRoot \/ OnLocks \/ OnCommands

WorkspaceFilesSpec ==
  /\ WorkspaceFilesInit /\ [][WorkspaceFilesNext]_workspaceFilesVars
  /\ \A w \in Writers : WF_workspaceFilesVars(active = "signals" /\ Signal!Step(w) /\ OthersStay)

-----------------------------------------------------------------------------
(* The properties of the components, stated and explained in their modules. *)
(* SignalStore: what was reported created or returned stays, pairs are whole when nobody writes and survive exchange. *)
SignalsHold == active = "signals" => Signal!SignalInv /\ Signal!StoredSignalsAreUsable
(* SignalStore: of the writers of a signal one succeeds. *)
SomeWriterWins ==
  \A i \in Signal!SignalIds : (active = "signals" /\ Signal!Begun(i)) ~> (active = "signals" /\ Signal!Settled(i))
(* StandardsStore, StandardsMenu: what is stored is a library, which takes every pack safely; and so is what a session is about to write. *)
LibrariesHold ==
  /\ active = "library" => Library!StoreInv /\ Library!LibrariesTakePacks
  /\ active = "menu" => Menu!MenuInv
(* StandardsMenu: a session writes what it has shown, and goes on with what it wrote. *)
MenusWriteWhatWasAgreed == [][active = "menu" => Menu!ReplacesWhatWasAgreed /\ Menu!GoesOnWithTheLibrary]_workspaceFilesVars
(*************************************************************************)
(* RegistryCommands and StandardsQueries: an answer is that of one moment, *)
(* and what is offered is found.                                           *)
(*************************************************************************)
AnswersAreTrue ==
  /\ active = "commands" => Commands!AnswersAreOfOneMoment
  /\ active = "queries" => Query!QueriesAgree
(* UsageLedger: acknowledged events stay readable. *)
AcknowledgedEventsStay == active = "ledger" => Ledger!LedgerInv
(* Providers: what other packages bring changes nothing for the rest. *)
ProvidersAreContained == active = "providers" => Provider!ProvidersAreContained
(* WorkspaceRoot, RegistryLocks: a saved workspace is ready, and each lock in it is found under its ID. *)
SettingsAndLocksHold ==
  /\ active = "root" => Root!RootsInv
  /\ active = "locks" => Lock!LocksAreAccountedFor
=============================================================================
