------------------------------ MODULE Providers ------------------------------
(***************************************************************************)
(* The installed provider entry points and the two ways they are judged:   *)
(* one by one, by the diagnosis (provider_diagnostics.py), and all or none *)
(* by the discoveries that build the registries (module_profiles.py and    *)
(* publication_compatibility.py). Packages come and go between calls.      *)
(*                                                                         *)
(* An entry point is a record [kind, name, distribution, gives, profile]:  *)
(* gives is what loading and calling it comes to, "load_failed",           *)
(* "not_callable", "raises", "wrong_type" or "profile".                    *)
(***************************************************************************)
EXTENDS Integers, FiniteSets

CONSTANTS
  EntryPoints,    \* the entry points the packages can bring
  MaxInstalled,   \* bound on those installed at once
  Names,          \* the names that are lowercase identifiers
  Requests,       \* what module operations are asked about
  Publications, PublicationRegistrations,  \* the records there are
  RouteRequests,  \* the pages to be dispatched
  Missing

VARIABLE installed

Operations == INSTANCE ModuleOperations
Contracts == INSTANCE PublicationContracts
Routing == INSTANCE ModuleDispatch

Kinds == {"routing_module", "publication_producer", "module_operations"}

-----------------------------------------------------------------------------
(* validate_module_profile, and the validation of the other two kinds of profile. *)
ValidModule(profile) ==
  \A field \in {"contracts", "qr_schemas", "registration_schemas", "dispatchable"} : profile[field] # {}

ValidProfile(kind, profile) ==
  CASE kind = "routing_module" -> ValidModule(profile)
    [] kind = "publication_producer" -> Contracts!ValidProducer(profile)
    [] kind = "module_operations" -> Operations!ValidOperations(profile)

(* A provider that builds an invalid profile raises: the constructors validate. *)
Yields(point) == point.gives = "profile" /\ ValidProfile(point.kind, point.profile)

(* _profile_supports_active_core *)
SupportsCore(kind, profile) ==
  CASE kind = "routing_module" -> Routing!CORE_ROUTING_CONTRACT_VERSION \in profile.contracts
    [] kind = "publication_producer" -> Contracts!PUBLICATION_RECORD_SCHEMA_VERSION \in profile.core_schemas
    [] kind = "module_operations" -> Operations!MODULE_OPERATIONS_CONTRACT_VERSION \in profile.contracts

(* _entry_point_name_is_valid *)
NameIsValid(point) == point.name \in Names

(* _diagnose_candidate: the code of a candidate by itself, in the order of its checks. *)
Judgement(point) ==
  IF ~ NameIsValid(point) THEN "entry_point_name_invalid"
  ELSE CASE point.gives \in {"load_failed", "not_callable"} -> point.gives
         [] point.gives = "raises" -> "call_failed"
         [] point.gives = "wrong_type" -> "profile_invalid"
         [] point.gives = "profile" ->
              IF ~ Yields(point) THEN "call_failed"
              ELSE IF point.profile.module_id # point.name THEN "identity_mismatch"
              ELSE IF SupportsCore(point.kind, point.profile) THEN "valid" ELSE "core_incompatible"

(* The checks a candidate passed before the one that its code is about (_result). *)
Passed(code) ==
  CASE code \in {"entry_point_name_invalid", "load_failed"} -> {}
    [] code = "not_callable" -> {"load"}
    [] code = "call_failed" -> {"load"}
    [] code = "profile_invalid" -> {"load", "call"}
    [] code \in {"identity_mismatch", "core_incompatible"} -> {"load", "call", "profile_validation"}
    [] code = "valid" -> {"load", "call", "profile_validation", "core_compatibility"}

(* The candidates that have an identity in a registry. *)
Identified(points) == {p \in points : Judgement(p) \in {"valid", "core_incompatible"}}
Rivals(points, point) == {p \in Identified(points) \ {point} : p.kind = point.kind /\ p.name = point.name}

(* Mutant of Conflicting: a candidate that does not support this Core is nobody's rival. *)
ConflictingWhenValid(points, point) ==
  Judgement(point) = "valid" /\ \E p \in Rivals(points, point) : Judgement(p) = "valid"

Conflicting(points, point) == point \in Identified(points) /\ Rivals(points, point) # {}

(* _enumerate_provider_candidates, whose order is that of the results only. *)
Candidates(points, kinds) == {p \in points : p.kind \in kinds}

diagnose_core_providers(points, kinds) ==
  LET candidates == Candidates(points, kinds)
  IN [p \in candidates |->
        LET conflict == Conflicting(candidates, p)
        IN [code |-> IF conflict THEN "identity_conflict" ELSE Judgement(p),
            passed |-> Passed(Judgement(p)),
            validated |-> IF Judgement(p) = "valid" /\ ~ conflict THEN {p.profile} ELSE {}]]

-----------------------------------------------------------------------------
(* The discoveries: {} where they raise, else the one set of profiles. *)

Discovered(points, kind) ==
  LET ofKind == {p \in points : p.kind = kind}
  IN IF /\ \A p \in ofKind : NameIsValid(p) /\ Yields(p) /\ p.profile.module_id = p.name
        /\ \A p, q \in ofKind : p.name = q.name => p = q
     THEN {{p.profile : p \in ofKind}}
     ELSE {}

discover_module_profiles(points) == Discovered(points, "routing_module")
discover_publication_producer_profiles(points) == Discovered(points, "publication_producer")

(* build_module_registry with nothing explicit: the module of a profile finds it. *)
Registries(points) ==
  {[id \in {p.module_id : p \in profiles} |-> CHOOSE p \in profiles : p.module_id = id] :
     profiles \in discover_module_profiles(points)}

(* PublicationProducerRegistry.__post_init__ *)
Distinct(profiles) == \A p, q \in profiles : p.module_id = q.module_id => p = q

(* build_publication_producer_registry: explicit and installed profiles, no two of one module. *)
build_publication_producer_registry(explicit, points, discover) ==
  LET found == IF discover THEN discover_publication_producer_profiles(points) ELSE {{}}
  IN {explicit \cup profiles : profiles \in {f \in found : Distinct(explicit \cup f) /\ explicit \cap f = {}}}

-----------------------------------------------------------------------------
Init == installed = {}
Install(point) == point \notin installed /\ Cardinality(installed) < MaxInstalled /\ installed' = installed \cup {point}
Uninstall(point) == point \in installed /\ installed' = installed \ {point}
Next == \E point \in EntryPoints : Install(point) \/ Uninstall(point)
Spec == Init /\ [][Next]_installed

-----------------------------------------------------------------------------
(***************************************************************************)
(* The diagnosis is failure-isolating: taking one package away changes     *)
(* what is said of no other, except that a conflict between the two ends.  *)
(***************************************************************************)
JudgedAlone ==
  \A gone \in installed :
    LET before == diagnose_core_providers(installed, Kinds)
        after == diagnose_core_providers(installed \ {gone}, Kinds)
    IN \A p \in installed \ {gone} :
         \/ after[p] = before[p]
         \/ before[p].code = "identity_conflict" /\ after[p].code = Judgement(p)
            /\ p.kind = gone.kind /\ p.name = gone.name /\ before[gone].code = "identity_conflict"

(***************************************************************************)
(* The diagnosis and the discoveries, written separately, agree: a         *)
(* registry can be built exactly if the diagnosis finds nothing worse than *)
(* a profile for another Core, and it then has the diagnosed profiles. An  *)
(* incompatible module that a registry holds dispatches nothing, and only  *)
(* such a module is refused for its routing contract.                      *)
(***************************************************************************)
DiagnosisForetellsDiscovery ==
  /\ \A kind \in {"routing_module", "publication_producer"} :
       LET diagnosis == diagnose_core_providers(installed, {kind})
           fine == \A p \in DOMAIN diagnosis : diagnosis[p].code \in {"valid", "core_incompatible"}
           found == Discovered(installed, kind)
       IN /\ fine <=> found # {}
          /\ \A profiles \in found : UNION {diagnosis[p].validated : p \in DOMAIN diagnosis} \subseteq profiles
  /\ \A registry \in Registries(installed), request \in RouteRequests :
       \A p \in {q \in installed : q.kind = "routing_module" /\ q.name = request.module_id} :
         LET refused == Routing!PreloadError(registry, request) = "ModuleContractCompatibility"
         IN refused <=> Judgement(p) = "core_incompatible" \/ request.schema \notin p.profile.qr_schemas

(* What is asked of the operations profiles and the producer profiles found valid. *)
Found(kind) == UNION {diagnose_core_providers(installed, Kinds)[p].validated : p \in {q \in installed : q.kind = kind}}

Yielded(kind) == {p.profile : p \in {q \in installed : q.kind = kind /\ Yields(q)}}

(***************************************************************************)
(* What the audit says of a publication depends on the profile of its own  *)
(* module only: explicit profiles of other modules, unless they clash with *)
(* installed ones, change nothing.                                         *)
(***************************************************************************)
AuditHearsTheProducerOnly ==
  \A explicit \in {{}} \cup {{p} : p \in Yielded("publication_producer")}, required \in BOOLEAN :
    \A profiles \in build_publication_producer_registry(explicit, installed, explicit = {}) :
      LET findings == Contracts!ContractFindings(Publications, PublicationRegistrations, profiles, required)
      IN \A publication \in Publications :
           LET own == {p \in profiles : p.module_id = publication.work.module_id}
           IN /\ findings[publication] = Contracts!ContractFindings({publication}, PublicationRegistrations, own, required)[publication]
              /\ own = {} <=> findings[publication] = {<<IF required THEN "error" ELSE "info", "profile_unavailable">>}

(***************************************************************************)
(* Code that comes with other packages is contained: one that cannot be    *)
(* loaded, raises or claims what is not its own changes nothing for the    *)
(* others, and no report or reader leads to another module's work.         *)
(***************************************************************************)
ProvidersAreContained ==
  /\ JudgedAlone /\ DiagnosisForetellsDiscovery
  /\ \A profile \in Found("module_operations") : Operations!ReportsStayWithTheirModule(profile, Requests)
  /\ LET producers == Found("publication_producer")
     IN /\ Contracts!WideningKeepsCompatible(Yielded("publication_producer"), Publications, PublicationRegistrations)
        /\ Contracts!ReadersAreForCompatibleManifests(producers, Publications)
  /\ AuditHearsTheProducerOnly
=============================================================================
