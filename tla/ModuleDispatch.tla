------------------------------ MODULE ModuleDispatch ------------------------------
(***************************************************************************)
(* Which installed module handles a scanned page, and what a page that     *)
(* none handles is filed as: the module registry of module_profiles.py,    *)
(* the compatibility checks of module_dispatch.py and the failure          *)
(* vocabulary of scan_failure_metadata.py.                                 *)
(***************************************************************************)
EXTENDS Integers, Sequences

CORE_ROUTING_CONTRACT_VERSION == "1"

(***************************************************************************)
(* build_module_registry: {} where it raises, else the one registry. Each  *)
(* installed entry point is <<name, profile>>; a profile that shares its   *)
(* module with another one, explicit or installed, is never preferred.     *)
(***************************************************************************)
build_module_registry(explicit, installed) ==
  LET profiles == explicit \o [k \in DOMAIN installed |-> installed[k][2]]
      distinct == \A j, k \in DOMAIN profiles : profiles[j].module_id = profiles[k].module_id => j = k
      named == \A k \in DOMAIN installed : installed[k][1] = installed[k][2].module_id
      Profile(id) == profiles[CHOOSE k \in DOMAIN profiles : profiles[k].module_id = id]
  IN IF distinct /\ named
     THEN {[id \in {profiles[k].module_id : k \in DOMAIN profiles} |-> Profile(id)]}
     ELSE {}

(* What dispatch_route raises before it loads the route, or "none". *)
PreloadError(registry, request) ==
  IF request.module_id \notin DOMAIN registry THEN "UnsupportedModule"
  ELSE LET profile == registry[request.module_id]
       IN IF CORE_ROUTING_CONTRACT_VERSION \in profile.contracts /\ request.schema \in profile.qr_schemas
          THEN "none" ELSE "ModuleContractCompatibility"

(* _check_registration_compatibility *)
RegistrationError(registry, request, registration) ==
  LET profile == registry[request.module_id]
  IN IF \/ registration.target_module # request.module_id
        \/ registration.schema_version \notin profile.registration_schemas
     THEN "ModuleContractCompatibility"
     ELSE IF registration.status \notin profile.dispatchable THEN "RouteStatusNotDispatchable" ELSE "none"

routing_failure_category_for_dispatch_error ==
  [UnsupportedModule            |-> "module_unsupported",
   ModuleContractCompatibility  |-> "module_profile_incompatible",
   RouteRegistrationNotFound    |-> "route_unknown",
   RouteRegistrationIntegrity   |-> "route_mismatch",
   RouteRegistrationRead        |-> "route_registration_invalid",
   RouteStatusNotDispatchable   |-> "route_inactive",
   ModuleRegistrationValidation |-> "target_incompatible",
   ModuleRouteHandling          |-> "processing_error"]

routing_failure_stage_for_dispatch_error ==
  [UnsupportedModule            |-> "module_resolution",
   ModuleContractCompatibility  |-> "module_resolution",
   RouteRegistrationNotFound    |-> "route_resolution",
   RouteRegistrationIntegrity   |-> "route_resolution",
   RouteRegistrationRead        |-> "route_resolution",
   RouteStatusNotDispatchable   |-> "route_resolution",
   ModuleRegistrationValidation |-> "module_validation",
   ModuleRouteHandling          |-> "module_handling"]
=============================================================================
