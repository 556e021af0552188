--------------------------- MODULE ModuleOperations ---------------------------
(***************************************************************************)
(* Readiness and attention of the installed modules (module_operations.py).*)
(* A profile [module_id, contracts, readiness, attention] has a provider,  *)
(* or Missing, for each capability; what a provider does when it is called *)
(* is "raises" or the fields of the report it makes:                       *)
(*   [capability, evaluation, ready, notices, summaries],                  *)
(* notices a sequence of actions, summaries a sequence of                  *)
(* [count, class_id, work, action]; an action is the module it leads to.   *)
(***************************************************************************)
EXTENDS Integers, Sequences

CONSTANT Missing

MODULE_OPERATIONS_CONTRACT_VERSION == "1"
MAX_MODULE_OPERATIONS_NOTICES == 16
MAX_MODULE_ATTENTION_SUMMARIES == 32
MAX_MODULE_OPERATION_COUNT == 1000000
Capabilities == {"readiness", "attention"}

(* _validate_profile_fields *)
ValidOperations(profile) ==
  profile.contracts # {} /\ \E capability \in Capabilities : profile[capability] # Missing

(* _validate_attention_summary_fields *)
ValidSummary(summary) ==
  /\ summary.count # Missing => summary.count \in 0 .. MAX_MODULE_OPERATION_COUNT
  /\ summary.work # Missing /\ summary.class_id # Missing => summary.class_id = summary.work.class_id

(* ModuleReadinessReport and ModuleAttentionReport: what their constructors accept. *)
ValidReport(report) ==
  /\ Len(report.notices) \leq MAX_MODULE_OPERATIONS_NOTICES
  /\ report.capability = "readiness" => (report.evaluation = "evaluated" <=> report.ready # Missing)
  /\ report.capability = "attention" =>
       /\ Len(report.summaries) \leq MAX_MODULE_ATTENTION_SUMMARIES
       /\ \A k \in DOMAIN report.summaries : ValidSummary(report.summaries[k])
       /\ report.evaluation = "unavailable" => report.summaries = << >>

(* _validate_report_owner *)
OwnedBy(report, module_id) ==
  /\ \A k \in DOMAIN report.notices : report.notices[k] \in {Missing, module_id}
  /\ \A k \in DOMAIN report.summaries :
       LET summary == report.summaries[k]
       IN /\ summary.work # Missing => summary.work.module_id = module_id
          /\ summary.action \in {Missing, module_id}

(* _validate_attention_request_context *)
ForClass(report, class_id) ==
  class_id # Missing =>
    \A k \in DOMAIN report.summaries :
      LET summary == report.summaries[k]
      IN /\ summary.class_id \in {Missing, class_id}
         /\ summary.work # Missing => summary.work.class_id = class_id

(* _validate_invoked_report *)
AcceptedReport(report, capability, module_id, request) ==
  /\ report.capability = capability /\ ValidReport(report) /\ OwnedBy(report, module_id)
  /\ capability = "attention" => ForClass(report, request.class_id)

Result(profile, capability, code, attempted, succeeded, validation, report) ==
  [module_id |-> profile.module_id, capability |-> capability, code |-> code, attempted |-> attempted,
   succeeded |-> succeeded, result_validation |-> validation, report |-> report]

(***************************************************************************)
(* _invoke_capability. A provider whose report its constructor refuses has *)
(* raised.                                                                 *)
(***************************************************************************)
Invoke(profile, request, capability) ==
  LET does == profile[capability]
      Outcome(code, attempted, succeeded, validation, report) ==
        Result(profile, capability, code, attempted, succeeded, validation, report)
  IN IF does = Missing THEN Outcome("capability_absent", FALSE, FALSE, "not_attempted", Missing)
     ELSE IF does.raises \/ ~ ValidReport(does.report)
     THEN Outcome("provider_failed", TRUE, FALSE, "not_attempted", Missing)
     ELSE IF ~ AcceptedReport(does.report, capability, profile.module_id, request)
     THEN Outcome("result_invalid", TRUE, TRUE, "failed", Missing)
     ELSE Outcome(IF does.report.evaluation = "unavailable" THEN "evaluation_unavailable" ELSE "evaluated",
                  TRUE, TRUE, "passed", does.report)

(* invoke_module_operations; {} where _validate_invocation_inputs raises. *)
invoke_module_operations(profile, request) ==
  IF ValidOperations(profile) /\ MODULE_OPERATIONS_CONTRACT_VERSION \in profile.contracts
  THEN {[capability \in Capabilities |-> Invoke(profile, request, capability)]}
  ELSE {}

(* _validate_invocation_result_fields, which the constructor of a result runs. *)
ValidResult(result) ==
  LET State(attempted, succeeded, validation) ==
        /\ result.attempted = attempted /\ result.succeeded = succeeded /\ result.result_validation = validation
        /\ validation # "passed" => result.report = Missing
  IN CASE result.code = "capability_absent" -> State(FALSE, FALSE, "not_attempted")
       [] result.code = "provider_failed" -> State(TRUE, FALSE, "not_attempted")
       [] result.code = "result_invalid" -> State(TRUE, TRUE, "failed")
       [] OTHER ->
            /\ State(TRUE, TRUE, "passed") /\ result.report # Missing
            /\ result.report.capability = result.capability
            /\ result.report.evaluation = IF result.code = "evaluated" THEN "evaluated" ELSE "unavailable"

-----------------------------------------------------------------------------
(***************************************************************************)
(* Whatever the providers of a module do, each capability has an answer,   *)
(* and what the answer carries leads to no other module and tells nothing  *)
(* of another class than the one asked about; the answer of one capability *)
(* is the one it would give if the other provider were not there.          *)
(***************************************************************************)
ReportsStayWithTheirModule(profile, requests) ==
  \A request \in requests : \A results \in invoke_module_operations(profile, request) :
    \A capability \in Capabilities :
      LET result == results[capability]
          other == CHOOSE c \in Capabilities : c # capability
          alone == [profile EXCEPT ![other] = Missing]
      IN /\ ValidResult(result)
         /\ profile[capability] # Missing =>
              \A lone \in invoke_module_operations(alone, request) : lone[capability] = result
         /\ result.report # Missing =>
              LET summaries == {result.report.summaries[k] : k \in DOMAIN result.report.summaries}
                  works == {s.work : s \in summaries} \ {Missing}
                  classes == ({s.class_id : s \in summaries} \ {Missing}) \cup {w.class_id : w \in works}
                  actions == {s.action : s \in summaries} \cup {result.report.notices[k] : k \in DOMAIN result.report.notices}
              IN /\ {w.module_id : w \in works} \cup (actions \ {Missing}) \subseteq {profile.module_id}
                 /\ request.class_id # Missing => classes \subseteq {request.class_id}
=============================================================================
