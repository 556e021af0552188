-------------------------------- MODULE ScanReview --------------------------------
(***************************************************************************)
(* Routing scanned pages and reviewing the ones that could not be routed.  *)
(* Three kinds of records lie in the workspace, each file created          *)
(* exclusively and never replaced: route registrations, routing failures   *)
(* and resolutions of failures. A page is dispatched on the registration   *)
(* of its route; a resolution is written against its failure. Nothing is   *)
(* locked: what was read may be gone again when it is acted on.            *)
(***************************************************************************)
EXTENDS ModuleDispatch, FiniteSets

CONSTANTS
  Workers,         \* the processes
  Registry,        \* the module registry they dispatch with
  Registrations,   \* the route registrations that modules write
  Requests,        \* the scanned pages
  Resolutions,     \* the resolutions that reviewers write
  MaxDisturbances, \* bound on failing file operations and crashes
  None             \* nothing in hand

VARIABLES
  files,     \* the file of each record
  pc,
  task,      \* what a process works on: [name, content]
  returned,  \* the records whose write returned
  handled,   \* the registrations pages were handed to a module under
  takenBack, \* complete records that a failing flush removed
  disturbances

vars == <<files, pc, task, returned, handled, takenBack, disturbances>>

RouteName(x) == <<"route", x.module_id, x.route_id>>
FailureName(x) == <<"failure", x.failure_id>>
ResolutionName(x) == <<"resolution", x.resolution_id>>

Names == {RouteName(r) : r \in Registrations \cup Requests}
         \cup {FailureName(x) : x \in Requests \cup Resolutions}
         \cup {ResolutionName(r) : r \in Resolutions}

Absent == [status |-> "absent", content |-> None]
Torn == [status |-> "torn", content |-> None]
Complete(content) == [status |-> "complete", content |-> content]
Holds(name, content) == files[name] = Complete(content)

Init ==
  /\ files = [n \in Names |-> Absent]
  /\ pc = [w \in Workers |-> "idle"]
  /\ task = [w \in Workers |-> None]
  /\ returned = {} /\ handled = {} /\ takenBack = {}
  /\ disturbances = 0

NoFault == UNCHANGED disturbances
Fault == disturbances < MaxDisturbances /\ disturbances' = disturbances + 1

Goto(w, phase) == pc' = [pc EXCEPT ![w] = phase] /\ UNCHANGED task
Begin(w, phase, name, content) ==
  /\ pc' = [pc EXCEPT ![w] = phase]
  /\ task' = [task EXCEPT ![w] = [name |-> name, content |-> content]]
Leave(w) == pc' = [pc EXCEPT ![w] = "idle"] /\ task' = [task EXCEPT ![w] = None]

-----------------------------------------------------------------------------
(* The three writers end in the same way. *)

(* Mutant of Create: a file that exists is written over. *)
CreateAnyway(w) ==
  /\ pc[w] = "create"
  /\ files' = [files EXCEPT ![task[w].name] = Torn]
  /\ Goto(w, "fill")
  /\ UNCHANGED <<returned, handled, takenBack>> /\ NoFault

Create(w) ==
  /\ pc[w] = "create"
  /\ \/ /\ files[task[w].name] = Absent
        /\ files' = [files EXCEPT ![task[w].name] = Torn]
        /\ Goto(w, "fill")
     \/ files[task[w].name] # Absent /\ UNCHANGED files /\ Leave(w)
  /\ UNCHANGED <<returned, handled, takenBack>> /\ NoFault

(* The text is flushed: from here on others may read it. *)
Fill(w) ==
  /\ pc[w] = "fill"
  /\ files' = [files EXCEPT ![task[w].name] = Complete(task[w].content)]
  /\ Goto(w, "fsync")
  /\ UNCHANGED <<returned, handled, takenBack>> /\ NoFault

Fsync(w) ==
  /\ pc[w] = "fsync"
  /\ returned' = returned \cup {task[w]}
  /\ Leave(w)
  /\ UNCHANGED <<files, handled, takenBack>> /\ NoFault

(* write_route_registration *)
Register(w, registration) ==
  /\ pc[w] = "idle" /\ Begin(w, "create", RouteName(registration), registration)
  /\ UNCHANGED <<files, returned, handled, takenBack>> /\ NoFault

-----------------------------------------------------------------------------
(* dispatch_route, and the failure record its caller makes of an error. *)

(* routing_failure_metadata_from_dispatch_failure *)
FailureOf(request, error) ==
  [failure_id       |-> request.failure_id,
   failure_category |-> routing_failure_category_for_dispatch_error[error],
   stage            |-> routing_failure_stage_for_dispatch_error[error],
   created_at       |-> request.created_at,
   provenance       |-> request.provenance]

Report(w, request, error) == Begin(w, "create", FailureName(request), FailureOf(request, error))

Dispatch(w, request) ==
  /\ pc[w] = "idle"
  /\ LET error == PreloadError(Registry, request)
     IN IF error = "none" THEN Begin(w, "load_route", RouteName(request), request) ELSE Report(w, request, error)
  /\ UNCHANGED <<files, returned, handled, takenBack>> /\ NoFault

LoadRouteError(w) ==
  CASE files[task[w].name] = Absent -> "RouteRegistrationNotFound"
    [] files[task[w].name] = Torn -> "RouteRegistrationRead"
    [] OTHER -> RegistrationError(Registry, task[w].content, files[task[w].name].content)

(***************************************************************************)
(* The registration is loaded and checked, then the module's validator and *)
(* handler run: either may raise, or the page has been handled.            *)
(***************************************************************************)
LoadRoute(w) ==
  /\ pc[w] = "load_route"
  /\ LET request == task[w].content
         error == LoadRouteError(w)
     IN IF error # "none" THEN Report(w, request, error) /\ UNCHANGED handled
        ELSE \/ Report(w, request, "ModuleRegistrationValidation") /\ UNCHANGED handled
             \/ /\ Report(w, request, "ModuleRouteHandling") \/ Leave(w)
                /\ handled' = handled \cup {files[task[w].name].content}
  /\ UNCHANGED <<files, returned, takenBack>> /\ NoFault

-----------------------------------------------------------------------------
(* write_scan_resolution_metadata *)

(* _validate_metadata_fields on status, action, route and evidence. *)
ValidResolution(r) ==
  /\ r.resolution_status = "deferred" <=> r.resolution_action = "deferred"
  /\ r.resolution_action \in {"deferred", "rescan_needed", "cannot_route", "dismissed_duplicate"} =>
       r.route = "none" /\ ~ r.evidence
  /\ r.resolution_action \in {"route_selected", "route_corrected"} => r.route = "locator_and_target"
  /\ r.resolution_action = "evidence_filed" => r.evidence

Resolve(w, resolution) ==
  /\ pc[w] = "idle" /\ ValidResolution(resolution)
  /\ Begin(w, "load_failure", ResolutionName(resolution), resolution)
  /\ UNCHANGED <<files, returned, handled, takenBack>> /\ NoFault

(* _verify_failure_link *)
Linked(resolution, failure) ==
  /\ resolution.failure_id = failure.failure_id
  /\ resolution.provenance = failure.provenance
  /\ resolution.resolved_at >= failure.created_at

(* Mutant of VerifyLink: that the failure can be read is enough. *)
VerifyReadable(w) ==
  /\ pc[w] = "load_failure"
  /\ IF files[FailureName(task[w].content)].status = "complete" THEN Goto(w, "create") ELSE Leave(w)
  /\ UNCHANGED <<files, returned, handled, takenBack>> /\ NoFault

VerifyLink(w) ==
  /\ pc[w] = "load_failure"
  /\ LET failure == files[FailureName(task[w].content)]
     IN \/ /\ failure.status = "complete" /\ Linked(task[w].content, failure.content)
           /\ Goto(w, "create")
        \/ /\ failure.status = "complete" => ~ Linked(task[w].content, failure.content)
           /\ Leave(w)
  /\ UNCHANGED <<files, returned, handled, takenBack>> /\ NoFault

-----------------------------------------------------------------------------
(* What fails. *)

(* A read that fails is an error of the route; a resolution is not written. *)
ReadFails(w) ==
  /\ \/ pc[w] = "load_route" /\ Report(w, task[w].content, "RouteRegistrationRead")
     \/ pc[w] = "load_failure" /\ Leave(w)
  /\ UNCHANGED <<files, returned, handled, takenBack>> /\ Fault

CreateFails(w) ==
  /\ pc[w] = "create" /\ Leave(w)
  /\ UNCHANGED <<files, returned, handled, takenBack>> /\ Fault

(* _remove_incomplete_file after a failing write or fsync; it may fail too. *)
WriteFails(w) ==
  /\ pc[w] \in {"fill", "fsync"}
  /\ \/ UNCHANGED <<files, takenBack>>
     \/ /\ files' = [files EXCEPT ![task[w].name] = Absent]
        /\ takenBack' = IF pc[w] = "fsync" THEN takenBack \cup {task[w].name} ELSE takenBack
  /\ Leave(w)
  /\ UNCHANGED <<returned, handled>> /\ Fault

Crash(w) ==
  /\ pc[w] # "idle" /\ Leave(w)
  /\ UNCHANGED <<files, returned, handled, takenBack>> /\ Fault

Next ==
  \E w \in Workers :
    \/ \E registration \in Registrations : Register(w, registration)
    \/ \E request \in Requests : Dispatch(w, request)
    \/ \E resolution \in Resolutions : Resolve(w, resolution)
    \/ Create(w) \/ Fill(w) \/ Fsync(w) \/ LoadRoute(w) \/ VerifyLink(w)
    \/ ReadFails(w) \/ CreateFails(w) \/ WriteFails(w) \/ Crash(w)

Spec == Init /\ [][Next]_vars

-----------------------------------------------------------------------------
TypeOK ==
  /\ \A n \in Names : files[n].status \in {"absent", "torn", "complete"}
  /\ \A w \in Workers : pc[w] = "idle" => task[w] = None
  /\ disturbances \in 0 .. MaxDisturbances

(***************************************************************************)
(* A record whose write returned stays as it was written, whoever tries to *)
(* write another one under its ID and however that attempt ends.           *)
(***************************************************************************)
RecordsStay == \A record \in returned : Holds(record.name, record.content)

(***************************************************************************)
(* Decisions keep their ground: the registration a page was handled under  *)
(* is the one that is registered, and the failure of a stored resolution   *)
(* is stored, of the same source, and not later than it. Only a failing    *)
(* flush that took a record back, after it was read, is excepted.          *)
(***************************************************************************)
Founded(resolution) ==
  LET name == FailureName(resolution)
  IN name \in takenBack \/ (files[name].status = "complete" /\ Linked(resolution, files[name].content))

DecisionsStayFounded ==
  /\ \A registration \in handled :
       RouteName(registration) \in takenBack \/ Holds(RouteName(registration), registration)
  /\ \A resolution \in Resolutions : Holds(ResolutionName(resolution), resolution) => Founded(resolution)

(***************************************************************************)
(* What these properties rest on: a file that is being written has one     *)
(* writer and is none of those that were returned, and a resolution was    *)
(* founded when its writer began and is as long as nothing is taken back.  *)
(***************************************************************************)
Owns(w) == pc[w] \in {"fill", "fsync"}
Belongs(name, content) ==
  /\ name[1] = "route" => name = RouteName(content)
  /\ name[1] = "resolution" => content \in Resolutions /\ Founded(content)

TaskFits(w) ==
  /\ pc[w] # "idle" => task[w].name \in Names
  /\ pc[w] \in {"create", "fill", "fsync"} => Belongs(task[w].name, task[w].content)
  /\ pc[w] = "load_route" => task[w].content \in Requests /\ task[w].name = RouteName(task[w].content)
  /\ pc[w] = "load_failure" => task[w].content \in Resolutions /\ task[w].name = ResolutionName(task[w].content)
  /\ pc[w] = "fill" => files[task[w].name] = Torn
  /\ pc[w] = "fsync" => Holds(task[w].name, task[w].content)
  /\ \A v \in Workers \ {w} : Owns(w) /\ Owns(v) => task[w].name # task[v].name
  /\ \A record \in returned : Owns(w) => task[w].name # record.name

FileFits(name) ==
  /\ files[name] \in {Absent, Torn} \/ files[name] = Complete(files[name].content)
  /\ files[name].status = "complete" => Belongs(name, files[name].content)

ReviewInv ==
  /\ TypeOK
  /\ DOMAIN files = Names /\ DOMAIN task = Workers
  /\ pc \in [Workers -> {"idle", "create", "fill", "fsync", "load_route", "load_failure"}]
  /\ \A name \in Names : FileFits(name)
  /\ \A w \in Workers : TaskFits(w)
  /\ \A record \in returned : record.name \in Names
  /\ \A registration \in handled : RouteName(registration) \in Names
  /\ RecordsStay /\ DecisionsStayFounded
=============================================================================
