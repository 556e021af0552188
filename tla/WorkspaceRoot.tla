----------------------------- MODULE WorkspaceRoot -----------------------------
(***************************************************************************)
(* Where the workspace is and whether it is ready: the saved preference of *)
(* the user, which a terminal sets only after it has created the workspace *)
(* (workspace.py and the workspace commands). Several terminals may be at  *)
(* work; each file operation may fail and each terminal may die.           *)
(***************************************************************************)
EXTENDS Integers, Sequences, FiniteSets

CONSTANTS
  Terminals,        \* the processes
  Roots,            \* the places a workspace can be at
  Default,          \* the one of get_default_workspace_root
  Environment,      \* what PDS_WORKSPACE_ROOT says in each terminal, or None
  MaxDisturbances,  \* bound on failing file operations and deaths together
  None

VARIABLES
  config,   \* the root in config.json, or None
  disk,     \* what there is at each root
  pc,       \* the next step of each terminal
  target,   \* the root it makes ready, or None
  saving,   \* whether it is to save it then
  disturbances

vars == <<config, disk, pc, target, saving, disturbances>>

(* workspace_baseline_dirs, in the order of their creation, and what each is created in. *)
Baseline == <<"classes", "scans_inbox", "scans", "scans/source", "scans/review">>
Parent(directory) == IF directory \in {"scans/source", "scans/review"} THEN "scans" ELSE "root"
Complete(r) == {"root", ".pds", "marker"} \cup {Baseline[k] : k \in DOMAIN Baseline} \subseteq disk[r]
Probe(t) == t   \* the probe file of a terminal

Init ==
  /\ config = None
  /\ disk = [r \in Roots |-> {}]
  /\ pc = [t \in Terminals |-> "idle"]
  /\ target = [t \in Terminals |-> None]
  /\ saving = [t \in Terminals |-> FALSE]
  /\ disturbances = 0

NoFault == UNCHANGED disturbances
Fault == disturbances < MaxDisturbances /\ disturbances' = disturbances + 1

Goto(t, phase) == pc' = [pc EXCEPT ![t] = phase] /\ UNCHANGED <<target, saving>>
Return(t) ==
  /\ pc' = [pc EXCEPT ![t] = "idle"]
  /\ target' = [target EXCEPT ![t] = None]
  /\ saving' = [saving EXCEPT ![t] = FALSE]

(* _resolve_workspace_root_with_source: explicit, environment, saved, default. *)
Resolve(t, explicit) ==
  IF explicit # None THEN explicit
  ELSE IF Environment[t] # None THEN Environment[t]
  ELSE IF config # None THEN config ELSE Default

Ensure(t, r, save) ==
  /\ pc[t] = "idle"
  /\ pc' = [pc EXCEPT ![t] = "root"]
  /\ target' = [target EXCEPT ![t] = r]
  /\ saving' = [saving EXCEPT ![t] = save]
  /\ UNCHANGED disk /\ NoFault

(* Mutant of SetRoot: the preference is saved before the root is ensured. *)
SetRootFirst(t, r) == config' = r /\ Ensure(t, r, FALSE)

(* handle_workspace_set *)
SetRoot(t, r) == UNCHANGED config /\ Ensure(t, r, TRUE)

(* handle_workspace_validate *)
ValidateRoot(t, explicit) == UNCHANGED config /\ Ensure(t, Resolve(t, explicit), FALSE)

(* handle_workspace_reset, clear_saved_workspace_root *)
Reset(t) == pc[t] = "idle" /\ config' = None /\ UNCHANGED <<disk, pc, target, saving>> /\ NoFault

-----------------------------------------------------------------------------
(* ensure_workspace_root *)

Add(t, item) == disk' = [disk EXCEPT ![target[t]] = @ \cup {item}]
Remove(t, item) == disk' = [disk EXCEPT ![target[t]] = @ \ {item}]

LookForRoot(t) ==
  /\ pc[t] = "root"
  /\ Goto(t, IF "root" \in disk[target[t]] THEN "probe" ELSE "make")
  /\ UNCHANGED <<config, disk>> /\ NoFault

(* Another terminal may have made it meanwhile: that is an error here. *)
MakeRoot(t) ==
  /\ pc[t] = "make"
  /\ IF "root" \in disk[target[t]] THEN UNCHANGED disk /\ Return(t) ELSE Add(t, "root") /\ Goto(t, "probe")
  /\ UNCHANGED config /\ NoFault
MakeProbe(t) == pc[t] = "probe" /\ Add(t, Probe(t)) /\ Goto(t, "unprobe") /\ UNCHANGED config /\ NoFault
RemoveProbe(t) == pc[t] = "unprobe" /\ Remove(t, Probe(t)) /\ Goto(t, ".pds") /\ UNCHANGED config /\ NoFault
MakeMetadata(t) == pc[t] = ".pds" /\ Add(t, ".pds") /\ Goto(t, "marker") /\ UNCHANGED config /\ NoFault
WriteMarker(t) == pc[t] = "marker" /\ Add(t, "marker") /\ Goto(t, Baseline[1]) /\ UNCHANGED config /\ NoFault

Following(k) == IF k = Len(Baseline) THEN "done" ELSE Baseline[k + 1]
MakeDirectory(t) ==
  \E k \in DOMAIN Baseline :
    /\ pc[t] = Baseline[k]
    /\ IF Parent(Baseline[k]) \in disk[target[t]]
       THEN Add(t, Baseline[k]) /\ Goto(t, Following(k))
       ELSE UNCHANGED disk /\ Return(t)
    /\ UNCHANGED config /\ NoFault

(* save_workspace_root: the configuration is replaced in one step. *)
Finish(t) ==
  /\ pc[t] = "done"
  /\ config' = IF saving[t] THEN target[t] ELSE config
  /\ Return(t) /\ UNCHANGED disk /\ NoFault

(* An OSError: what a failing removal of the probe leaves is removed again, if that is possible. *)
Fails(t) ==
  /\ pc[t] # "idle"
  /\ \/ Remove(t, Probe(t))
     \/ UNCHANGED disk
  /\ Return(t) /\ UNCHANGED config /\ Fault
Dies(t) == pc[t] # "idle" /\ Return(t) /\ UNCHANGED <<config, disk>> /\ Fault

Step(t) ==
  \/ LookForRoot(t) \/ MakeRoot(t) \/ MakeProbe(t) \/ RemoveProbe(t) \/ MakeMetadata(t) \/ WriteMarker(t)
  \/ MakeDirectory(t) \/ Finish(t)

Next ==
  \E t \in Terminals :
    \/ \E r \in Roots : SetRoot(t, r)
    \/ \E explicit \in Roots \cup {None} : ValidateRoot(t, explicit)
    \/ Reset(t) \/ Step(t) \/ Fails(t) \/ Dies(t)

Spec == Init /\ [][Next]_vars

-----------------------------------------------------------------------------
(***************************************************************************)
(* The saved preference names a workspace that is complete, whatever       *)
(* failed before and whoever else sets one up at the same place; without a *)
(* failure no probe file outlives the call that wrote it, and no directory *)
(* is asked for before the one it is in, so that a call that was cut short *)
(* can always be repeated.                                                 *)
(***************************************************************************)
RootsAreReady ==
  /\ config # None => Complete(config)
  /\ \A t \in Terminals :
       /\ pc[t] = "done" => Complete(target[t])
       /\ \A k \in DOMAIN Baseline : pc[t] = Baseline[k] => Parent(Baseline[k]) \in disk[target[t]]
       /\ disturbances = 0 => \A r \in Roots : Probe(t) \in disk[r] => pc[t] = "unprobe" /\ target[t] = r

(***************************************************************************)
(* What keeps it so: what a terminal has put at its root stays there, and  *)
(* with it all that comes before its next step.                            *)
(***************************************************************************)
Phases == {"idle", "root", "make", "probe", "unprobe", ".pds", "marker", "done"} \cup {Baseline[k] : k \in DOMAIN Baseline}
Early == {"idle", "root", "make"}

MadeSoFar(t) ==
  /\ pc[t] \notin Early => "root" \in disk[target[t]]
  /\ pc[t] \notin Early \cup {"probe", "unprobe", ".pds"} => ".pds" \in disk[target[t]]
  /\ pc[t] \notin Early \cup {"probe", "unprobe", ".pds", "marker"} => "marker" \in disk[target[t]]
  /\ \A k \in DOMAIN Baseline :
       pc[t] = "done" \/ (\E j \in DOMAIN Baseline : j > k /\ pc[t] = Baseline[j]) => Baseline[k] \in disk[target[t]]

RootsInv ==
  /\ config \in Roots \cup {None}
  /\ DOMAIN disk = Roots
  /\ pc \in [Terminals -> Phases]
  /\ target \in [Terminals -> Roots \cup {None}]
  /\ saving \in [Terminals -> BOOLEAN]
  /\ disturbances \in Nat
  /\ \A t \in Terminals : (pc[t] # "idle" => target[t] \in Roots) /\ MadeSoFar(t)
  /\ RootsAreReady
=============================================================================
