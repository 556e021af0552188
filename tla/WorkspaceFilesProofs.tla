---------------------------- MODULE WorkspaceFilesProofs ----------------------------
(***************************************************************************)
(* Theorems about WorkspaceFiles: the components keep their inductive      *)
(* invariants, and have the properties these imply, for any number of      *)
(* processes, files and disturbances.                                      *)
(***************************************************************************)
EXTENDS StandardsProofs

-----------------------------------------------------------------------------
(* The workspace root. *)

LEMMA RootInit == Root!Init => Root!RootsInv
<1>. SUFFICES ASSUME Root!Init PROVE Root!RootsInv
  OBVIOUS
<1>1. \A t \in Writers : pc[t] = "idle" /\ target[t] = None
  BY DEF Root!Init
<1>2. \A t \in Writers : Root!MadeSoFar(t)
  BY <1>1 DEF Root!MadeSoFar, Root!Early, Root!Baseline
<1>3. Root!RootsAreReady
  BY <1>1 DEF Root!Init, Root!RootsAreReady, Root!Baseline, Root!Probe
<1>. QED
  BY <1>1, <1>2, <1>3 DEF Root!Init, Root!RootsInv, Root!Phases

(* What is at a root, when a terminal adds to it what it makes or removes its probe file. *)
LEMMA RootKept ==
  ASSUME NEW t \in Writers, target[t] \in Roots, DOMAIN disk = Roots,
         NEW item \in {Root!Baseline[k] : k \in DOMAIN Root!Baseline} \cup {"root", ".pds", "marker", t},
         UNCHANGED disk \/ Root!Add(t, item) \/ Root!Remove(t, t)
  PROVE  /\ DOMAIN disk' = Roots
         /\ \A r \in Roots, i \in {Root!Baseline[k] : k \in DOMAIN Root!Baseline} \cup {"root", ".pds", "marker"} :
              i \in disk[r] => i \in disk'[r]
         /\ Root!Add(t, item) => item \in disk'[target[t]]
         /\ \A r \in Roots, w \in Writers : w \in disk'[r] => w \in disk[r] \/ (item = w /\ Root!Add(t, item) /\ r = target[t])
         /\ Root!Remove(t, t) => t \notin disk'[target[t]]
BY WorkspaceFilesAssumption DEF Root!Add, Root!Remove, Root!Phases, Root!Baseline

(* What a terminal has made by then: of a saved preference, or of the next directory, nothing is missing. *)
LEMMA ReadyWhenMade ==
  ASSUME (\A t \in Writers : Root!MadeSoFar(t))', (config # None => Root!Complete(config))',
         (\A t \in Writers : disturbances = 0 => \A r \in Roots : Root!Probe(t) \in disk[r] => pc[t] = "unprobe" /\ target[t] = r)'
  PROVE  Root!RootsAreReady'
<1>1. ASSUME NEW t \in Writers PROVE (pc[t] = "done" => Root!Complete(target[t]))'
  <2>1. SUFFICES ASSUME pc'[t] = "done" PROVE Root!Complete(target[t])'
    OBVIOUS
  <2>2. Root!MadeSoFar(t)'
    OBVIOUS
  <2>3. \A k \in DOMAIN Root!Baseline : Root!Baseline[k] \in disk'[target'[t]]
    BY <2>1, <2>2 DEF Root!MadeSoFar
  <2>4. {"root", ".pds", "marker"} \subseteq disk'[target'[t]]
    BY <2>1, <2>2 DEF Root!MadeSoFar, Root!Early
  <2>. QED
    BY <2>3, <2>4 DEF Root!Complete
<1>2. ASSUME NEW t \in Writers, NEW k \in DOMAIN Root!Baseline, pc'[t] = Root!Baseline[k]
      PROVE  Root!Parent(Root!Baseline[k]) \in disk'[target'[t]]
  <2>1. Root!MadeSoFar(t)'
    OBVIOUS
  <2>2. "root" \in disk'[target'[t]]
    BY <1>2, <2>1 DEF Root!MadeSoFar, Root!Early, Root!Baseline
  <2>3. CASE k \in 1 .. 3
    BY <2>2, <2>3 DEF Root!Parent, Root!Baseline
  <2>4. CASE k \in 4 .. 5
    <3>1. Root!Baseline[3] \in disk'[target'[t]]
      BY <1>2, <2>1, <2>4 DEF Root!MadeSoFar, Root!Baseline
    <3>. QED
      BY <2>4, <3>1 DEF Root!Parent, Root!Baseline
  <2>. QED
    BY <2>3, <2>4 DEF Root!Baseline
<1>. QED
  BY <1>1, <1>2 DEF Root!RootsAreReady

(* A terminal goes on, when it has made what comes before its next step; the others have what they had. *)
LEMMA TerminalMoves ==
  ASSUME Root!RootsInv, NEW t \in Writers, pc[t] # "idle",
         NEW item \in {Root!Baseline[k] : k \in DOMAIN Root!Baseline} \cup {"root", ".pds", "marker", t},
         UNCHANGED disk \/ Root!Add(t, item) \/ Root!Remove(t, t),
         \/ \E phase \in Root!Phases : Root!Goto(t, phase)
         \/ Root!Return(t),
         Root!MadeSoFar(t)', UNCHANGED config \/ (config' = target[t] /\ pc[t] = "done"),
         Root!NoFault \/ Root!Fault,
         disturbances' = 0 /\ t \in disk'[target[t]] => pc'[t] = "unprobe"
  PROVE  Root!RootsInv'
<1>0. target[t] \in Roots /\ DOMAIN disk = Roots /\ disturbances \in Nat
  BY DEF Root!RootsInv
<1>1. /\ DOMAIN disk' = Roots
      /\ \A r \in Roots, i \in {Root!Baseline[k] : k \in DOMAIN Root!Baseline} \cup {"root", ".pds", "marker"} :
           i \in disk[r] => i \in disk'[r]
      /\ \A r \in Roots, w \in Writers : w \in disk'[r] => w \in disk[r] \/ (w = t /\ r = target[t])
  <2>1. \A w \in Writers : item = w => w = t
    BY WorkspaceFilesAssumption DEF Root!Phases, Root!Baseline
  <2>. QED
    BY <1>0, <2>1, RootKept
<1>2. /\ pc' \in [Writers -> Root!Phases] /\ target' \in [Writers -> Roots \cup {None}] /\ saving' \in [Writers -> BOOLEAN]
      /\ pc'[t] # "idle" => target'[t] = target[t]
      /\ \A w \in Writers \ {t} : pc'[w] = pc[w] /\ target'[w] = target[w]
  BY Zenon DEF Root!RootsInv, Root!Goto, Root!Return, Root!Phases
<1>3. disturbances' \in Nat /\ (disturbances' = 0 => disturbances = 0 /\ Root!NoFault)
  BY <1>0 DEF Root!NoFault, Root!Fault
<1>4. ASSUME NEW w \in Writers PROVE Root!MadeSoFar(w)'
  <2>1. CASE w = t
    BY <2>1
  <2>2. CASE w # t
    <3>1. Root!MadeSoFar(w) /\ (pc[w] # "idle" => target[w] \in Roots) /\ pc'[w] = pc[w] /\ target'[w] = target[w]
      BY <1>2, <2>2 DEF Root!RootsInv
    <3>2. ASSUME NEW i \in {Root!Baseline[k] : k \in DOMAIN Root!Baseline} \cup {"root", ".pds", "marker"},
                 i \in disk[target[w]], pc[w] # "idle"
          PROVE  i \in disk'[target'[w]]
      BY <1>1, <3>1, <3>2
    <3>. QED
      BY <3>1, <3>2 DEF Root!MadeSoFar, Root!Early, Root!Baseline
  <2>. QED
    BY <2>1, <2>2
<1>5. ASSUME NEW w \in Writers, disturbances' = 0, NEW r \in Roots, w \in disk'[r] PROVE pc'[w] = "unprobe" /\ target'[w] = r
  <2>1. \A v \in Writers : v \in disk[r] => pc[v] = "unprobe" /\ target[v] = r
    BY <1>3, <1>5 DEF Root!RootsInv, Root!RootsAreReady, Root!Probe
  <2>2. CASE w # t
    BY <1>1, <1>2, <1>5, <2>1, <2>2
  <2>3. CASE w = t
    <3>1. r = target[t]
      BY <1>1, <1>5, <2>1, <2>3
    <3>2. pc'[t] = "unprobe"
      BY <1>5, <2>3, <3>1
    <3>. QED
      BY <1>2, <2>3, <3>1, <3>2
  <2>. QED
    BY <2>2, <2>3
<1>6. Root!RootsAreReady'
  <2>0. (config # None => Root!Complete(config))'
    <3>1. config' # None => config' \in Roots /\ Root!Complete(config')
      BY <1>0 DEF Root!RootsInv, Root!RootsAreReady
    <3>2. SUFFICES ASSUME config' # None
                   PROVE  {"root", ".pds", "marker"} \cup {Root!Baseline[k] : k \in DOMAIN Root!Baseline} \subseteq disk'[config']
      BY DEF Root!Complete
    <3>. QED
      BY <1>1, <3>1, <3>2 DEF Root!Complete
  <2>1. (\A w \in Writers : disturbances = 0 => \A r \in Roots : Root!Probe(w) \in disk[r] => pc[w] = "unprobe" /\ target[w] = r)'
    BY <1>5 DEF Root!Probe
  <2>. QED
    BY <1>4, <2>0, <2>1, ReadyWhenMade
<1>7. \A w \in Writers : pc'[w] # "idle" => target'[w] \in Roots
  BY <1>0, <1>2 DEF Root!RootsInv
<1>8. config' \in Roots \cup {None}
  BY <1>0 DEF Root!RootsInv
<1>. QED
  BY <1>1, <1>2, <1>3, <1>4, <1>6, <1>7, <1>8 DEF Root!RootsInv

LEMMA RootStep == Root!RootsInv /\ Root!Next => Root!RootsInv'
<1>. SUFFICES ASSUME Root!RootsInv, Root!Next PROVE Root!RootsInv'
  OBVIOUS
<1>. PICK t \in Writers :
       \/ \E r \in Roots : Root!SetRoot(t, r)
       \/ \E explicit \in Roots \cup {None} : Root!ValidateRoot(t, explicit)
       \/ Root!Reset(t) \/ Root!Step(t) \/ Root!Fails(t) \/ Root!Dies(t)
  BY DEF Root!Next
<1>. DEFINE Furniture == {Root!Baseline[k] : k \in DOMAIN Root!Baseline} \cup {"root", ".pds", "marker"}
<1>0. /\ Root!MadeSoFar(t) /\ (pc[t] # "idle" => target[t] \in Roots) /\ DOMAIN disk = Roots
      /\ pc[t] \in Root!Phases
  BY DEF Root!RootsInv
(* A call begins. *)
<1>1. ASSUME NEW r \in Roots, NEW save \in BOOLEAN, Root!Ensure(t, r, save), UNCHANGED config PROVE Root!RootsInv'
  <2>1. /\ pc' \in [Writers -> Root!Phases] /\ target' \in [Writers -> Roots \cup {None}] /\ saving' \in [Writers -> BOOLEAN]
        /\ pc'[t] = "root" /\ target'[t] = r /\ pc[t] = "idle" /\ UNCHANGED <<disk, disturbances, config>>
        /\ \A w \in Writers \ {t} : pc'[w] = pc[w] /\ target'[w] = target[w]
    BY <1>1 DEF Root!Ensure, Root!RootsInv, Root!Phases, Root!NoFault
  <2>2. \A w \in Writers : Root!MadeSoFar(w)'
    BY <2>1 DEF Root!RootsInv, Root!MadeSoFar, Root!Early, Root!Baseline
  <2>3. Root!RootsAreReady'
    <3>1. (config # None => Root!Complete(config))'
      BY <2>1 DEF Root!RootsInv, Root!RootsAreReady, Root!Complete
    <3>2. (\A w \in Writers : disturbances = 0 => \A q \in Roots : Root!Probe(w) \in disk[q] => pc[w] = "unprobe" /\ target[w] = q)'
      BY <2>1 DEF Root!RootsInv, Root!RootsAreReady, Root!Probe
    <3>. QED
      BY <2>2, <3>1, <3>2, ReadyWhenMade
  <2>4. \A w \in Writers : pc'[w] # "idle" => target'[w] \in Roots
    BY <2>1 DEF Root!RootsInv
  <2>. QED
    BY <2>1, <2>2, <2>3, <2>4 DEF Root!RootsInv
<1>2. CASE \E r \in Roots : Root!SetRoot(t, r)
  BY <1>1, <1>2, Zenon DEF Root!SetRoot
<1>3. CASE \E explicit \in Roots \cup {None} : Root!ValidateRoot(t, explicit)
  <2>1. PICK explicit \in Roots \cup {None} : Root!ValidateRoot(t, explicit)
    BY <1>3
  <2>2. Root!Resolve(t, explicit) \in Roots
    BY WorkspaceFilesAssumption DEF Root!Resolve, Root!RootsInv
  <2>. QED
    BY <1>1, <2>1, <2>2, Zenon DEF Root!ValidateRoot
<1>4. CASE Root!Reset(t)
  <2>1. \A w \in Writers : Root!MadeSoFar(w)'
    BY <1>4 DEF Root!Reset, Root!RootsInv, Root!MadeSoFar
  <2>2. Root!RootsAreReady'
    BY <1>4 DEF Root!Reset, Root!NoFault, Root!RootsInv, Root!RootsAreReady, Root!Complete
  <2>3. config' = None /\ disk' = disk /\ pc' = pc /\ target' = target /\ saving' = saving /\ disturbances' = disturbances
    BY <1>4 DEF Root!Reset, Root!NoFault
  <2>4. \A w \in Writers : pc'[w] # "idle" => target'[w] \in Roots
    BY <2>3 DEF Root!RootsInv
  <2>. QED
    BY <2>1, <2>2, <2>3, <2>4 DEF Root!RootsInv

(* A step of ensure_workspace_root. *)
<1>5. ASSUME pc[t] # "idle", NEW item \in Furniture \cup {t}, Root!Add(t, item) \/ UNCHANGED disk
      PROVE  \A i \in Furniture : i \in disk[target[t]] => i \in disk'[target[t]]
  BY <1>0, <1>5, RootKept
<1>6. ASSUME NEW phase \in Root!Phases, Root!Goto(t, phase)
      PROVE  pc'[t] = phase /\ target'[t] = target[t]
  BY <1>6 DEF Root!Goto, Root!RootsInv
<1>7. ASSUME Root!Return(t)
      PROVE  pc'[t] = "idle" /\ Root!MadeSoFar(t)'
  <2>1. pc'[t] = "idle"
    BY <1>7 DEF Root!Return, Root!RootsInv
  <2>. QED
    BY <2>1 DEF Root!MadeSoFar, Root!Early, Root!Baseline
<1>8. ASSUME pc[t] \notin {"idle", "unprobe"}, NEW item \in Furniture, Root!Add(t, item) \/ UNCHANGED disk, Root!NoFault
      PROVE  disturbances' = 0 => t \notin disk'[target[t]]
  <2>1. disturbances = 0 => t \notin disk[target[t]]
    BY <1>0, <1>8 DEF Root!RootsInv, Root!RootsAreReady, Root!Probe
  <2>2. t \notin Furniture
    BY WorkspaceFilesAssumption DEF Root!Phases
  <2>. QED
    BY <1>0, <1>8, <2>1, <2>2 DEF Root!Add, Root!NoFault
<1>. HIDE DEF Furniture
<1>9. ASSUME pc[t] \notin {"idle", "unprobe"}, NEW item \in Furniture, Root!Add(t, item) \/ UNCHANGED disk, Root!NoFault,
             (\E phase \in Root!Phases : Root!Goto(t, phase)) \/ Root!Return(t), Root!MadeSoFar(t)',
             UNCHANGED config \/ (config' = target[t] /\ pc[t] = "done")
      PROVE  Root!RootsInv'
  BY <1>8, <1>9, TerminalMoves DEF Furniture
<1>10. CASE Root!LookForRoot(t)
  <2>. DEFINE phase == IF "root" \in disk[target[t]] THEN "probe" ELSE "make"
  <2>1. phase \in Root!Phases /\ Root!Goto(t, phase) /\ pc'[t] = phase /\ target'[t] = target[t]
    BY <1>6, <1>10 DEF Root!LookForRoot, Root!Phases
  <2>2. Root!MadeSoFar(t)'
    BY <1>10, <2>1 DEF Root!LookForRoot, Root!MadeSoFar, Root!Early, Root!Baseline
  <2>. HIDE DEF phase
  <2>3. "root" \in Furniture
    BY DEF Furniture
  <2>. QED
    BY <1>9, <1>10, <2>1, <2>2, <2>3 DEF Root!LookForRoot
<1>11. CASE Root!MakeRoot(t)
  <2>1. "root" \in Furniture /\ "probe" \in Root!Phases
    BY DEF Furniture, Root!Phases
  <2>2. CASE Root!Return(t) /\ UNCHANGED disk
    BY <1>7, <1>9, <1>11, <2>1, <2>2 DEF Root!MakeRoot
  <2>3. CASE Root!Add(t, "root") /\ Root!Goto(t, "probe")
    <3>1. Root!MadeSoFar(t)'
      BY <1>0, <1>6, <1>11, <2>1, <2>3 DEF Root!MakeRoot, Root!MadeSoFar, Root!Early, Root!Baseline, Root!Add
    <3>. QED
      BY <1>9, <1>11, <2>1, <2>3, <3>1 DEF Root!MakeRoot
  <2>. QED
    BY <1>11, <2>2, <2>3 DEF Root!MakeRoot
<1>12. CASE Root!MakeProbe(t)
  <2>1. "unprobe" \in Root!Phases /\ pc'[t] = "unprobe" /\ target'[t] = target[t]
    BY <1>6, <1>12 DEF Root!MakeProbe, Root!Phases
  <2>2. Root!MadeSoFar(t)'
    BY <1>0, <1>12, <2>1 DEF Root!MakeProbe, Root!MadeSoFar, Root!Early, Root!Baseline, Root!Add
  <2>. QED
    BY <1>12, <2>1, <2>2, TerminalMoves DEF Root!MakeProbe, Root!Probe
<1>13. CASE Root!RemoveProbe(t)
  <2>1. ".pds" \in Root!Phases /\ pc'[t] = ".pds" /\ target'[t] = target[t]
    BY <1>6, <1>13 DEF Root!RemoveProbe, Root!Phases
  <2>2. /\ "root" \in disk'[target[t]] /\ t \notin disk'[target[t]]
    BY <1>0, <1>13, WorkspaceFilesAssumption DEF Root!RemoveProbe, Root!MadeSoFar, Root!Early, Root!Remove, Root!Probe
  <2>3. Root!MadeSoFar(t)'
    BY <2>1, <2>2 DEF Root!MadeSoFar, Root!Early, Root!Baseline
  <2>. QED
    BY <1>13, <2>1, <2>2, <2>3, TerminalMoves DEF Root!RemoveProbe, Root!Probe
<1>14. CASE Root!MakeMetadata(t)
  <2>1. "marker" \in Root!Phases /\ pc'[t] = "marker" /\ target'[t] = target[t] /\ ".pds" \in Furniture
    BY <1>6, <1>14 DEF Root!MakeMetadata, Root!Phases, Furniture
  <2>2. Root!MadeSoFar(t)'
    BY <1>0, <1>14, <2>1 DEF Root!MakeMetadata, Root!MadeSoFar, Root!Early, Root!Baseline, Root!Add
  <2>. QED
    BY <1>9, <1>14, <2>1, <2>2 DEF Root!MakeMetadata
<1>15. CASE Root!WriteMarker(t)
  <2>1. "classes" \in Root!Phases /\ pc'[t] = "classes" /\ target'[t] = target[t] /\ "marker" \in Furniture /\ Root!Baseline[1] = "classes"
    BY <1>6, <1>15 DEF Root!WriteMarker, Root!Phases, Root!Baseline, Furniture
  <2>2. Root!MadeSoFar(t)'
    BY <1>0, <1>15, <2>1 DEF Root!WriteMarker, Root!MadeSoFar, Root!Early, Root!Baseline, Root!Add
  <2>. QED
    BY <1>9, <1>15, <2>1, <2>2 DEF Root!WriteMarker
<1>16. CASE Root!MakeDirectory(t)
  <2>1. PICK k \in DOMAIN Root!Baseline :
          /\ pc[t] = Root!Baseline[k]
          /\ \/ Root!Add(t, Root!Baseline[k]) /\ Root!Goto(t, Root!Following(k))
             \/ UNCHANGED disk /\ Root!Return(t)
          /\ UNCHANGED config /\ Root!NoFault
    BY <1>16 DEF Root!MakeDirectory
  <2>2. pc[t] \notin {"idle", "unprobe"} /\ Root!Baseline[k] \in Furniture /\ Root!Following(k) \in Root!Phases
    BY <2>1 DEF Root!Baseline, Root!Following, Root!Phases, Furniture
  <2>3. CASE Root!Add(t, Root!Baseline[k]) /\ Root!Goto(t, Root!Following(k))
    <3>1. pc'[t] = Root!Following(k) /\ target'[t] = target[t]
      BY <1>6, <2>2, <2>3
    <3>2. /\ {"root", ".pds", "marker"} \subseteq disk'[target[t]]
          /\ \A j \in DOMAIN Root!Baseline : j <= k => Root!Baseline[j] \in disk'[target[t]]
      BY <1>0, <2>1, <2>3 DEF Root!MadeSoFar, Root!Early, Root!Baseline, Root!Add
    <3>3. Root!MadeSoFar(t)'
      BY <3>1, <3>2 DEF Root!MadeSoFar, Root!Early, Root!Baseline, Root!Following
    <3>. QED
      BY <1>9, <2>1, <2>2, <2>3, <3>3
  <2>4. CASE UNCHANGED disk /\ Root!Return(t)
    BY <1>7, <1>9, <2>1, <2>2, <2>4
  <2>. QED
    BY <2>1, <2>3, <2>4
<1>17. CASE Root!Finish(t)
  <2>1. "root" \in Furniture
    BY DEF Furniture
  <2>. QED
    BY <1>7, <1>9, <1>17, <2>1 DEF Root!Finish
(* A call that fails, or a terminal that dies. *)
<1>18. CASE Root!Fails(t) \/ Root!Dies(t)
  <2>1. disturbances' # 0
    BY <1>18 DEF Root!Fails, Root!Dies, Root!Fault, Root!RootsInv
  <2>. QED
    BY <1>7, <1>18, <2>1, TerminalMoves DEF Root!Fails, Root!Dies, Root!Probe
<1>. QED
  BY <1>2, <1>3, <1>4, <1>10, <1>11, <1>12, <1>13, <1>14, <1>15, <1>16, <1>17, <1>18 DEF Root!Step

-----------------------------------------------------------------------------
(* Grouping signals. *)

LEMMA SignalInit == Signal!Init => Signal!SignalInv
<1>. SUFFICES ASSUME Signal!Init PROVE Signal!SignalInv
  OBVIOUS
<1>1. \A w \in Writers : pc[w] = "idle" /\ own[w] = None /\ made[w] = {} /\ outcome[w] = "none"
  BY DEF Signal!Init
<1>2. \A w \in Writers : Signal!CallFits(w) /\ Signal!MakerFits(w) /\ Signal!CreatedFits(w)
  BY <1>1 DEF Signal!CallFits, Signal!MakerFits, Signal!CreatedFits, Signal!Making, Signal!Succeeded
<1>3. Signal!NothingIsHalf
  BY DEF Signal!Init, Signal!NothingIsHalf
<1>4. Signal!SignalPairsHold
  BY <1>1 DEF Signal!Init, Signal!SignalPairsHold, Signal!SignalsStay, Signal!QuietPairsAreWhole, Signal!Answered
<1>. QED
  BY <1>1, <1>2, <1>3, <1>4, WorkspaceFilesAssumption
  DEF Signal!Init, Signal!SignalInv, Signal!Stored, Signal!Empty

(* The calls of the other processes go on as they are. *)
OthersCall(w) ==
  /\ DOMAIN pc' = Writers /\ DOMAIN own' = Writers /\ DOMAIN made' = Writers
  /\ DOMAIN mode' = Writers /\ DOMAIN seen' = Writers /\ DOMAIN outcome' = Writers
  /\ DOMAIN seen'[w] = {"json", "digest"}
  /\ \A v \in Writers \ {w} :
       /\ pc'[v] = pc[v] /\ own'[v] = own[v] /\ made'[v] = made[v]
       /\ mode'[v] = mode[v] /\ seen'[v] = seen[v] /\ outcome'[v] = outcome[v]

(* A failure is counted. *)
Counted == disturbances' \in 0 .. MaxDisturbances /\ (disturbances' = 0 => disturbances = 0)

LEMMA FaultsCounted ==
  ASSUME Signal!SignalInv, Signal!NoFault \/ Signal!Fault
  PROVE  Counted /\ (Signal!Fault => disturbances' # 0)
BY WorkspaceFilesAssumption DEF Signal!SignalInv, Signal!NoFault, Signal!Fault, Counted

LEMMA GotoCall ==
  ASSUME Signal!SignalInv, NEW w \in Writers, NEW phase, Signal!Goto(w, phase)
  PROVE  /\ OthersCall(w) /\ pc'[w] = phase /\ own'[w] = own[w] /\ made'[w] = made[w]
         /\ mode'[w] = mode[w] /\ seen'[w] = seen[w] /\ outcome'[w] = outcome[w]
BY DEF Signal!SignalInv, Signal!Goto, OthersCall

LEMMA ReturnCall ==
  ASSUME Signal!SignalInv, NEW w \in Writers, NEW answer, Signal!Return(w, answer)
  PROVE  /\ OthersCall(w) /\ pc'[w] = "idle" /\ own'[w] = own[w] /\ made'[w] = {}
         /\ seen'[w] = seen[w] /\ outcome'[w] = answer
BY DEF Signal!SignalInv, Signal!Return, OthersCall

LEMMA StartLoadCall ==
  ASSUME Signal!SignalInv, NEW w \in Writers, NEW reading, Signal!StartLoad(w, reading),
         NEW makes, made' = [made EXCEPT ![w] = makes] \/ (UNCHANGED made /\ makes = made[w])
  PROVE  /\ OthersCall(w) /\ pc'[w] = "exists_json" /\ own'[w] = own[w] /\ made'[w] = makes
         /\ mode'[w] = reading /\ outcome'[w] = outcome[w]
BY DEF Signal!SignalInv, Signal!StartLoad, Signal!Empty, OthersCall

LEMMA RaiseCall ==
  ASSUME Signal!SignalInv, NEW w \in Writers, NEW answer, Signal!Raise(w, answer)
  PROVE  /\ OthersCall(w) /\ own'[w] = own[w] /\ seen'[w] = seen[w] /\ outcome'[w] = answer
         /\ made'[w] = made[w]
         /\ pc'[w] = IF made[w] = {} THEN "idle" ELSE IF "digest" \in made[w] THEN "undo_digest" ELSE "undo_json"
BY ReturnCall, Zenon DEF Signal!SignalInv, Signal!Raise, OthersCall

(* What a process does that is no maker, neither before nor afterwards, and changes no file. *)
LEMMA BystanderStep ==
  ASSUME Signal!SignalInv, NEW w \in Writers, OthersCall(w), Counted, UNCHANGED <<json, digest>>,
         ~ Signal!Making(w), ~ Signal!Making(w)', Signal!CallFits(w)',
         pc'[w] = "idle" => outcome'[w] # "created",
         disturbances' = 0 /\ pc'[w] = "idle" /\ outcome'[w] \in Signal!Succeeded =>
           own'[w] = own[w] /\ Signal!Whole(Signal!Id(w)) /\ json[Signal!Id(w)] = seen'[w].json
  PROVE  Signal!SignalInv'
<1>1. ASSUME NEW v \in Writers, v # w
      PROVE  /\ Signal!CallFits(v)' /\ (Signal!Making(v)' <=> Signal!Making(v)) /\ Signal!Id(v)' = Signal!Id(v)
             /\ pc'[v] = pc[v] /\ own'[v] = own[v] /\ outcome'[v] = outcome[v] /\ seen'[v] = seen[v]
  BY <1>1 DEF Signal!SignalInv, OthersCall, Signal!CallFits, Signal!Making, Signal!Id
<1>2. ASSUME NEW v \in Writers PROVE Signal!MakerFits(v)'
  <2>1. SUFFICES ASSUME Signal!Making(v)' PROVE Signal!MakerFits(v)'
    BY DEF Signal!MakerFits
  <2>2. v # w /\ Signal!MakerFits(v) /\ Signal!Making(v)
    BY <1>1, <2>1 DEF Signal!SignalInv
  <2>3. \A u \in Writers \ {v} : Signal!Making(u)' => Signal!Id(u)' # Signal!Id(v)'
    BY <1>1, <2>2 DEF Signal!MakerFits
  <2>. QED
    BY <1>1, <2>2, <2>3 DEF Signal!MakerFits, Counted
<1>3. ASSUME NEW v \in Writers PROVE Signal!CreatedFits(v)'
  <2>1. CASE v = w
    BY <2>1 DEF Signal!CreatedFits
  <2>2. CASE v # w
    BY <1>1, <2>2 DEF Signal!CreatedFits, Signal!SignalInv, Signal!Whole
  <2>. QED
    BY <2>1, <2>2
<1>4. Signal!NothingIsHalf'
  <2>1. SUFFICES ASSUME disturbances' = 0, NEW i \in Signal!SignalIds, \A v \in Writers : Signal!Making(v)' => Signal!Id(v)' # i
                 PROVE  (Signal!Whole(i) \/ (json[i] = Signal!Absent /\ digest[i] = Signal!Absent))'
    BY DEF Signal!NothingIsHalf
  <2>2. \A v \in Writers : Signal!Making(v) => Signal!Id(v) # i
    BY <1>1, <2>1
  <2>. QED
    BY <2>1, <2>2 DEF Signal!NothingIsHalf, Signal!SignalInv, Signal!Whole, Counted
<1>5. Signal!SignalsStay'
  <2>1. SUFFICES ASSUME NEW v \in Writers, disturbances' = 0, Signal!Answered(v)'
                 PROVE  Signal!Whole(Signal!Id(v))' /\ (json[Signal!Id(v)] = seen[v].json)'
    BY <1>3 DEF Signal!SignalsStay, Signal!CreatedFits
  <2>2. CASE v = w
    BY <2>1, <2>2 DEF Signal!Answered, Signal!Succeeded, Signal!Whole, Signal!Id
  <2>3. CASE v # w
    BY <1>1, <2>1, <2>3 DEF Signal!Answered, Signal!SignalInv, Signal!SignalPairsHold, Signal!SignalsStay, Signal!Whole, Counted
  <2>. QED
    BY <2>2, <2>3
<1>6. Signal!QuietPairsAreWhole'
  <2>1. Signal!Quiet' => \A v \in Writers : ~ Signal!Making(v)'
    <3>1. ASSUME NEW v \in Writers, pc'[v] = "idle" PROVE ~ Signal!Making(v)'
      BY <1>1, <3>1 DEF Signal!CallFits, Signal!Making, Signal!Preparing, Signal!Loading
    <3>. QED
      BY <3>1 DEF Signal!Quiet
  <2>. QED
    BY <1>4, <2>1 DEF Signal!QuietPairsAreWhole, Signal!NothingIsHalf
<1>7. \A v \in Writers : DOMAIN seen'[v] = {"json", "digest"}
  BY DEF Signal!SignalInv, OthersCall
<1>8. /\ DOMAIN pc' = Writers /\ DOMAIN own' = Writers /\ DOMAIN made' = Writers
      /\ DOMAIN mode' = Writers /\ DOMAIN seen' = Writers /\ DOMAIN outcome' = Writers
  BY DEF OthersCall
<1>9. DOMAIN json' = Signal!SignalIds /\ DOMAIN digest' = Signal!SignalIds
      /\ \A i \in Signal!SignalIds : json'[i] \in Signal!Stored(i) /\ digest'[i] \in Signal!Stored(i)
  BY DEF Signal!SignalInv
<1>. QED
  BY <1>1, <1>2, <1>3, <1>4, <1>5, <1>6, <1>7, <1>8, <1>9 DEF Signal!SignalInv, Signal!SignalPairsHold, Counted

(* What the one maker of a pair does, or who becomes it, whatever that makes of the two files. *)
LEMMA MakerStep ==
  ASSUME Signal!SignalInv, NEW w \in Writers, OthersCall(w), Counted,
         NEW i \in Signal!SignalIds, Signal!Id(w) = i, own'[w] = own[w],
         NEW a \in Signal!Stored(i), NEW b \in Signal!Stored(i),
         json' = [json EXCEPT ![i] = a] \/ (UNCHANGED json /\ a = json[i]),
         digest' = [digest EXCEPT ![i] = b] \/ (UNCHANGED digest /\ b = digest[i]),
         Signal!Making(w) \/ json[i] = Signal!Absent,
         (a = json[i] /\ b = digest[i]) \/ pc[w] \in {"create_json", "fill_json", "create_digest", "fill_digest", "undo_digest", "undo_json"},
         Signal!CallFits(w)',
         Signal!Making(w)' => a = IF pc'[w] = "fill_json" THEN Signal!Torn ELSE Signal!Complete(own[w]),
         disturbances' = 0 =>
           IF Signal!Making(w)'
           THEN /\ pc'[w] \notin {"undo_digest", "undo_json"}
                /\ b = CASE pc'[w] \in {"fill_json", "create_digest"} -> Signal!Absent
                         [] pc'[w] = "fill_digest" -> Signal!Torn
                         [] OTHER -> Signal!Complete(own[w])
           ELSE a.status = "complete" /\ b = a,
         pc'[w] = "idle" /\ outcome'[w] = "created" => a = Signal!Complete(own[w]) /\ b = a,
         disturbances' = 0 /\ pc'[w] = "idle" /\ outcome'[w] \in Signal!Succeeded => a = seen'[w].json
  PROVE  Signal!SignalInv'
<1>0. /\ json'[i] = a /\ digest'[i] = b
      /\ \A j \in Signal!SignalIds \ {i} : json'[j] = json[j] /\ digest'[j] = digest[j]
      /\ DOMAIN json' = Signal!SignalIds /\ DOMAIN digest' = Signal!SignalIds
  BY DEF Signal!SignalInv
<1>1. ASSUME NEW v \in Writers, v # w
      PROVE  /\ Signal!CallFits(v)' /\ (Signal!Making(v)' <=> Signal!Making(v)) /\ Signal!Id(v)' = Signal!Id(v)
             /\ pc'[v] = pc[v] /\ own'[v] = own[v] /\ outcome'[v] = outcome[v] /\ seen'[v] = seen[v]
             /\ (own[v] \in Signals => Signal!Id(v) \in Signal!SignalIds)
             /\ (Signal!Making(v) => Signal!Id(v) # i)
  <2>1. Signal!MakerFits(v) /\ Signal!MakerFits(w)
    BY DEF Signal!SignalInv
  <2>2. Signal!Making(v) => Signal!Id(v) # i
    <3>1. CASE Signal!Making(w)
      BY <1>1, <2>1, <3>1 DEF Signal!MakerFits
    <3>2. CASE json[i] = Signal!Absent
      BY <2>1, <3>2 DEF Signal!MakerFits, Signal!Absent, Signal!Torn, Signal!Complete
    <3>. QED
      BY <3>1, <3>2
  <2>. QED
    BY <1>1, <2>2 DEF Signal!SignalInv, OthersCall, Signal!CallFits, Signal!Making, Signal!Id, Signal!SignalIds
<1>2. ASSUME NEW v \in Writers PROVE Signal!MakerFits(v)'
  <2>1. SUFFICES ASSUME Signal!Making(v)' PROVE Signal!MakerFits(v)'
    BY DEF Signal!MakerFits
  <2>2. Signal!Id(w)' = i
    BY DEF Signal!Id
  <2>3. CASE v = w
    <3>1. \A u \in Writers \ {v} : Signal!Making(u)' => Signal!Id(u)' # Signal!Id(v)'
      BY <1>1, <2>2, <2>3
    <3>. QED
      BY <1>0, <2>1, <2>2, <2>3, <3>1 DEF Signal!MakerFits
  <2>4. CASE v # w
    <3>1. Signal!MakerFits(v) /\ Signal!Making(v) /\ Signal!Id(v) # i /\ own[v] \in Signals
      BY <1>1, <2>1, <2>4 DEF Signal!SignalInv, Signal!CallFits, Signal!Making, Signal!Preparing, Signal!Loading
    <3>2. \A u \in Writers \ {v} : Signal!Making(u)' => Signal!Id(u)' # Signal!Id(v)'
      <4>1. ASSUME NEW u \in Writers \ {v}, Signal!Making(u)' PROVE Signal!Id(u)' # Signal!Id(v)'
        BY <1>1, <2>2, <2>4, <3>1, <4>1 DEF Signal!MakerFits
      <4>. QED
        BY <4>1
    <3>. QED
      BY <1>0, <1>1, <2>4, <3>1, <3>2 DEF Signal!MakerFits, Counted
  <2>. QED
    BY <2>3, <2>4
<1>3. ASSUME NEW v \in Writers PROVE Signal!CreatedFits(v)'
  <2>1. SUFFICES ASSUME pc'[v] = "idle", outcome'[v] = "created" PROVE Signal!CreatedFits(v)'
    BY DEF Signal!CreatedFits
  <2>2. CASE v = w
    <3>1. ~ Signal!Making(w)' /\ Signal!Id(w)' = i
      BY <2>1, <2>2 DEF Signal!CallFits, Signal!Making, Signal!Preparing, Signal!Loading, Signal!Id
    <3>2. \A u \in Writers : Signal!Making(u)' => Signal!Id(u)' # i
      BY <1>1, <3>1
    <3>3. a = Signal!Complete(own[w]) /\ b = a /\ a.status = "complete"
      BY <2>1, <2>2 DEF Signal!Complete
    <3>. QED
      BY <1>0, <2>2, <3>1, <3>2, <3>3 DEF Signal!CreatedFits, Signal!Whole
  <2>3. CASE v # w
    <3>1. Signal!CreatedFits(v) /\ pc[v] = "idle" /\ outcome[v] = "created" /\ own[v] \in Signals
      BY <1>1, <2>1, <2>3 DEF Signal!SignalInv, Signal!CallFits, Signal!Succeeded
    <3>2. Signal!Id(v) # i
      BY <3>1 DEF Signal!CreatedFits, Signal!Whole, Signal!Absent
    <3>3. \A u \in Writers : Signal!Making(u)' => Signal!Id(u)' # Signal!Id(v)
      <4>1. Signal!Id(w)' = i
        BY DEF Signal!Id
      <4>. QED
        BY <1>1, <3>1, <3>2, <4>1 DEF Signal!CreatedFits
    <3>. QED
      BY <1>0, <1>1, <2>3, <3>1, <3>2, <3>3 DEF Signal!CreatedFits, Signal!Whole
  <2>. QED
    BY <2>2, <2>3
<1>4. Signal!NothingIsHalf'
  <2>1. SUFFICES ASSUME disturbances' = 0, NEW j \in Signal!SignalIds, \A v \in Writers : Signal!Making(v)' => Signal!Id(v)' # j
                 PROVE  (Signal!Whole(j) \/ (json[j] = Signal!Absent /\ digest[j] = Signal!Absent))'
    BY DEF Signal!NothingIsHalf
  <2>2. Signal!Id(w)' = i
    BY DEF Signal!Id
  <2>3. CASE j = i
    BY <1>0, <2>1, <2>2, <2>3 DEF Signal!Whole
  <2>4. CASE j # i
    <3>1. \A v \in Writers : Signal!Making(v) => Signal!Id(v) # j
      BY <1>1, <2>1, <2>4
    <3>. QED
      BY <1>0, <2>1, <2>4, <3>1 DEF Signal!NothingIsHalf, Signal!SignalInv, Signal!Whole, Counted
  <2>. QED
    BY <2>3, <2>4
<1>5. Signal!SignalsStay'
  <2>1. SUFFICES ASSUME NEW v \in Writers, disturbances' = 0, Signal!Answered(v)'
                 PROVE  Signal!Whole(Signal!Id(v))' /\ (json[Signal!Id(v)] = seen[v].json)'
    BY <1>3 DEF Signal!SignalsStay, Signal!CreatedFits
  <2>2. CASE v = w
    <3>1. ~ Signal!Making(w)' /\ Signal!Id(w)' = i /\ outcome'[w] \in Signal!Succeeded /\ pc'[w] = "idle"
      BY <2>1, <2>2 DEF Signal!CallFits, Signal!Making, Signal!Preparing, Signal!Loading, Signal!Id, Signal!Answered, Signal!Succeeded
    <3>. QED
      BY <1>0, <2>1, <2>2, <3>1 DEF Signal!Whole
  <2>3. CASE v # w
    <3>1. /\ Signal!Whole(Signal!Id(v)) /\ json[Signal!Id(v)] = seen[v].json
          /\ disturbances = 0 /\ own[v] \in Signals
      BY <1>1, <2>1, <2>3
      DEF Signal!Answered, Signal!SignalInv, Signal!CallFits, Signal!Succeeded, Signal!SignalPairsHold, Signal!SignalsStay, Counted
    <3>2. Signal!Id(v) = i => a = json[i] /\ b = digest[i]
      <4>1. SUFFICES ASSUME Signal!Id(v) = i,
                            pc[w] \in {"create_json", "fill_json", "create_digest", "fill_digest", "undo_digest", "undo_json"}
                     PROVE  FALSE
        OBVIOUS
      <4>2. json[i] # Signal!Absent /\ digest[i] = json[i] /\ json[i].status = "complete"
        BY <3>1, <4>1 DEF Signal!Whole, Signal!Absent
      <4>3. Signal!Making(w) /\ Signal!MakerFits(w)
        BY <4>2 DEF Signal!SignalInv
      <4>. QED
        <5>1. Signal!CallFits(w)
          BY DEF Signal!SignalInv
        <5>2. pc[w] \in {"fill_json", "create_digest", "fill_digest", "undo_digest", "undo_json"}
          BY <4>1, <4>3, <5>1 DEF Signal!CallFits, Signal!Making, Signal!Preparing, Signal!Loading
        <5>3. CASE pc[w] = "fill_json"
          BY <4>2, <4>3, <5>3 DEF Signal!MakerFits, Signal!Torn
        <5>4. CASE pc[w] # "fill_json"
          BY <3>1, <4>2, <4>3, <5>2, <5>4 DEF Signal!MakerFits, Signal!Absent, Signal!Torn
        <5>. QED
          BY <5>3, <5>4
    <3>. QED
      BY <1>0, <1>1, <2>3, <3>1, <3>2 DEF Signal!Whole
  <2>. QED
    BY <2>2, <2>3
<1>6. Signal!QuietPairsAreWhole'
  <2>1. Signal!Quiet' => \A v \in Writers : ~ Signal!Making(v)'
    <3>1. ASSUME NEW v \in Writers, pc'[v] = "idle" PROVE ~ Signal!Making(v)'
      BY <1>1, <3>1 DEF Signal!CallFits, Signal!Making, Signal!Preparing, Signal!Loading
    <3>. QED
      BY <3>1 DEF Signal!Quiet
  <2>. QED
    BY <1>4, <2>1 DEF Signal!QuietPairsAreWhole, Signal!NothingIsHalf
<1>7. \A v \in Writers : DOMAIN seen'[v] = {"json", "digest"}
  BY DEF Signal!SignalInv, OthersCall
<1>8. /\ DOMAIN pc' = Writers /\ DOMAIN own' = Writers /\ DOMAIN made' = Writers
      /\ DOMAIN mode' = Writers /\ DOMAIN seen' = Writers /\ DOMAIN outcome' = Writers
  BY DEF OthersCall
<1>9. \A j \in Signal!SignalIds : json'[j] \in Signal!Stored(j) /\ digest'[j] \in Signal!Stored(j)
  BY <1>0 DEF Signal!SignalInv
<1>. QED
  BY <1>0, <1>1, <1>2, <1>3, <1>4, <1>5, <1>6, <1>7, <1>8, <1>9 DEF Signal!SignalInv, Signal!SignalPairsHold, Counted

(* Who reads and finds an error: a maker has its pair to undo then, and nobody makes one otherwise. *)
LEMMA RaiseStep ==
  ASSUME Signal!SignalInv, NEW w \in Writers, UNCHANGED <<json, digest>>, NEW answer, Signal!Raise(w, answer),
         answer # "created", Counted, pc[w] \notin {"idle", "fill_json", "fill_digest"}, pc[w] \notin {"undo_json", "undo_digest"},
         Signal!Making(w) => disturbances' # 0 /\ answer \notin Signal!Succeeded,
         disturbances' = 0 /\ answer \in Signal!Succeeded =>
           Signal!Whole(Signal!Id(w)) /\ json[Signal!Id(w)] = seen[w].json
  PROVE  Signal!SignalInv'
<1>1. /\ OthersCall(w) /\ own'[w] = own[w] /\ seen'[w] = seen[w] /\ outcome'[w] = answer /\ made'[w] = made[w]
      /\ pc'[w] = IF made[w] = {} THEN "idle" ELSE IF "digest" \in made[w] THEN "undo_digest" ELSE "undo_json"
  BY RaiseCall
<1>2. Signal!CallFits(w) /\ own[w] \in Signals
  BY DEF Signal!SignalInv, Signal!CallFits
<1>3. Signal!Making(w) <=> made[w] # {}
  BY <1>2 DEF Signal!CallFits, Signal!Making, Signal!Preparing, Signal!Loading
<1>4. CASE made[w] = {}
  <2>1. ~ Signal!Making(w)' /\ Signal!CallFits(w)'
    BY <1>1, <1>2, <1>4 DEF Signal!CallFits, Signal!Making
  <2>. QED
    BY <1>1, <1>3, <1>4, <2>1, BystanderStep
<1>5. CASE made[w] # {}
  <2>1. pc'[w] \in {"undo_digest", "undo_json"} /\ made'[w] \in {{"json"}, {"json", "digest"}}
    BY <1>1, <1>2, <1>5 DEF Signal!CallFits
  <2>2. Signal!CallFits(w)'
    BY <1>1, <1>2, <1>3, <1>5, <2>1 DEF Signal!CallFits
  <2>3. PICK i \in Signal!SignalIds : i = Signal!Id(w)
    BY <1>2 DEF Signal!SignalIds, Signal!Id
  <2>4. PICK a \in Signal!Stored(i), b \in Signal!Stored(i) : a = json[i] /\ b = digest[i]
    BY DEF Signal!SignalInv
  <2>5. Signal!Making(w) /\ a = Signal!Complete(own[w])
    BY <1>3, <1>5, <2>3, <2>4 DEF Signal!SignalInv, Signal!MakerFits
  <2>. QED
    BY <1>1, <1>3, <1>5, <2>1, <2>2, <2>3, <2>4, <2>5, MakerStep, Zenon
<1>. QED
  BY <1>4, <1>5

(* What a file holds tells whether it is there and whole. *)
LEMMA Statuses ==
  /\ Signal!Absent.status = "absent" /\ Signal!Torn.status = "torn"
  /\ \A s : Signal!Complete(s).status = "complete" /\ Signal!Complete(s).content = s
  /\ Signal!Absent # Signal!Torn /\ \A s : Signal!Complete(s) # Signal!Absent /\ Signal!Complete(s) # Signal!Torn
<1>1. /\ Signal!Absent.status = "absent" /\ Signal!Torn.status = "torn"
      /\ \A s : Signal!Complete(s).status = "complete" /\ Signal!Complete(s).content = s
  BY DEF Signal!Absent, Signal!Torn, Signal!Complete
<1>. QED
  BY <1>1

(* A call that runs is about a signal, whose files hold nothing, a torn file or a valid signal of that ID. *)
LEMMA RunningCall ==
  ASSUME Signal!SignalInv, NEW w \in Writers, pc[w] # "idle"
  PROVE  /\ own[w] \in Signals /\ Signal!Id(w) \in Signal!SignalIds
         /\ json[Signal!Id(w)] \in Signal!Stored(Signal!Id(w)) /\ digest[Signal!Id(w)] \in Signal!Stored(Signal!Id(w))
         /\ Signal!CallFits(w) /\ Signal!MakerFits(w)
<1>1. own[w] \in Signals /\ Signal!CallFits(w) /\ Signal!MakerFits(w)
  BY DEF Signal!SignalInv, Signal!CallFits
<1>2. Signal!Id(w) \in Signal!SignalIds
  BY <1>1 DEF Signal!Id, Signal!SignalIds
<1>. QED
  BY <1>1, <1>2 DEF Signal!SignalInv

(* Calls begin, and look before they write. *)
LEMMA BeginStep ==
  ASSUME Signal!SignalInv, NEW w \in Writers, NEW signal \in Signals, Signal!Write(w, signal) \/ Signal!Load(w, signal)
  PROVE  Signal!SignalInv'
<1>1. /\ OthersCall(w) /\ UNCHANGED <<json, digest>> /\ pc[w] = "idle" /\ own'[w] = signal /\ made'[w] = made[w]
      /\ pc'[w] \in {"look_json", "exists_json"}
  BY DEF Signal!SignalInv, Signal!Write, Signal!Load, Signal!Begin, Signal!Empty, Signal!files, OthersCall
<1>2. /\ pc'[w] = "look_json" => Signal!ValidSignal(signal) /\ mode'[w] = "none"
      /\ pc'[w] = "exists_json" => mode'[w] = "load"
  BY DEF Signal!SignalInv, Signal!Write, Signal!Load, Signal!Begin
<1>3. Signal!CallFits(w) /\ made[w] = {}
  BY <1>1 DEF Signal!SignalInv, Signal!CallFits, Signal!Preparing, Signal!Loading
<1>4. ~ Signal!Making(w) /\ ~ Signal!Making(w)'
  BY <1>1, <1>3 DEF Signal!Making
<1>5. Signal!CallFits(w)'
  BY <1>1, <1>2, <1>3 DEF Signal!CallFits, Signal!Preparing, Signal!Loading
<1>6. Counted
  BY FaultsCounted DEF Signal!Write, Signal!Load, Signal!Begin
<1>. QED
  BY <1>1, <1>4, <1>5, <1>6, BystanderStep

LEMMA LookStep ==
  ASSUME Signal!SignalInv, NEW w \in Writers, Signal!LookJson(w) \/ Signal!LookDigest(w)
  PROVE  Signal!SignalInv'
<1>1. /\ UNCHANGED <<json, digest>> /\ Counted /\ pc[w] \in {"look_json", "look_digest"}
  BY FaultsCounted, Zenon DEF Signal!LookJson, Signal!LookDigest, Signal!files
<1>2. own[w] \in Signals /\ made[w] = {} /\ Signal!ValidSignal(own[w]) /\ mode[w] = "none" /\ ~ Signal!Making(w)
  BY <1>1, RunningCall DEF Signal!CallFits, Signal!Making, Signal!Preparing, Signal!Loading
<1>3. CASE Signal!LookJson(w)
  <2>1. OthersCall(w) /\ own'[w] = own[w] /\ made'[w] = {} /\ mode'[w] = "none" /\ pc'[w] = "look_digest"
    BY <1>2, <1>3 DEF Signal!SignalInv, Signal!LookJson, OthersCall
  <2>2. ~ Signal!Making(w)' /\ Signal!CallFits(w)'
    BY <1>2, <2>1 DEF Signal!CallFits, Signal!Making, Signal!Preparing
  <2>. QED
    BY <1>1, <1>2, <2>1, <2>2, BystanderStep
<1>4. CASE Signal!LookDigest(w)
  <2>1. CASE Signal!Return(w, "integrity")
    <3>1. OthersCall(w) /\ own'[w] = own[w] /\ made'[w] = {} /\ pc'[w] = "idle" /\ outcome'[w] = "integrity"
      BY <2>1, ReturnCall
    <3>2. ~ Signal!Making(w)' /\ Signal!CallFits(w)'
      BY <1>2, <3>1 DEF Signal!CallFits, Signal!Making
    <3>. QED
      BY <1>1, <1>2, <3>1, <3>2, BystanderStep DEF Signal!Succeeded
  <2>2. CASE Signal!StartLoad(w, "existing") /\ UNCHANGED made
    <3>1. OthersCall(w) /\ own'[w] = own[w] /\ made'[w] = {} /\ pc'[w] = "exists_json" /\ mode'[w] = "existing"
      BY <1>2, <2>2, StartLoadCall
    <3>2. ~ Signal!Making(w)' /\ Signal!CallFits(w)'
      BY <1>2, <3>1 DEF Signal!CallFits, Signal!Making, Signal!Loading
    <3>. QED
      BY <1>1, <1>2, <3>1, <3>2, BystanderStep
  <2>3. CASE Signal!Goto(w, "create_json")
    <3>1. OthersCall(w) /\ own'[w] = own[w] /\ made'[w] = {} /\ pc'[w] = "create_json" /\ mode'[w] = "none"
      BY <1>2, <2>3, GotoCall
    <3>2. ~ Signal!Making(w)' /\ Signal!CallFits(w)'
      BY <1>2, <3>1 DEF Signal!CallFits, Signal!Making, Signal!Preparing
    <3>. QED
      BY <1>1, <1>2, <3>1, <3>2, BystanderStep
  <2>. QED
    BY <1>4, <2>1, <2>2, <2>3, Zenon DEF Signal!LookDigest
<1>. QED
  BY <1>3, <1>4

(* The pair is created and written. *)
LEMMA CreateStep ==
  ASSUME Signal!SignalInv, NEW w \in Writers, Signal!CreateJson(w) \/ Signal!FillJson(w)
  PROVE  Signal!SignalInv'
<1>1. UNCHANGED digest /\ Counted /\ pc[w] \in {"create_json", "fill_json"}
  BY FaultsCounted DEF Signal!CreateJson, Signal!FillJson
<1>2. own[w] \in Signals /\ made[w] = {} /\ Signal!ValidSignal(own[w]) /\ mode[w] = "none"
  BY <1>1, RunningCall DEF Signal!CallFits, Signal!Preparing, Signal!Loading
<1>3. PICK i \in Signal!SignalIds : i = Signal!Id(w)
  BY <1>1, RunningCall
<1>4. PICK b \in Signal!Stored(i) : b = digest[i]
  BY <1>1, <1>3, RunningCall
<1>5. /\ Signal!Torn \in Signal!Stored(i) /\ Signal!Complete(own[w]) \in Signal!Stored(i)
  BY <1>2, <1>3 DEF Signal!Stored, Signal!Id
<1>6. CASE Signal!CreateJson(w) /\ json[i] = Signal!Absent
  <2>1. json' = [json EXCEPT ![i] = Signal!Torn] /\ Signal!Goto(w, "fill_json") /\ pc[w] = "create_json"
    BY <1>3, <1>6 DEF Signal!CreateJson
  <2>2. OthersCall(w) /\ own'[w] = own[w] /\ made'[w] = {} /\ pc'[w] = "fill_json" /\ mode'[w] = "none"
    BY <1>2, <2>1, GotoCall
  <2>3. Signal!CallFits(w)' /\ Signal!Making(w)'
    BY <1>2, <2>2 DEF Signal!CallFits, Signal!Making, Signal!Preparing
  <2>4. disturbances' = 0 => b = Signal!Absent
    <3>1. ~ Signal!Making(w)
      BY <1>2, <2>1 DEF Signal!Making
    <3>2. \A v \in Writers : Signal!Making(v) => Signal!Id(v) # i
      <4>1. ASSUME NEW v \in Writers, Signal!Making(v), Signal!Id(v) = i PROVE FALSE
        BY <1>6, <4>1, Statuses DEF Signal!SignalInv, Signal!MakerFits
      <4>. QED
        BY <4>1
    <3>. QED
      BY <1>1, <1>4, <1>6, <3>2 DEF Signal!SignalInv, Signal!NothingIsHalf, Signal!Whole, Signal!Absent, Counted
  <2>. QED
    BY <1>1, <1>3, <1>4, <1>5, <1>6, <2>1, <2>2, <2>3, <2>4, MakerStep, Zenon
<1>7. CASE Signal!CreateJson(w) /\ json[i] # Signal!Absent
  <2>1. Signal!StartLoad(w, "existing") /\ UNCHANGED <<json, made>> /\ pc[w] = "create_json"
    BY <1>3, <1>7 DEF Signal!CreateJson
  <2>2. OthersCall(w) /\ own'[w] = own[w] /\ made'[w] = {} /\ pc'[w] = "exists_json" /\ mode'[w] = "existing"
    BY <1>2, <2>1, StartLoadCall
  <2>3. ~ Signal!Making(w) /\ ~ Signal!Making(w)' /\ Signal!CallFits(w)'
    BY <1>2, <2>1, <2>2 DEF Signal!CallFits, Signal!Making, Signal!Loading
  <2>. QED
    BY <1>1, <2>1, <2>2, <2>3, BystanderStep
<1>8. CASE Signal!FillJson(w)
  <2>1. PICK a \in Signal!Stored(i) : a = Signal!Complete(own[w])
    BY <1>5
  <2>2. /\ json' = [json EXCEPT ![i] = a] /\ pc[w] = "fill_json"
        /\ OthersCall(w) /\ own'[w] = own[w] /\ made'[w] = {"json"} /\ pc'[w] = "create_digest"
    BY <1>3, <1>8, <2>1 DEF Signal!FillJson, Signal!SignalInv, OthersCall
  <2>3. Signal!CallFits(w)' /\ Signal!Making(w)' /\ Signal!Making(w)
    BY <1>2, <2>2 DEF Signal!CallFits, Signal!Making
  <2>4. disturbances' = 0 => b = Signal!Absent
    BY <1>1, <1>3, <1>4, <2>2, <2>3, RunningCall DEF Signal!MakerFits, Counted
  <2>. QED
    BY <1>1, <1>3, <1>4, <2>1, <2>2, <2>3, <2>4, MakerStep, Zenon
<1>. QED
  BY <1>6, <1>7, <1>8

LEMMA DigestStep ==
  ASSUME Signal!SignalInv, NEW w \in Writers, Signal!CreateDigest(w) \/ Signal!FillDigest(w)
  PROVE  Signal!SignalInv'
<1>1. UNCHANGED json /\ Counted /\ pc[w] \in {"create_digest", "fill_digest"}
  BY FaultsCounted DEF Signal!CreateDigest, Signal!FillDigest
<1>2. /\ own[w] \in Signals /\ made[w] = {"json"} /\ Signal!ValidSignal(own[w]) /\ Signal!Making(w)
      /\ json[Signal!Id(w)] = Signal!Complete(own[w])
      /\ disturbances = 0 => digest[Signal!Id(w)] = IF pc[w] = "create_digest" THEN Signal!Absent ELSE Signal!Torn
  BY <1>1, RunningCall DEF Signal!CallFits, Signal!MakerFits, Signal!Making, Signal!Preparing, Signal!Loading
<1>3. PICK i \in Signal!SignalIds : i = Signal!Id(w)
  BY <1>1, RunningCall
<1>4. PICK a \in Signal!Stored(i) : a = json[i] /\ a = Signal!Complete(own[w])
  BY <1>1, <1>2, <1>3, RunningCall
<1>5. CASE Signal!CreateDigest(w) /\ digest[i] = Signal!Absent
  <2>1. PICK b \in Signal!Stored(i) : b = Signal!Torn
    BY DEF Signal!Stored
  <2>2. digest' = [digest EXCEPT ![i] = b] /\ Signal!Goto(w, "fill_digest") /\ pc[w] = "create_digest"
    BY <1>3, <1>5, <2>1 DEF Signal!CreateDigest
  <2>3. OthersCall(w) /\ own'[w] = own[w] /\ made'[w] = {"json"} /\ pc'[w] = "fill_digest"
    BY <1>2, <2>2, GotoCall
  <2>4. Signal!CallFits(w)' /\ Signal!Making(w)'
    BY <1>2, <2>3 DEF Signal!CallFits, Signal!Making
  <2>. QED
    BY <1>1, <1>2, <1>3, <1>4, <2>1, <2>2, <2>3, <2>4, MakerStep, Zenon
<1>6. CASE Signal!CreateDigest(w) /\ digest[i] # Signal!Absent
  <2>1. UNCHANGED <<json, digest>> /\ Signal!Raise(w, "integrity") /\ pc[w] = "create_digest"
    BY <1>1, <1>3, <1>6 DEF Signal!CreateDigest
  <2>2. disturbances' # 0
    BY <1>1, <1>2, <1>3, <1>6, <2>1 DEF Counted
  <2>. QED
    BY <1>1, <2>1, <2>2, RaiseStep DEF Signal!Succeeded
<1>7. CASE Signal!FillDigest(w)
  <2>1. PICK b \in Signal!Stored(i) : b = a
    OBVIOUS
  <2>2. /\ digest' = [digest EXCEPT ![i] = b] /\ Signal!StartLoad(w, "verify") /\ pc[w] = "fill_digest"
        /\ made' = [made EXCEPT ![w] = {"json", "digest"}]
    BY <1>2, <1>3, <1>4, <1>7, <2>1 DEF Signal!FillDigest
  <2>3. OthersCall(w) /\ own'[w] = own[w] /\ made'[w] = {"json", "digest"} /\ pc'[w] = "exists_json" /\ mode'[w] = "verify"
    BY <2>2, StartLoadCall, Zenon
  <2>4. Signal!CallFits(w)' /\ Signal!Making(w)'
    BY <1>2, <2>3 DEF Signal!CallFits, Signal!Making, Signal!Loading
  <2>. QED
    BY <1>1, <1>2, <1>3, <1>4, <2>1, <2>2, <2>3, <2>4, MakerStep, Zenon
<1>. QED
  BY <1>5, <1>6, <1>7

(* A process that loads is the maker of its pair just when it verifies what it has written. *)
LEMMA LoadingCall ==
  ASSUME Signal!SignalInv, NEW w \in Writers, pc[w] \in Signal!Loading
  PROVE  /\ own[w] \in Signals
         /\ Signal!Making(w) <=> mode[w] = "verify"
         /\ mode[w] \in {"load", "existing", "verify"}
         /\ mode[w] # "verify" => made[w] = {}
         /\ mode[w] = "verify" =>
              /\ made[w] = {"json", "digest"} /\ Signal!ValidSignal(own[w])
              /\ pc[w] # "exists_json" => seen[w].json = Signal!Complete(own[w])
              /\ json[Signal!Id(w)] = Signal!Complete(own[w])
              /\ disturbances = 0 => digest[Signal!Id(w)] = Signal!Complete(own[w])
<1>1. own[w] \in Signals /\ Signal!CallFits(w) /\ Signal!MakerFits(w)
  BY RunningCall DEF Signal!Loading
<1>2. /\ Signal!Making(w) <=> mode[w] = "verify"
      /\ mode[w] \in {"load", "existing", "verify"}
      /\ mode[w] # "verify" => made[w] = {}
      /\ mode[w] = "verify" =>
           /\ made[w] = {"json", "digest"} /\ Signal!ValidSignal(own[w])
           /\ pc[w] # "exists_json" => seen[w].json = Signal!Complete(own[w])
  BY <1>1 DEF Signal!CallFits, Signal!Making, Signal!Loading, Signal!Preparing
<1>3. ASSUME mode[w] = "verify" PROVE json[Signal!Id(w)] = Signal!Complete(own[w])
                                      /\ (disturbances = 0 => digest[Signal!Id(w)] = Signal!Complete(own[w]))
  BY <1>1, <1>2, <1>3 DEF Signal!MakerFits, Signal!Loading
<1>. QED
  BY <1>1, <1>2, <1>3

(* A load that raises. *)
LEMMA LoadRaisesStep ==
  ASSUME Signal!SignalInv, NEW w \in Writers, pc[w] \in Signal!Loading, UNCHANGED <<json, digest>>, Counted,
         NEW answer \in {"not_found", "integrity", "read_error"}, Signal!LoadRaises(w, answer),
         mode[w] = "verify" => disturbances' # 0
  PROVE  Signal!SignalInv'
<1>1. PICK raised \in {"write_error", "integrity", "not_found", "read_error"} : Signal!Raise(w, raised)
  BY DEF Signal!LoadRaises
<1>2. Signal!Making(w) => disturbances' # 0
  BY LoadingCall
<1>. QED
  BY <1>1, <1>2, RaiseStep DEF Signal!Loading, Signal!Succeeded

(* A load that goes on. *)
LEMMA LoadGoesOn ==
  ASSUME Signal!SignalInv, NEW w \in Writers, pc[w] \in Signal!Loading, UNCHANGED <<json, digest>>, Counted,
         OthersCall(w), own'[w] = own[w], made'[w] = made[w], mode'[w] = mode[w],
         pc'[w] \in Signal!Loading \ {"exists_json"},
         seen'[w].json = json[Signal!Id(w)] \/ (pc[w] # "exists_json" /\ seen'[w].json = seen[w].json)
  PROVE  Signal!SignalInv'
<1>1. CASE mode[w] # "verify"
  <2>1. ~ Signal!Making(w) /\ ~ Signal!Making(w)' /\ Signal!CallFits(w)' /\ pc'[w] # "idle"
    BY <1>1, LoadingCall DEF Signal!CallFits, Signal!Making, Signal!Loading
  <2>. QED
    BY <2>1, BystanderStep
<1>2. CASE mode[w] = "verify"
  <2>1. Signal!Making(w) /\ Signal!Making(w)' /\ Signal!CallFits(w)' /\ pc'[w] \in {"exists_digest", "read_json", "read_digest"}
    BY <1>2, LoadingCall DEF Signal!CallFits, Signal!Making, Signal!Loading
  <2>2. PICK i \in Signal!SignalIds : i = Signal!Id(w)
    BY RunningCall DEF Signal!Loading
  <2>3. PICK a \in Signal!Stored(i), b \in Signal!Stored(i) : a = json[i] /\ b = digest[i]
    BY DEF Signal!SignalInv
  <2>4. a = Signal!Complete(own[w]) /\ (disturbances' = 0 => b = a)
    BY <1>2, <2>2, <2>3, LoadingCall DEF Counted
  <2>. QED
    BY <2>1, <2>2, <2>3, <2>4, MakerStep, Zenon
<1>. QED
  BY <1>1, <1>2

LEMMA ExistsStep ==
  ASSUME Signal!SignalInv, NEW w \in Writers, Signal!ExistsJson(w) \/ Signal!ExistsDigest(w)
  PROVE  Signal!SignalInv'
<1>1. /\ UNCHANGED <<json, digest>> /\ Counted /\ pc[w] \in {"exists_json", "exists_digest"} /\ pc[w] \in Signal!Loading
  BY FaultsCounted, Zenon DEF Signal!ExistsJson, Signal!ExistsDigest, Signal!files, Signal!Loading
<1>2. CASE Signal!ExistsJson(w)
  <2>1. /\ OthersCall(w) /\ own'[w] = own[w] /\ made'[w] = made[w] /\ mode'[w] = mode[w] /\ pc'[w] = "exists_digest"
        /\ seen'[w].json = json[Signal!Id(w)]
    BY <1>2 DEF Signal!SignalInv, Signal!ExistsJson, OthersCall
  <2>. QED
    BY <1>1, <2>1, LoadGoesOn DEF Signal!Loading
<1>3. CASE Signal!ExistsDigest(w)
  <2>0. pc[w] = "exists_digest"
    BY <1>3 DEF Signal!ExistsDigest
  <2>1. CASE Signal!Goto(w, "read_json")
    <3>1. OthersCall(w) /\ own'[w] = own[w] /\ made'[w] = made[w] /\ mode'[w] = mode[w] /\ pc'[w] = "read_json" /\ seen'[w] = seen[w]
      BY <2>1, GotoCall
    <3>. QED
      BY <1>1, <2>0, <3>1, LoadGoesOn DEF Signal!Loading
  <2>2. ASSUME NEW answer \in {"not_found", "integrity"}, Signal!LoadRaises(w, answer),
               ~ (seen[w].json # Signal!Absent /\ digest[Signal!Id(w)] # Signal!Absent)
        PROVE  Signal!SignalInv'
    <3>1. mode[w] = "verify" => disturbances' # 0
      BY <1>1, <2>0, <2>2, LoadingCall, Statuses DEF Counted
    <3>. QED
      BY <1>1, <2>2, <3>1, LoadRaisesStep
  <2>. QED
    BY <1>3, <2>1, <2>2, Zenon DEF Signal!ExistsDigest
<1>. QED
  BY <1>2, <1>3

(* Without failures, a digest that a pair's reader finds complete is that of the JSON file. *)
LEMMA ReadWhole ==
  ASSUME Signal!SignalInv, Counted, disturbances' = 0, NEW w \in Writers, ~ Signal!Making(w), Signal!Id(w) \in Signal!SignalIds,
         digest[Signal!Id(w)].status = "complete", digest[Signal!Id(w)] = seen[w].json
  PROVE  Signal!Whole(Signal!Id(w)) /\ json[Signal!Id(w)] = seen[w].json
<1>1. CASE \E v \in Writers : Signal!Making(v) /\ Signal!Id(v) = Signal!Id(w)
  <2>1. PICK v \in Writers : Signal!Making(v) /\ Signal!Id(v) = Signal!Id(w)
    BY <1>1
  <2>2. Signal!MakerFits(v) /\ Signal!CallFits(v) /\ disturbances = 0
    BY DEF Signal!SignalInv, Counted
  <2>3. digest[Signal!Id(w)] = Signal!Complete(own[v]) /\ pc[v] # "fill_json"
    BY <2>1, <2>2, Statuses DEF Signal!MakerFits
  <2>4. json[Signal!Id(w)] = Signal!Complete(own[v])
    BY <2>1, <2>2, <2>3 DEF Signal!MakerFits
  <2>. QED
    BY <2>3, <2>4, Statuses DEF Signal!Whole
<1>2. CASE ~ \E v \in Writers : Signal!Making(v) /\ Signal!Id(v) = Signal!Id(w)
  BY <1>2, Statuses DEF Signal!SignalInv, Signal!NothingIsHalf, Counted, Signal!Whole
<1>. QED
  BY <1>1, <1>2

LEMMA ReadStep ==
  ASSUME Signal!SignalInv, NEW w \in Writers, Signal!ReadJson(w) \/ Signal!ReadDigest(w)
  PROVE  Signal!SignalInv'
<1>1. /\ UNCHANGED <<json, digest>> /\ Counted /\ pc[w] \in {"read_json", "read_digest"} /\ pc[w] \in Signal!Loading
  BY FaultsCounted, Zenon DEF Signal!ReadJson, Signal!ReadDigest, Signal!files, Signal!Loading
<1>2. CASE Signal!ReadJson(w) /\ json[Signal!Id(w)] # Signal!Absent
  <2>1. /\ OthersCall(w) /\ own'[w] = own[w] /\ made'[w] = made[w] /\ mode'[w] = mode[w] /\ pc'[w] = "read_digest"
        /\ seen'[w].json = json[Signal!Id(w)]
    BY <1>2 DEF Signal!SignalInv, Signal!ReadJson, OthersCall
  <2>. QED
    BY <1>1, <2>1, LoadGoesOn DEF Signal!Loading
<1>3. CASE Signal!ReadJson(w) /\ json[Signal!Id(w)] = Signal!Absent
  <2>1. mode[w] # "verify"
    BY <1>1, <1>3, LoadingCall, Statuses
  <2>. QED
    BY <1>1, <1>3, <2>1, LoadRaisesStep DEF Signal!ReadJson
<1>4. CASE Signal!ReadDigest(w)
  <2>0. /\ pc[w] = "read_digest" /\ Signal!Id(w) \in Signal!SignalIds
        /\ digest[Signal!Id(w)] \in Signal!Stored(Signal!Id(w)) /\ json[Signal!Id(w)] \in Signal!Stored(Signal!Id(w))
    BY <1>4, RunningCall DEF Signal!ReadDigest
  <2>1. ASSUME NEW answer \in {"read_error", "integrity"}, Signal!LoadRaises(w, answer),
               ~ (digest[Signal!Id(w)].status = "complete" /\ digest[Signal!Id(w)] = seen[w].json)
        PROVE  Signal!SignalInv'
    <3>1. mode[w] = "verify" => disturbances' # 0
      BY <1>1, <2>0, <2>1, LoadingCall, Statuses DEF Counted
    <3>. QED
      BY <1>1, <2>1, <3>1, LoadRaisesStep
  <2>2. CASE digest[Signal!Id(w)].status = "complete" /\ digest[Signal!Id(w)] = seen[w].json
    <3>1. CASE mode[w] = "load"
      <4>1. Signal!Return(w, "loaded") /\ ~ Signal!Making(w)
        BY <1>1, <1>4, <2>2, <3>1, LoadingCall DEF Signal!ReadDigest
      <4>2. OthersCall(w) /\ own'[w] = own[w] /\ pc'[w] = "idle" /\ made'[w] = {} /\ seen'[w] = seen[w] /\ outcome'[w] = "loaded"
        BY <4>1, ReturnCall
      <4>3. ~ Signal!Making(w)' /\ Signal!CallFits(w)'
        BY <1>1, <4>2, LoadingCall DEF Signal!CallFits, Signal!Making
      <4>4. Counted /\ disturbances' = 0 => Signal!Whole(Signal!Id(w)) /\ json[Signal!Id(w)] = seen'[w].json
        BY <2>0, <2>2, <4>2, ReadWhole, <4>1
      <4>. QED
        BY <1>1, <4>1, <4>2, <4>3, <4>4, BystanderStep
    <3>2. CASE mode[w] = "existing"
      <4>1. PICK answer \in {"existing", "conflict"} : Signal!Raise(w, answer)
        BY <1>4, <2>2, <3>2 DEF Signal!ReadDigest
      <4>2. ~ Signal!Making(w)
        BY <1>1, <3>2, LoadingCall
      <4>3. disturbances' = 0 => Signal!Whole(Signal!Id(w)) /\ json[Signal!Id(w)] = seen[w].json
        BY <1>1, <2>0, <2>2, <4>2, ReadWhole
      <4>. QED
        BY <1>1, <4>1, <4>2, <4>3, RaiseStep
    <3>3. CASE mode[w] = "verify"
      <4>1. /\ Signal!Return(w, "created") /\ seen[w].json = Signal!Complete(own[w]) /\ json[Signal!Id(w)] = Signal!Complete(own[w])
            /\ Signal!Making(w)
        BY <1>1, <1>4, <2>0, <2>2, <3>3, LoadingCall DEF Signal!ReadDigest
      <4>2. OthersCall(w) /\ own'[w] = own[w] /\ pc'[w] = "idle" /\ made'[w] = {} /\ seen'[w] = seen[w] /\ outcome'[w] = "created"
        BY <4>1, ReturnCall
      <4>3. ~ Signal!Making(w)' /\ Signal!CallFits(w)'
        BY <1>1, <4>2, LoadingCall DEF Signal!CallFits, Signal!Making
      <4>4. PICK i \in Signal!SignalIds : i = Signal!Id(w)
        BY <2>0
      <4>5. PICK a \in Signal!Stored(i) : a = json[i] /\ a = digest[i]
        BY <2>0, <2>2, <4>1, <4>4
      <4>6. a = Signal!Complete(own[w]) /\ a.status = "complete"
        BY <2>2, <4>1, <4>4, <4>5
      <4>. QED
        BY <1>1, <4>1, <4>2, <4>3, <4>4, <4>5, <4>6, MakerStep, Zenon
    <3>. QED
      BY <1>1, <3>1, <3>2, <3>3, LoadingCall
  <2>. QED
    BY <1>4, <2>1, <2>2, Zenon DEF Signal!ReadDigest
<1>. QED
  BY <1>2, <1>3, <1>4

(* What is undone is one's own: only after a failure, so that nothing is said of what it leaves. *)
LEMMA UndoStep ==
  ASSUME Signal!SignalInv, NEW w \in Writers, Signal!UndoDigest(w) \/ Signal!UndoJson(w) \/ Signal!UndoFails(w)
  PROVE  Signal!SignalInv'
<1>1. Counted /\ pc[w] \in {"undo_digest", "undo_json"}
  BY FaultsCounted DEF Signal!UndoDigest, Signal!UndoJson, Signal!UndoFails
<1>2. /\ own[w] \in Signals /\ made[w] \in {{"json"}, {"json", "digest"}} /\ outcome[w] \notin Signal!Succeeded
      /\ Signal!Making(w) /\ json[Signal!Id(w)] = Signal!Complete(own[w]) /\ disturbances # 0
  <2>1. Signal!CallFits(w) /\ Signal!MakerFits(w) /\ own[w] \in Signals
    BY <1>1, RunningCall
  <2>2. made[w] \in {{"json"}, {"json", "digest"}} /\ outcome[w] \notin Signal!Succeeded
    BY <1>1, <2>1 DEF Signal!CallFits, Signal!Preparing, Signal!Loading
  <2>. QED
    BY <1>1, <2>1, <2>2 DEF Signal!MakerFits, Signal!Making
<1>3. PICK i \in Signal!SignalIds : i = Signal!Id(w)
  BY <1>1, RunningCall
<1>4. /\ json[i] \in Signal!Stored(i) /\ digest[i] \in Signal!Stored(i) /\ Signal!Absent \in Signal!Stored(i)
      /\ json[i] = Signal!Complete(own[w]) /\ disturbances' # 0
  BY <1>1, <1>2, <1>3, RunningCall DEF Counted, Signal!Stored
<1>5. CASE Signal!Goto(w, "undo_json")
  <2>1. OthersCall(w) /\ own'[w] = own[w] /\ made'[w] = made[w] /\ pc'[w] = "undo_json" /\ outcome'[w] = outcome[w]
    BY <1>5, GotoCall
  <2>2. Signal!CallFits(w)' /\ Signal!Making(w)'
    BY <1>2, <2>1 DEF Signal!CallFits, Signal!Making
  <2>3. PICK b \in Signal!Stored(i) : UNCHANGED json /\ (digest' = [digest EXCEPT ![i] = b] \/ (UNCHANGED digest /\ b = digest[i]))
    <3>1. pc[w] = "undo_digest" \/ UNCHANGED <<json, digest>>
      BY <1>1, <1>5, <2>1 DEF Signal!UndoDigest, Signal!UndoJson, Signal!UndoFails, Signal!Return, Signal!files, Signal!SignalInv
    <3>2. UNCHANGED json /\ (digest' = [digest EXCEPT ![i] = Signal!Absent] \/ UNCHANGED digest)
      BY <1>3, <3>1, <2>1, ReturnCall DEF Signal!UndoDigest, Signal!UndoJson, Signal!UndoFails, Signal!files
    <3>. QED
      BY <1>4, <3>2
  <2>4. PICK a \in Signal!Stored(i) : a = json[i] /\ a = Signal!Complete(own[w])
    BY <1>4
  <2>. QED
    BY <1>1, <1>2, <1>3, <1>4, <2>1, <2>2, <2>3, <2>4, MakerStep
<1>6. ASSUME NEW answer, answer = outcome[w], Signal!Return(w, answer) PROVE Signal!SignalInv'
  <2>1. OthersCall(w) /\ own'[w] = own[w] /\ made'[w] = {} /\ pc'[w] = "idle" /\ outcome'[w] = answer
    BY <1>6, ReturnCall
  <2>2. Signal!CallFits(w)' /\ ~ Signal!Making(w)' /\ answer # "created"
    BY <1>2, <1>6, <2>1 DEF Signal!CallFits, Signal!Making, Signal!Succeeded
  <2>3. PICK a \in Signal!Stored(i) : UNCHANGED digest /\ (json' = [json EXCEPT ![i] = a] \/ (UNCHANGED json /\ a = json[i]))
    <3>1. UNCHANGED digest /\ (json' = [json EXCEPT ![i] = Signal!Absent] \/ UNCHANGED json)
      BY <1>3, <2>1, GotoCall DEF Signal!UndoDigest, Signal!UndoJson, Signal!UndoFails, Signal!files
    <3>. QED
      BY <1>4, <3>1
  <2>4. PICK b \in Signal!Stored(i) : b = digest[i]
    BY <1>4
  <2>. QED
    BY <1>1, <1>2, <1>3, <1>4, <2>1, <2>2, <2>3, <2>4, MakerStep
<1>. QED
  BY <1>5, <1>6 DEF Signal!UndoDigest, Signal!UndoJson, Signal!UndoFails

(* Failing file operations. *)
LEMMA FaultStep ==
  ASSUME Signal!SignalInv, NEW w \in Writers, Signal!ReadFails(w) \/ Signal!CreateFails(w) \/ Signal!FillFails(w)
  PROVE  Signal!SignalInv'
<1>1. Counted /\ disturbances' # 0
  BY FaultsCounted DEF Signal!ReadFails, Signal!CreateFails, Signal!FillFails
<1>2. CASE Signal!ReadFails(w)
  <2>1. UNCHANGED <<json, digest>> /\ pc[w] \in Signal!Reading
    BY <1>2 DEF Signal!ReadFails, Signal!files
  <2>2. PICK raised \in {"write_error", "read_error"} : Signal!Raise(w, raised)
    BY <1>2 DEF Signal!ReadFails, Signal!LoadRaises
  <2>. QED
    BY <1>1, <2>1, <2>2, RaiseStep DEF Signal!Reading, Signal!Succeeded
<1>3. CASE Signal!CreateFails(w)
  BY <1>1, <1>3, RaiseStep DEF Signal!CreateFails, Signal!files, Signal!Succeeded
<1>4. CASE Signal!FillFails(w)
  <2>1. pc[w] \in {"fill_json", "fill_digest"} /\ Signal!Raise(w, "write_error")
    BY <1>4 DEF Signal!FillFails
  <2>2. PICK i \in Signal!SignalIds : i = Signal!Id(w)
    BY <2>1, RunningCall
  <2>3. /\ json[i] \in Signal!Stored(i) /\ digest[i] \in Signal!Stored(i) /\ Signal!Absent \in Signal!Stored(i)
        /\ Signal!CallFits(w) /\ Signal!MakerFits(w) /\ own[w] \in Signals /\ Signal!Making(w)
    BY <2>1, <2>2, RunningCall DEF Signal!Stored, Signal!Making
  <2>4. /\ OthersCall(w) /\ own'[w] = own[w] /\ outcome'[w] = "write_error" /\ made'[w] = made[w]
        /\ pc'[w] = IF made[w] = {} THEN "idle" ELSE IF "digest" \in made[w] THEN "undo_digest" ELSE "undo_json"
    BY <2>1, RaiseCall
  <2>5. CASE pc[w] = "fill_json"
    <3>1. made[w] = {}
      BY <2>3, <2>5 DEF Signal!CallFits, Signal!Preparing, Signal!Loading
    <3>2. Signal!CallFits(w)' /\ ~ Signal!Making(w)' /\ pc'[w] = "idle"
      BY <2>3, <2>4, <3>1 DEF Signal!CallFits, Signal!Making
    <3>3. PICK a \in Signal!Stored(i) : json' = [json EXCEPT ![i] = a] \/ (UNCHANGED json /\ a = json[i])
      BY <1>4, <2>2, <2>3, <2>5 DEF Signal!FillFails
    <3>4. PICK b \in Signal!Stored(i) : UNCHANGED digest /\ b = digest[i]
      BY <1>4, <2>3, <2>5 DEF Signal!FillFails
    <3>. QED
      BY <1>1, <2>2, <2>3, <2>4, <2>5, <3>2, <3>3, <3>4, MakerStep
  <2>6. CASE pc[w] = "fill_digest"
    <3>1. made[w] = {"json"} /\ json[i] = Signal!Complete(own[w])
      BY <2>2, <2>3, <2>6 DEF Signal!CallFits, Signal!MakerFits, Signal!Preparing, Signal!Loading
    <3>2. Signal!CallFits(w)' /\ Signal!Making(w)' /\ pc'[w] = "undo_json"
      BY <2>3, <2>4, <3>1 DEF Signal!CallFits, Signal!Making, Signal!Succeeded
    <3>3. PICK b \in Signal!Stored(i) : digest' = [digest EXCEPT ![i] = b] \/ (UNCHANGED digest /\ b = digest[i])
      BY <1>4, <2>2, <2>3, <2>6 DEF Signal!FillFails
    <3>4. PICK a \in Signal!Stored(i) : UNCHANGED json /\ a = json[i]
      BY <1>4, <2>3, <2>6 DEF Signal!FillFails
    <3>. QED
      BY <1>1, <2>2, <2>3, <2>4, <2>6, <3>1, <3>2, <3>3, <3>4, MakerStep
  <2>. QED
    BY <2>1, <2>5, <2>6
<1>. QED
  BY <1>2, <1>3, <1>4

(* A crash leaves the files as they are. *)
LEMMA CrashStep ==
  ASSUME Signal!SignalInv, NEW w \in Writers, Signal!Crash(w)
  PROVE  Signal!SignalInv'
<1>1. Counted /\ disturbances' # 0 /\ UNCHANGED <<json, digest>> /\ pc[w] # "idle" /\ Signal!Return(w, "crashed")
  BY FaultsCounted DEF Signal!Crash, Signal!files
<1>2. OthersCall(w) /\ own'[w] = own[w] /\ made'[w] = {} /\ pc'[w] = "idle" /\ outcome'[w] = "crashed"
  BY <1>1, ReturnCall
<1>3. Signal!CallFits(w)' /\ ~ Signal!Making(w)'
  BY <1>1, <1>2, RunningCall DEF Signal!CallFits, Signal!Making, Signal!Succeeded
<1>4. CASE Signal!Making(w)
  <2>1. PICK i \in Signal!SignalIds : i = Signal!Id(w)
    BY <1>1, RunningCall
  <2>2. PICK a \in Signal!Stored(i), b \in Signal!Stored(i) : a = json[i] /\ b = digest[i]
    BY <1>1, <2>1, RunningCall
  <2>. QED
    BY <1>1, <1>2, <1>3, <1>4, <2>1, <2>2, MakerStep
<1>5. CASE ~ Signal!Making(w)
  BY <1>1, <1>2, <1>3, <1>5, BystanderStep
<1>. QED
  BY <1>4, <1>5

LEMMA SignalStep == Signal!SignalInv /\ Signal!Next => Signal!SignalInv'
BY BeginStep, LookStep, CreateStep, DigestStep, ExistsStep, ReadStep, UndoStep, FaultStep, CrashStep DEF Signal!Next, Signal!Step

-----------------------------------------------------------------------------
(* What can be done with a stored signal. *)

(* Natural numbers are well-ordered. *)
LEMMA LeastExists ==
  ASSUME NEW S \in SUBSET Nat, S # {}
  PROVE  \E n \in S : \A m \in S : n <= m
<1>1. PICK n \in S : \A m \in S : ~ (<<m, n>> \in OpToRel(<,Nat))
  BY NatLessThanWellFounded, WFMin, Zenon
<1>2. \A m \in S : ~ (m < n)
  BY <1>1, Zenon DEF OpToRel
<1>. QED
  BY <1>2

LEMMA SignalCardinality == \A S : Signal!Cardinality(S) = Cardinality(S)
<1>1. ASSUME NEW S PROVE Signal!Cardinality(S) = Cardinality(S)
  BY Zenon DEF Signal!Cardinality, Cardinality
<1>. QED
  BY <1>1

LEMMA ExportsAreValid ==
  ASSUME NEW signal \in Signals, Signal!ValidSignal(signal), NEW d \in signal.dimensions
  PROVE  LET document == Signal!ToCsv(signal, d)
         IN /\ Signal!ValidDocument(document)
            /\ document.signal_set_id = signal.signal_set_id /\ document.class_id = signal.class_id
            /\ document.created_at = signal.created_at /\ document.dimension = d
            /\ document.rows = {[student_id |-> b.student_id, band |-> b.band] : b \in Signal!Entries(signal, d.dimension_id)}
            /\ document.scope # "dimension_projection" => signal.dimensions = {d}
<1>. DEFINE document == Signal!ToCsv(signal, d)
            bands == Signal!Entries(signal, d.dimension_id)
<1>1. /\ document.signal_set_id = signal.signal_set_id /\ document.class_id = signal.class_id
      /\ document.created_at = signal.created_at /\ document.dimension = d
      /\ document.rows = {[student_id |-> b.student_id, band |-> b.band] : b \in bands}
      /\ document.scope = IF Cardinality(signal.dimensions) = 1 THEN "complete_signal" ELSE "dimension_projection"
  BY SignalCardinality DEF Signal!ToCsv, Signal!Scope
<1>2. bands # {}
  BY DEF Signal!ValidSignal, Signal!DimensionIds
<1>3. \A a, b \in bands : a.student_id = b.student_id => a = b
  BY DEF Signal!ValidSignal, Signal!Entries
<1>4. ASSUME NEW b \in bands PROVE b.band \in 1 .. d.band_count
  BY <1>4 DEF Signal!ValidSignal, Signal!Entries
<1>5. Signal!ValidDocument(document)
  <2>. HIDE DEF document, bands
  <2>1. document.rows # {}
    BY <1>1, <1>2, Zenon
  <2>2. ASSUME NEW r \in document.rows, NEW q \in document.rows, r.student_id = q.student_id PROVE r = q
    <3>1. PICK a \in bands : r = [student_id |-> a.student_id, band |-> a.band]
      BY <1>1
    <3>2. PICK b \in bands : q = [student_id |-> b.student_id, band |-> b.band]
      BY <1>1
    <3>3. a.student_id = b.student_id
      BY <2>2, <3>1, <3>2
    <3>. QED
      BY <1>3, <3>1, <3>2, <3>3
  <2>3. ASSUME NEW r \in document.rows PROVE r.band \in 1 .. document.dimension.band_count
    <3>1. PICK a \in bands : r = [student_id |-> a.student_id, band |-> a.band]
      BY <1>1
    <3>. QED
      BY <1>1, <1>4, <3>1
  <2>. QED
    BY <2>1, <2>2, <2>3 DEF Signal!ValidDocument
<1>6. Cardinality(signal.dimensions) = 1 => signal.dimensions = {d}
  <2>1. IsFiniteSet(signal.dimensions)
    BY SignalsAssumption
  <2>. QED
    BY <2>1, FS_Singleton
<1>. QED
  BY <1>1, <1>5, <1>6

LEMMA ImportsAreValid ==
  ASSUME NEW document, Signal!ValidDocument(document), document.dimension.band_count >= 2, NEW new
  PROVE  LET d == document.dimension
             imported == [signal_set_id |-> new[1], class_id |-> document.class_id, created_at |-> new[2], dimensions |-> {d},
                          student_bands |-> {[student_id |-> r.student_id, dimension_id |-> d.dimension_id, band |-> r.band] : r \in document.rows}]
         IN Signal!ValidSignal(imported)
<1>. DEFINE d == document.dimension
            bands == {[student_id |-> r.student_id, dimension_id |-> d.dimension_id, band |-> r.band] : r \in document.rows}
            imported == [signal_set_id |-> new[1], class_id |-> document.class_id, created_at |-> new[2], dimensions |-> {d}, student_bands |-> bands]
<1>1. imported.dimensions = {d} /\ imported.student_bands = bands
  OBVIOUS
<1>2. ASSUME NEW b \in bands
      PROVE  \E r \in document.rows : b.student_id = r.student_id /\ b.dimension_id = d.dimension_id /\ b.band = r.band
                                      /\ b = [student_id |-> r.student_id, dimension_id |-> d.dimension_id, band |-> r.band]
  OBVIOUS
<1>3. bands # {}
  BY Zenon DEF Signal!ValidDocument
<1>4. ASSUME NEW a \in bands, NEW b \in bands, a.student_id = b.student_id PROVE a = b
  <2>1. PICK r \in document.rows : a.student_id = r.student_id
                                   /\ a = [student_id |-> r.student_id, dimension_id |-> d.dimension_id, band |-> r.band]
    BY <1>2
  <2>2. PICK q \in document.rows : b.student_id = q.student_id
                                   /\ b = [student_id |-> q.student_id, dimension_id |-> d.dimension_id, band |-> q.band]
    BY <1>2
  <2>3. r = q
    BY <1>4, <2>1, <2>2, Zenon DEF Signal!ValidDocument
  <2>. QED
    BY <2>1, <2>2, <2>3
<1>5. ASSUME NEW b \in bands PROVE b.dimension_id = d.dimension_id /\ b.band \in 1 .. d.band_count
  BY <1>2 DEF Signal!ValidDocument
<1>6. Signal!DimensionIds(imported) = {d.dimension_id} /\ Signal!Entries(imported, d.dimension_id) = bands
  <2>. HIDE DEF bands, imported
  <2>. QED
    BY <1>1, <1>5 DEF Signal!DimensionIds, Signal!Entries
<1>. HIDE DEF bands, imported
<1>7. Signal!ValidSignal(imported)
  BY <1>1, <1>3, <1>4, <1>5, <1>6 DEF Signal!ValidSignal
<1>. QED
  BY <1>7 DEF bands, imported

LEMMA ImportsKeepIdentity ==
  ASSUME NEW signal \in Signals, Signal!ValidSignal(signal), NEW ids, NEW times
  PROVE  Signal!ImportKeepsIdentity(signal, ids, times)
<1>1. SUFFICES ASSUME NEW d \in signal.dimensions
               PROVE  LET document == Signal!ToCsv(signal, d)
                      IN /\ Signal!ValidDocument(document)
                         /\ \A identity \in {{}} \cup {{<<id, t>>} : id \in ids, t \in times} :
                              ~ Signal!Refused(document, identity) =>
                                LET imported == Signal!FromCsv(document, identity)
                                IN /\ Signal!ValidSignal(imported)
                                   /\ imported.signal_set_id = signal.signal_set_id => imported = signal
  BY DEF Signal!ImportKeepsIdentity
<1>. DEFINE document == Signal!ToCsv(signal, d)
            Made(new) == [signal_set_id |-> new[1], class_id |-> document.class_id, created_at |-> new[2], dimensions |-> {document.dimension},
                          student_bands |-> {[student_id |-> r.student_id, dimension_id |-> document.dimension.dimension_id, band |-> r.band] : r \in document.rows}]
<1>2. /\ Signal!ValidDocument(document)
      /\ document.signal_set_id = signal.signal_set_id /\ document.class_id = signal.class_id
      /\ document.created_at = signal.created_at /\ document.dimension = d
      /\ document.rows = {[student_id |-> b.student_id, band |-> b.band] : b \in Signal!Entries(signal, d.dimension_id)}
      /\ document.scope # "dimension_projection" => signal.dimensions = {d}
  BY ExportsAreValid
<1>3. d.band_count >= 2
  BY DEF Signal!ValidSignal
<1>4. \A new : Signal!ValidSignal(Made(new))
  BY <1>2, <1>3, ImportsAreValid
<1>5. ASSUME NEW identity \in {{}} \cup {{<<id, t>>} : id \in ids, t \in times}, ~ Signal!Refused(document, identity)
      PROVE  /\ Signal!ValidSignal(Signal!FromCsv(document, identity))
             /\ Signal!FromCsv(document, identity).signal_set_id = signal.signal_set_id => Signal!FromCsv(document, identity) = signal
  <2>1. CASE identity = {}
    <3>1. Signal!FromCsv(document, identity) = Made(<<signal.signal_set_id, signal.created_at>>)
      BY <1>2, <2>1 DEF Signal!FromCsv
    <3>2. signal.dimensions = {d}
      BY <1>2, <1>5, <2>1 DEF Signal!Refused
    <3>3. Made(<<signal.signal_set_id, signal.created_at>>) = signal
      <4>1. Signal!Entries(signal, d.dimension_id) = signal.student_bands
        BY <3>2 DEF Signal!ValidSignal, Signal!Entries
      <4>2. \A b \in signal.student_bands : b = [student_id |-> b.student_id, dimension_id |-> b.dimension_id, band |-> b.band]
                                            /\ b.dimension_id = d.dimension_id
        BY <4>1, SignalsAssumption DEF Signal!Entries
      <4>3. ASSUME NEW r \in document.rows
            PROVE  \E b \in signal.student_bands : r = [student_id |-> b.student_id, band |-> b.band]
        BY <1>2, <4>1
      <4>4. \A b \in signal.student_bands : [student_id |-> b.student_id, band |-> b.band] \in document.rows
        BY <1>2, <4>1
      <4>5. {[student_id |-> r.student_id, dimension_id |-> d.dimension_id, band |-> r.band] : r \in document.rows} = signal.student_bands
        <5>1. ASSUME NEW r \in document.rows
              PROVE  [student_id |-> r.student_id, dimension_id |-> d.dimension_id, band |-> r.band] \in signal.student_bands
          <6>1. PICK b \in signal.student_bands : r = [student_id |-> b.student_id, band |-> b.band]
            BY <4>3
          <6>2. r.student_id = b.student_id /\ r.band = b.band
            BY <6>1
          <6>. QED
            BY <4>2, <6>2
        <5>2. ASSUME NEW b \in signal.student_bands
              PROVE  \E r \in document.rows : b = [student_id |-> r.student_id, dimension_id |-> d.dimension_id, band |-> r.band]
          <6>1. PICK r \in document.rows : r = [student_id |-> b.student_id, band |-> b.band]
            <7>. HIDE DEF document
            <7>1. [student_id |-> b.student_id, band |-> b.band] \in document.rows
              BY <4>4
            <7>. QED
              BY <7>1
          <6>2. r.student_id = b.student_id /\ r.band = b.band
            BY <6>1
          <6>. QED
            BY <4>2, <6>2
        <5>. QED
          BY <5>1, <5>2
      <4>6. signal = [signal_set_id |-> signal.signal_set_id, class_id |-> signal.class_id, created_at |-> signal.created_at,
                      dimensions |-> signal.dimensions, student_bands |-> signal.student_bands]
        BY SignalsAssumption
      <4>. QED
        BY <1>2, <3>2, <4>5, <4>6
    <3>4. Signal!ValidSignal(signal)
      OBVIOUS
    <3>. HIDE DEF Made
    <3>. QED
      BY <3>1, <3>3, <3>4
  <2>2. CASE identity # {}
    <3>1. PICK id \in ids, t \in times : identity = {<<id, t>>}
      BY <1>5, <2>2
    <3>2. Signal!FromCsv(document, identity) = Made(<<id, t>>)
      <4>. DEFINE new == IF identity = {} THEN <<document.signal_set_id, document.created_at>> ELSE CHOOSE n \in identity : TRUE
      <4>1. new = <<id, t>>
        <5>1. (CHOOSE n \in identity : TRUE) = <<id, t>>
          BY <3>1
        <5>. HIDE DEF document
        <5>. QED
          BY <2>2, <5>1
      <4>2. Signal!FromCsv(document, identity) = Made(new)
        BY DEF Signal!FromCsv
      <4>. HIDE DEF new, Made
      <4>. QED
        BY <4>1, <4>2
    <3>3. id # signal.signal_set_id
      BY <1>2, <1>5, <3>1 DEF Signal!Refused
    <3>4. Signal!ValidSignal(Made(<<id, t>>))
      <4>. HIDE DEF Made
      <4>. QED
        BY <1>4
    <3>5. Made(<<id, t>>).signal_set_id = id
      OBVIOUS
    <3>. HIDE DEF Made
    <3>. QED
      BY <3>2, <3>3, <3>4, <3>5
  <2>. QED
    BY <2>1, <2>2
<1>. QED
  BY <1>2, <1>5

(* Entries of one dimension that name students of a roster are as many as those students. *)
LEMMA StudentsOfEntries ==
  ASSUME NEW bands, IsFiniteSet(bands), \A a, b \in bands : a.student_id = b.student_id => a = b
  PROVE  IsFiniteSet(Signal!Students(bands)) /\ Cardinality(Signal!Students(bands)) = Cardinality(bands)
<1>. DEFINE f == [b \in bands |-> b.student_id]
<1>0. f \in [bands -> Signal!Students(bands)]
  BY DEF Signal!Students
<1>1. f \in Surjection(bands, Signal!Students(bands))
  BY <1>0 DEF Surjection, Signal!Students
<1>2. f \in Injection(bands, Signal!Students(bands))
  BY <1>0 DEF Injection, IsInjective
<1>. QED
  BY <1>1, <1>2, FS_Surjection

(* How many entries are in the first bands, up to each of them; the last is the number of all. *)
LEMMA BandsAddUp ==
  ASSUME NEW matched, IsFiniteSet(matched), NEW n \in Nat, \A b \in matched : b.band \in 1 .. n
  PROVE  LET counts == [band \in 1 .. n |-> Cardinality({b \in matched : b.band = band})]
             sums == [k \in 0 .. n |-> Cardinality({b \in matched : b.band \in 1 .. k})]
         IN /\ sums = [k \in 0 .. n |-> IF k = 0 THEN 0 ELSE sums[k - 1] + counts[k]]
            /\ sums[n] = Cardinality(matched)
<1>. DEFINE counts == [band \in 1 .. n |-> Cardinality({b \in matched : b.band = band})]
            UpTo(k) == {b \in matched : b.band \in 1 .. k}
            sums == [k \in 0 .. n |-> Cardinality(UpTo(k))]
<1>1. ASSUME NEW k \in 0 .. n
      PROVE  IsFiniteSet(UpTo(k)) /\ Cardinality(UpTo(k)) \in Nat
  BY FS_Subset, FS_CardinalityType
<1>2. ASSUME NEW k \in 1 .. n PROVE Cardinality(UpTo(k)) = Cardinality(UpTo(k - 1)) + counts[k]
  <2>. DEFINE at == {b \in matched : b.band = k}
  <2>1. IsFiniteSet(at) /\ Cardinality(at) \in Nat /\ counts[k] = Cardinality(at)
    BY FS_Subset, FS_CardinalityType
  <2>2. UpTo(k) = UpTo(k - 1) \cup at /\ UpTo(k - 1) \cap at = {} /\ k - 1 \in 0 .. n
    OBVIOUS
  <2>3. Cardinality(UpTo(k - 1) \cap at) = 0
    BY <2>2, FS_EmptySet
  <2>. HIDE DEF at, UpTo, counts
  <2>4. Cardinality(UpTo(k)) = Cardinality(UpTo(k - 1)) + Cardinality(at) - 0
    BY <1>1, <2>1, <2>2, <2>3, FS_Union, Zenon
  <2>. QED
    BY <1>1, <2>1, <2>2, <2>4
<1>3. Cardinality(UpTo(0)) = 0
  <2>1. UpTo(0) = {}
    OBVIOUS
  <2>. QED
    BY <2>1, FS_EmptySet
<1>4. sums = [k \in 0 .. n |-> IF k = 0 THEN 0 ELSE sums[k - 1] + counts[k]]
  <2>. HIDE DEF UpTo, counts
  <2>. QED
    BY <1>2, <1>3
<1>5. UpTo(n) = matched
  OBVIOUS
<1>6. sums[n] = Cardinality(matched)
  <2>. HIDE DEF UpTo
  <2>. QED
    BY <1>5
<1>. QED
  BY <1>4, <1>6, Zenon

LEMMA AddsUpWhen ==
  ASSUME NEW diagnosis, NEW n \in Nat
  PROVE  /\ Cardinality(diagnosis.matched) + Cardinality(diagnosis.missing) = Cardinality(diagnosis.roster)
         /\ Cardinality(diagnosis.matched) + Cardinality(diagnosis.unknown) + Cardinality(diagnosis.wrong) = Cardinality(diagnosis.entries)
         /\ IsFiniteSet(diagnosis.matched) /\ \A b \in diagnosis.matched : b.band \in 1 .. n
         /\ diagnosis.band_counts = [band \in 1 .. n |-> Cardinality({b \in diagnosis.matched : b.band = band})]
         => Signal!AddsUp(diagnosis)
<1>. DEFINE counts == [band \in 1 .. n |-> Cardinality({b \in diagnosis.matched : b.band = band})]
            sums == [k \in 0 .. n |-> Cardinality({b \in diagnosis.matched : b.band \in 1 .. k})]
            Total[k \in 0 .. Signal!Cardinality(DOMAIN diagnosis.band_counts)] ==
              IF k = 0 THEN 0 ELSE Total[k - 1] + diagnosis.band_counts[k]
            bad == {k \in 0 .. n : Total[k] # sums[k]}
<1>1. SUFFICES ASSUME IsFiniteSet(diagnosis.matched), \A b \in diagnosis.matched : b.band \in 1 .. n, diagnosis.band_counts = counts
               PROVE  Total[Signal!Cardinality(DOMAIN diagnosis.band_counts)] = Cardinality(diagnosis.matched)
  BY SignalCardinality DEF Signal!AddsUp
<1>2. sums = [k \in 0 .. n |-> IF k = 0 THEN 0 ELSE sums[k - 1] + counts[k]] /\ sums[n] = Cardinality(diagnosis.matched)
  BY <1>1, BandsAddUp, Zenon
<1>3. Signal!Cardinality(DOMAIN diagnosis.band_counts) = n
  <2>1. DOMAIN diagnosis.band_counts = 1 .. n
    BY <1>1
  <2>. QED
    BY <2>1, SignalCardinality, FS_Interval
<1>4. diagnosis.band_counts = counts
  BY <1>1
<1>. HIDE DEF sums, counts
<1>5. sums = [k \in 0 .. Signal!Cardinality(DOMAIN diagnosis.band_counts) |-> IF k = 0 THEN 0 ELSE sums[k - 1] + diagnosis.band_counts[k]]
  BY <1>2, <1>3, <1>4
<1>6. Total = [k \in 0 .. Signal!Cardinality(DOMAIN diagnosis.band_counts) |-> IF k = 0 THEN 0 ELSE Total[k - 1] + diagnosis.band_counts[k]]
  BY <1>5, Zenon
<1>. HIDE DEF Total
<1>7. /\ \A k \in 0 .. n : Total[k] = IF k = 0 THEN 0 ELSE Total[k - 1] + counts[k]
      /\ \A k \in 0 .. n : sums[k] = IF k = 0 THEN 0 ELSE sums[k - 1] + counts[k]
  BY <1>2, <1>3, <1>4, <1>6
<1>8. bad = {}
  <2>1. SUFFICES ASSUME bad # {} PROVE FALSE
    OBVIOUS
  <2>2. PICK k \in bad : \A m \in bad : k <= m
    <3>1. bad \in SUBSET Nat
      OBVIOUS
    <3>. HIDE DEF bad
    <3>. QED
      BY <2>1, <3>1, LeastExists
  <2>3. k \in 1 .. n /\ k - 1 \in 0 .. n /\ k - 1 \notin bad
    BY <1>7, <2>2
  <2>. QED
    BY <1>7, <2>2, <2>3
<1>9. Total[n] = sums[n]
  BY <1>8
<1>10. sums[n] = Cardinality(diagnosis.matched)
  BY <1>2
<1>. HIDE DEF bad
<1>. QED
  BY <1>3, <1>9, <1>10

(* Splitting a finite set. *)
LEMMA PartsAddUp ==
  ASSUME NEW whole, IsFiniteSet(whole), NEW part \in SUBSET whole
  PROVE  /\ IsFiniteSet(part) /\ IsFiniteSet(whole \ part)
         /\ Cardinality(part) + Cardinality(whole \ part) = Cardinality(whole)
         /\ Cardinality(part) \in Nat /\ Cardinality(whole \ part) \in Nat
<1>1. IsFiniteSet(part) /\ IsFiniteSet(whole \ part) /\ Cardinality(whole \ part) = Cardinality(whole) - Cardinality(whole \cap part)
  BY FS_Subset, FS_Difference, Zenon
<1>2. whole \cap part = part
  OBVIOUS
<1>3. Cardinality(part) \in Nat /\ Cardinality(whole \ part) \in Nat /\ Cardinality(whole) \in Nat
  BY <1>1, FS_CardinalityType
<1>4. Cardinality(whole \ part) = Cardinality(whole) - Cardinality(part)
  BY <1>1, <1>2
<1>. QED
  BY <1>1, <1>3, <1>4

(* The diagnosis accounts for every student of the roster and for every entry. *)
LEMMA DiagnosesAddUp ==
  ASSUME NEW signal \in Signals, Signal!ValidSignal(signal), NEW d \in signal.dimensions,
         NEW rosters, NEW class, IsFiniteSet(rosters[class])
  PROVE  Signal!AddsUp(Signal!Diagnose(signal, class, rosters, d))
<1>. DEFINE bands == Signal!Entries(signal, d.dimension_id)
            matched == {b \in bands : b.student_id \in rosters[class]}
            unmatched == bands \ matched
            wrong == {b \in unmatched : Signal!OtherClasses(rosters, class, b.student_id) # {}}
            counts == [band \in 1 .. d.band_count |-> Cardinality({b \in matched : b.band = band})]
            diagnosis == Signal!Diagnose(signal, class, rosters, d)
<1>1. /\ diagnosis.roster = rosters[class] /\ diagnosis.entries = bands /\ diagnosis.matched = matched
      /\ diagnosis.missing = rosters[class] \ Signal!Students(matched) /\ diagnosis.wrong = wrong
      /\ diagnosis.unknown = unmatched \ wrong /\ diagnosis.band_counts = counts
  BY SignalCardinality DEF Signal!Diagnose
<1>2. /\ IsFiniteSet(bands) /\ d.band_count \in Nat
      /\ \A a, b \in bands : a.student_id = b.student_id => a = b
      /\ \A b \in bands : b.band \in 1 .. d.band_count
  <2>1. IsFiniteSet(signal.student_bands) /\ d.band_count \in Nat
    BY SignalsAssumption
  <2>2. bands \in SUBSET signal.student_bands
    BY DEF Signal!Entries
  <2>3. \A a, b \in bands : a.student_id = b.student_id => a = b
    BY DEF Signal!ValidSignal, Signal!Entries
  <2>4. \A b \in bands : b.band \in 1 .. d.band_count
    BY DEF Signal!ValidSignal, Signal!Entries
  <2>. QED
    BY <2>1, <2>2, <2>3, <2>4, FS_Subset
<1>3. matched \in SUBSET bands /\ wrong \in SUBSET unmatched
  OBVIOUS
<1>. HIDE DEF bands, wrong
<1>4. Cardinality(matched) + Cardinality(diagnosis.missing) = Cardinality(diagnosis.roster)
  <2>1. Cardinality(Signal!Students(matched)) = Cardinality(matched)
    <3>1. \A a, b \in matched : a.student_id = b.student_id => a = b
      BY <1>2
    <3>2. IsFiniteSet(matched)
      BY <1>2, <1>3, FS_Subset
    <3>. HIDE DEF matched
    <3>. QED
      BY <3>1, <3>2, StudentsOfEntries
  <2>2. Signal!Students(matched) \in SUBSET rosters[class]
    BY DEF Signal!Students
  <2>. QED
    BY <1>1, <2>1, <2>2, PartsAddUp
<1>5. Cardinality(matched) + Cardinality(diagnosis.unknown) + Cardinality(diagnosis.wrong) = Cardinality(bands)
  <2>1. /\ IsFiniteSet(unmatched) /\ Cardinality(matched) + Cardinality(unmatched) = Cardinality(bands)
        /\ Cardinality(matched) \in Nat
    BY <1>2, <1>3, PartsAddUp, Zenon
  <2>2. /\ Cardinality(wrong) + Cardinality(unmatched \ wrong) = Cardinality(unmatched)
        /\ Cardinality(wrong) \in Nat /\ Cardinality(unmatched \ wrong) \in Nat
    BY <1>3, <2>1, PartsAddUp, Zenon
  <2>. HIDE DEF matched, unmatched
  <2>. QED
    BY <1>1, <2>1, <2>2
<1>6. IsFiniteSet(matched) /\ \A b \in matched : b.band \in 1 .. d.band_count
  BY <1>2, <1>3, FS_Subset
<1>. HIDE DEF diagnosis, matched, unmatched
<1>7. Signal!AddsUp(diagnosis)
  BY <1>1, <1>2, <1>4, <1>5, <1>6, AddsUpWhen, Zenon
<1>. QED
  BY <1>7 DEF diagnosis

LEMMA SignalsAreUsable == Signal!SignalInv => Signal!StoredSignalsAreUsable
<1>. SUFFICES ASSUME Signal!SignalInv, NEW i \in Signal!SignalIds, Signal!Whole(i)
              PROVE  LET signal == json[i].content
                     IN /\ Signal!ValidSignal(signal)
                        /\ Signal!ImportKeepsIdentity(signal, Signal!SignalIds \cup {"another ID"}, {signal.created_at, signal.created_at + 1})
                        /\ \A rosters \in ClassRosters, d \in signal.dimensions :
                             \A class \in DOMAIN rosters : Signal!AddsUp(Signal!Diagnose(signal, class, rosters, d))
  BY Zenon DEF Signal!StoredSignalsAreUsable
<1>1. PICK signal \in Signals : Signal!ValidSignal(signal) /\ json[i] = Signal!Complete(signal)
  <2>1. json[i] \in Signal!Stored(i) /\ json[i].status = "complete"
    BY DEF Signal!SignalInv, Signal!Whole
  <2>. QED
    BY <2>1, Statuses DEF Signal!Stored
<1>2. json[i].content = signal
  BY <1>1, Statuses
<1>3. ASSUME NEW rosters \in ClassRosters, NEW d \in signal.dimensions, NEW class \in DOMAIN rosters
      PROVE  Signal!AddsUp(Signal!Diagnose(signal, class, rosters, d))
  BY <1>1, DiagnosesAddUp, SignalsAssumption
<1>. QED
  BY <1>1, <1>2, <1>3, ImportsKeepIdentity, Zenon

-----------------------------------------------------------------------------
(* Installed providers. *)

(* What is installed are entry points. *)
ProvidersInv == installed \subseteq EntryPoints

LEMMA ProviderInit == Provider!Init => ProvidersInv
BY DEF Provider!Init, ProvidersInv

LEMMA ProviderStep == ProvidersInv /\ Provider!Next => ProvidersInv'
BY DEF Provider!Next, Provider!Install, Provider!Uninstall, ProvidersInv

(* What a candidate is found to be by itself. *)
LEMMA Judgements ==
  ASSUME NEW p \in EntryPoints
  PROVE  LET identified == Provider!NameIsValid(p) /\ Provider!Yields(p) /\ p.profile.module_id = p.name
         IN /\ Provider!Judgement(p) \in {"valid", "core_incompatible"} <=> identified
            /\ Provider!Judgement(p) = "valid" <=> identified /\ Provider!SupportsCore(p.kind, p.profile)
BY ProvidersAssumption, Zenon DEF Provider!Judgement, Provider!Yields

(* A diagnosis, candidate by candidate. *)
LEMMA Diagnoses ==
  ASSUME NEW points, NEW kinds, NEW candidates, candidates = Provider!Candidates(points, kinds), NEW p \in candidates
  PROVE  /\ DOMAIN Provider!diagnose_core_providers(points, kinds) = candidates
         /\ Provider!diagnose_core_providers(points, kinds)[p] =
              [code |-> IF Provider!Conflicting(candidates, p) THEN "identity_conflict" ELSE Provider!Judgement(p),
               passed |-> Provider!Passed(Provider!Judgement(p)),
               validated |-> IF Provider!Judgement(p) = "valid" /\ ~ Provider!Conflicting(candidates, p) THEN {p.profile} ELSE {}]
BY DEF Provider!diagnose_core_providers

LEMMA EachIsJudgedAlone == ProvidersInv => Provider!JudgedAlone
<1>. SUFFICES ASSUME ProvidersInv, NEW gone \in installed, NEW p \in installed \ {gone}
              PROVE  LET before == Provider!diagnose_core_providers(installed, Provider!Kinds)
                         after == Provider!diagnose_core_providers(installed \ {gone}, Provider!Kinds)
                     IN \/ after[p] = before[p]
                        \/ /\ before[p].code = "identity_conflict" /\ after[p].code = Provider!Judgement(p)
                           /\ p.kind = gone.kind /\ p.name = gone.name /\ before[gone].code = "identity_conflict"
  BY DEF Provider!JudgedAlone
<1>. DEFINE all == Provider!Candidates(installed, Provider!Kinds)
            rest == Provider!Candidates(installed \ {gone}, Provider!Kinds)
<1>1. p.kind \in Provider!Kinds /\ gone.kind \in Provider!Kinds
  BY ProvidersAssumption, Zenon DEF ProvidersInv
<1>2. rest = all \ {gone} /\ gone \in all /\ p \in rest
  BY <1>1 DEF Provider!Candidates
<1>0. all = Provider!Candidates(installed, Provider!Kinds) /\ rest = Provider!Candidates(installed \ {gone}, Provider!Kinds)
  OBVIOUS
<1>. HIDE DEF all, rest
<1>3. Provider!Conflicting(rest, p) => Provider!Conflicting(all, p)
  BY <1>2 DEF Provider!Conflicting, Provider!Rivals, Provider!Identified
<1>4. ASSUME Provider!Conflicting(all, p), ~ Provider!Conflicting(rest, p)
      PROVE  Provider!Conflicting(all, gone) /\ p.kind = gone.kind /\ p.name = gone.name
  BY <1>2, <1>4 DEF Provider!Conflicting, Provider!Rivals, Provider!Identified
<1>. DEFINE before == Provider!diagnose_core_providers(installed, Provider!Kinds)
            after == Provider!diagnose_core_providers(installed \ {gone}, Provider!Kinds)
<1>5. /\ before[p] = [code |-> IF Provider!Conflicting(all, p) THEN "identity_conflict" ELSE Provider!Judgement(p),
                      passed |-> Provider!Passed(Provider!Judgement(p)),
                      validated |-> IF Provider!Judgement(p) = "valid" /\ ~ Provider!Conflicting(all, p) THEN {p.profile} ELSE {}]
      /\ before[gone].code = IF Provider!Conflicting(all, gone) THEN "identity_conflict" ELSE Provider!Judgement(gone)
      /\ after[p] = [code |-> IF Provider!Conflicting(rest, p) THEN "identity_conflict" ELSE Provider!Judgement(p),
                     passed |-> Provider!Passed(Provider!Judgement(p)),
                     validated |-> IF Provider!Judgement(p) = "valid" /\ ~ Provider!Conflicting(rest, p) THEN {p.profile} ELSE {}]
  <2>1. ASSUME NEW q \in all
        PROVE  before[q] = [code |-> IF Provider!Conflicting(all, q) THEN "identity_conflict" ELSE Provider!Judgement(q),
                            passed |-> Provider!Passed(Provider!Judgement(q)),
                            validated |-> IF Provider!Judgement(q) = "valid" /\ ~ Provider!Conflicting(all, q) THEN {q.profile} ELSE {}]
    BY <1>0, Diagnoses, Zenon
  <2>2. after[p] = [code |-> IF Provider!Conflicting(rest, p) THEN "identity_conflict" ELSE Provider!Judgement(p),
                    passed |-> Provider!Passed(Provider!Judgement(p)),
                    validated |-> IF Provider!Judgement(p) = "valid" /\ ~ Provider!Conflicting(rest, p) THEN {p.profile} ELSE {}]
    BY <1>0, <1>2, Diagnoses, Zenon
  <2>3. p \in all
    BY <1>2
  <2>4. before[gone].code = IF Provider!Conflicting(all, gone) THEN "identity_conflict" ELSE Provider!Judgement(gone)
    <3>1. gone \in all
      BY <1>2
    <3>2. PICK diagnosed : diagnosed = before[gone]
      OBVIOUS
    <3>3. diagnosed = [code |-> IF Provider!Conflicting(all, gone) THEN "identity_conflict" ELSE Provider!Judgement(gone),
                       passed |-> Provider!Passed(Provider!Judgement(gone)),
                       validated |-> IF Provider!Judgement(gone) = "valid" /\ ~ Provider!Conflicting(all, gone) THEN {gone.profile} ELSE {}]
      BY <2>1, <3>1, <3>2, Zenon
    <3>4. diagnosed.code = IF Provider!Conflicting(all, gone) THEN "identity_conflict" ELSE Provider!Judgement(gone)
      BY <3>3
    <3>. QED
      BY <3>2, <3>4, Zenon
  <2>. QED
    BY <2>1, <2>2, <2>3, <2>4, Zenon
<1>. HIDE DEF before, after
<1>6. \/ after[p] = before[p]
      \/ /\ before[p].code = "identity_conflict" /\ after[p].code = Provider!Judgement(p)
         /\ p.kind = gone.kind /\ p.name = gone.name /\ before[gone].code = "identity_conflict"
  <2>1. CASE Provider!Conflicting(all, p) <=> Provider!Conflicting(rest, p)
    BY <1>5, <2>1
  <2>2. CASE Provider!Conflicting(all, p) /\ ~ Provider!Conflicting(rest, p)
    BY <1>4, <1>5, <2>2
  <2>. QED
    BY <1>3, <2>1, <2>2
<1>. QED
  BY <1>6 DEF before, after

-----------------------------------------------------------------------------
LEMMA DiscoveriesAreForetold ==
  ASSUME ProvidersInv, NEW sort \in Provider!Kinds
  PROVE  LET diagnosis == Provider!diagnose_core_providers(installed, {sort})
             fine == \A p \in DOMAIN diagnosis : diagnosis[p].code \in {"valid", "core_incompatible"}
             found == Provider!Discovered(installed, sort)
         IN /\ fine <=> found # {}
            /\ \A profiles \in found : UNION {diagnosis[p].validated : p \in DOMAIN diagnosis} \subseteq profiles
<1>. DEFINE ofKind == {p \in installed : p.kind = sort}
            diagnosis == Provider!diagnose_core_providers(installed, {sort})
            Good(p) == Provider!NameIsValid(p) /\ Provider!Yields(p) /\ p.profile.module_id = p.name
            unique == \A p, q \in ofKind : p.name = q.name => p = q
<1>1. Provider!Candidates(installed, {sort}) = ofKind /\ DOMAIN diagnosis = ofKind
  BY DEF Provider!Candidates, Provider!diagnose_core_providers
<1>2. \A p \in ofKind : p \in EntryPoints /\ (Provider!Judgement(p) \in {"valid", "core_incompatible"} <=> Good(p))
  BY Judgements DEF ProvidersInv
<1>. HIDE DEF ofKind
<1>3. ASSUME NEW p \in ofKind
      PROVE  /\ diagnosis[p].code = IF Provider!Conflicting(ofKind, p) THEN "identity_conflict" ELSE Provider!Judgement(p)
             /\ diagnosis[p].validated \subseteq {p.profile}
  <2>1. diagnosis[p] = [code |-> IF Provider!Conflicting(ofKind, p) THEN "identity_conflict" ELSE Provider!Judgement(p),
                        passed |-> Provider!Passed(Provider!Judgement(p)),
                        validated |-> IF Provider!Judgement(p) = "valid" /\ ~ Provider!Conflicting(ofKind, p) THEN {p.profile} ELSE {}]
    BY <1>1, Diagnoses, Zenon
  <2>. QED
    BY <2>1
<1>. USE DEF ofKind
<1>4. ASSUME NEW p \in ofKind
      PROVE  Provider!Conflicting(ofKind, p) <=> Good(p) /\ \E q \in ofKind \ {p} : Good(q) /\ q.name = p.name
  BY <1>2 DEF Provider!Conflicting, Provider!Rivals, Provider!Identified
<1>5. Provider!Discovered(installed, sort) = IF (\A p \in ofKind : Good(p)) /\ unique THEN {{p.profile : p \in ofKind}} ELSE {}
  BY DEF Provider!Discovered
<1>. HIDE DEF Good, ofKind, diagnosis
<1>6. (\A p \in ofKind : diagnosis[p].code \in {"valid", "core_incompatible"}) <=> (\A p \in ofKind : Good(p)) /\ unique
  <2>1. ASSUME NEW p \in ofKind
        PROVE  diagnosis[p].code \in {"valid", "core_incompatible"} <=> Good(p) /\ ~ Provider!Conflicting(ofKind, p)
    BY <1>2, <1>3
  <2>. QED
    BY <1>4, <2>1
<1>7. \A profiles \in Provider!Discovered(installed, sort) : UNION {diagnosis[p].validated : p \in ofKind} \subseteq profiles
  BY <1>3, <1>5
<1>. QED
  BY <1>1, <1>5, <1>6, <1>7, Zenon DEF diagnosis

LEMMA RoutingRefusals ==
  ASSUME ProvidersInv, NEW registry \in Provider!Registries(installed), NEW request,
         NEW p \in installed, p.kind = "routing_module", p.name = request.module_id
  PROVE  Provider!Routing!PreloadError(registry, request) = "ModuleContractCompatibility"
           <=> Provider!Judgement(p) = "core_incompatible" \/ request.schema \notin p.profile.qr_schemas
<1>. DEFINE ofKind == {q \in installed : q.kind = "routing_module"}
<1>1. PICK profiles \in Provider!Discovered(installed, "routing_module") :
        registry = [id \in {q.module_id : q \in profiles} |-> CHOOSE q \in profiles : q.module_id = id]
  BY Zenon DEF Provider!Registries, Provider!discover_module_profiles
<1>2. /\ \A q \in ofKind : Provider!NameIsValid(q) /\ Provider!Yields(q) /\ q.profile.module_id = q.name
      /\ \A q, r \in ofKind : q.name = r.name => q = r
      /\ profiles = {q.profile : q \in ofKind}
  BY <1>1 DEF Provider!Discovered
<1>3. p \in ofKind /\ p \in EntryPoints /\ p.profile \in profiles /\ p.profile.module_id = request.module_id
  BY <1>2 DEF ProvidersInv
<1>4. \A q \in profiles : q.module_id = request.module_id => q = p.profile
  BY <1>2, <1>3
<1>5. request.module_id \in DOMAIN registry /\ registry[request.module_id] = p.profile
  BY <1>1, <1>3, <1>4
<1>6. Provider!Judgement(p) = "core_incompatible" <=> ~ Provider!SupportsCore(p.kind, p.profile)
  BY <1>2, <1>3, Judgements
<1>7. Provider!SupportsCore(p.kind, p.profile) <=> Provider!Routing!CORE_ROUTING_CONTRACT_VERSION \in p.profile.contracts
  BY DEF Provider!SupportsCore
<1>. QED
  BY <1>5, <1>6, <1>7 DEF Provider!Routing!PreloadError

LEMMA DiagnosesForetell == ProvidersInv => Provider!DiagnosisForetellsDiscovery
<1>. SUFFICES ASSUME ProvidersInv PROVE Provider!DiagnosisForetellsDiscovery
  OBVIOUS
<1>1. \A sort \in {"routing_module", "publication_producer"} : sort \in Provider!Kinds
  BY DEF Provider!Kinds
<1>. QED
  BY <1>1, DiscoveriesAreForetold, RoutingRefusals DEF Provider!DiagnosisForetellsDiscovery

LEMMA DiagnosedOfAll ==
  ASSUME NEW candidates, candidates = Provider!Candidates(installed, Provider!Kinds), NEW p \in candidates
  PROVE  Provider!diagnose_core_providers(installed, Provider!Kinds)[p] =
           [code |-> IF Provider!Conflicting(candidates, p) THEN "identity_conflict" ELSE Provider!Judgement(p),
            passed |-> Provider!Passed(Provider!Judgement(p)),
            validated |-> IF Provider!Judgement(p) = "valid" /\ ~ Provider!Conflicting(candidates, p) THEN {p.profile} ELSE {}]
BY DEF Provider!diagnose_core_providers

(* What a valid candidate gives. *)
LEMMA FoundProfiles ==
  ASSUME ProvidersInv, NEW sort \in Provider!Kinds, NEW profile \in Provider!Found(sort)
  PROVE  profile \in Provider!Yielded(sort)
<1>1. PICK p \in installed : p.kind = sort /\ profile \in Provider!diagnose_core_providers(installed, Provider!Kinds)[p].validated
  BY DEF Provider!Found
<1>2. PICK candidates : candidates = Provider!Candidates(installed, Provider!Kinds)
  OBVIOUS
<1>3. p \in candidates /\ p \in EntryPoints
  BY <1>1, <1>2 DEF Provider!Candidates, ProvidersInv
<1>4. PICK diagnosed : diagnosed = Provider!diagnose_core_providers(installed, Provider!Kinds)[p]
  OBVIOUS
<1>5. diagnosed = [code |-> IF Provider!Conflicting(candidates, p) THEN "identity_conflict" ELSE Provider!Judgement(p),
                   passed |-> Provider!Passed(Provider!Judgement(p)),
                   validated |-> IF Provider!Judgement(p) = "valid" /\ ~ Provider!Conflicting(candidates, p) THEN {p.profile} ELSE {}]
  <2>1. Provider!diagnose_core_providers(installed, Provider!Kinds)[p] =
          [code |-> IF Provider!Conflicting(candidates, p) THEN "identity_conflict" ELSE Provider!Judgement(p),
           passed |-> Provider!Passed(Provider!Judgement(p)),
           validated |-> IF Provider!Judgement(p) = "valid" /\ ~ Provider!Conflicting(candidates, p) THEN {p.profile} ELSE {}]
    BY <1>2, <1>3, DiagnosedOfAll
  <2>. QED
    BY <1>4, <2>1, Zenon
<1>6. profile \in diagnosed.validated
  BY <1>1, <1>4
<1>7. profile = p.profile /\ Provider!Judgement(p) = "valid"
  BY <1>5, <1>6
<1>8. Provider!Yields(p)
  BY <1>3, <1>7, Judgements
<1>. QED
  BY <1>1, <1>7, <1>8 DEF Provider!Yielded

-----------------------------------------------------------------------------
(* Module operations: what an accepted report leads to. *)
LEMMA InvokedCapability ==
  ASSUME NEW profile, NEW request, NEW capability \in Provider!Operations!Capabilities,
         profile[capability] # None /\ ~ profile[capability].raises =>
           /\ profile[capability].report # None /\ profile[capability].report.evaluation \in {"evaluated", "unavailable"}
           /\ profile[capability].report.capability = "readiness" => profile[capability].report.summaries = << >>,
         NEW result, result = Provider!Operations!Invoke(profile, request, capability)
  PROVE  /\ Provider!Operations!ValidResult(result)
         /\ result.report # None =>
              /\ Provider!Operations!OwnedBy(result.report, profile.module_id)
              /\ Provider!Operations!ForClass(result.report, request.class_id)
<1>. DEFINE does == profile[capability]
<1>1. CASE does = None \/ does.raises \/ ~ Provider!Operations!ValidReport(does.report)
  BY <1>1 DEF Provider!Operations!Invoke, Provider!Operations!Result, Provider!Operations!ValidResult
<1>2. CASE /\ does # None /\ ~ does.raises /\ Provider!Operations!ValidReport(does.report)
           /\ ~ Provider!Operations!AcceptedReport(does.report, capability, profile.module_id, request)
  BY <1>2 DEF Provider!Operations!Invoke, Provider!Operations!Result, Provider!Operations!ValidResult
<1>3. CASE /\ does # None /\ ~ does.raises /\ Provider!Operations!ValidReport(does.report)
           /\ Provider!Operations!AcceptedReport(does.report, capability, profile.module_id, request)
  <2>1. /\ result = [module_id |-> profile.module_id, capability |-> capability,
                     code |-> IF does.report.evaluation = "unavailable" THEN "evaluation_unavailable" ELSE "evaluated",
                     attempted |-> TRUE, succeeded |-> TRUE, result_validation |-> "passed", report |-> does.report]
        /\ does.report.capability = capability
        /\ Provider!Operations!OwnedBy(does.report, profile.module_id)
        /\ capability = "attention" => Provider!Operations!ForClass(does.report, request.class_id)
    BY <1>3 DEF Provider!Operations!Invoke, Provider!Operations!Result, Provider!Operations!AcceptedReport
  <2>2. Provider!Operations!ValidResult(result)
    BY <1>3, <2>1 DEF Provider!Operations!ValidResult
  <2>3. capability = "readiness" => Provider!Operations!ForClass(does.report, request.class_id)
    BY <1>3, <2>1 DEF Provider!Operations!ForClass
  <2>. QED
    BY <2>1, <2>2, <2>3 DEF Provider!Operations!Capabilities
<1>. QED
  BY <1>1, <1>2, <1>3

LeadsHome(report, module_id, class_id) ==
  LET summaries == {report.summaries[k] : k \in DOMAIN report.summaries}
      works == {s.work : s \in summaries} \ {None}
      classes == ({s.class_id : s \in summaries} \ {None}) \cup {w.class_id : w \in works}
      actions == {s.action : s \in summaries} \cup {report.notices[k] : k \in DOMAIN report.notices}
  IN /\ {w.module_id : w \in works} \cup (actions \ {None}) \subseteq {module_id}
     /\ class_id # None => classes \subseteq {class_id}

LEMMA OwnReports ==
  ASSUME NEW report, NEW module_id, NEW class_id,
         Provider!Operations!OwnedBy(report, module_id), Provider!Operations!ForClass(report, class_id)
  PROVE  LeadsHome(report, module_id, class_id)
<1>. DEFINE summaries == {report.summaries[k] : k \in DOMAIN report.summaries}
<1>1. \A s \in summaries : (s.work # None => s.work.module_id = module_id) /\ s.action \in {None, module_id}
  BY DEF Provider!Operations!OwnedBy
<1>2. class_id # None =>
        \A s \in summaries : s.class_id \in {None, class_id} /\ (s.work # None => s.work.class_id = class_id)
  BY DEF Provider!Operations!ForClass
<1>3. \A k \in DOMAIN report.notices : report.notices[k] \in {None, module_id}
  BY DEF Provider!Operations!OwnedBy
<1>. HIDE DEF summaries
<1>4. LET works == {s.work : s \in summaries} \ {None}
          classes == ({s.class_id : s \in summaries} \ {None}) \cup {w.class_id : w \in works}
          actions == {s.action : s \in summaries} \cup {report.notices[k] : k \in DOMAIN report.notices}
      IN /\ {w.module_id : w \in works} \cup (actions \ {None}) \subseteq {module_id}
         /\ class_id # None => classes \subseteq {class_id}
  BY <1>1, <1>2, <1>3
<1>. QED
  BY <1>4, Zenon DEF summaries, LeadsHome

LEMMA ReportsStay ==
  ASSUME ProvidersInv, NEW profile \in Provider!Found("module_operations")
  PROVE  Provider!Operations!ReportsStayWithTheirModule(profile, OperationRequests)
<1>1. PICK p \in installed : p.kind = "module_operations" /\ p.gives = "profile" /\ profile = p.profile
  BY FoundProfiles DEF Provider!Yielded, Provider!Yields, Provider!Kinds
<1>2. /\ profile = [module_id |-> profile.module_id, contracts |-> profile.contracts,
                    readiness |-> profile.readiness, attention |-> profile.attention]
      /\ \A capability \in Provider!Operations!Capabilities :
           profile[capability] # None /\ ~ profile[capability].raises =>
             /\ profile[capability].report # None /\ profile[capability].report.evaluation \in {"evaluated", "unavailable"}
             /\ profile[capability].report.capability = "readiness" => profile[capability].report.summaries = << >>
  BY <1>1, ProvidersAssumption DEF ProvidersInv, Provider!Operations!Capabilities
<1>3. ASSUME NEW request \in OperationRequests, NEW results \in Provider!Operations!invoke_module_operations(profile, request),
             NEW capability \in Provider!Operations!Capabilities
      PROVE  LET result == results[capability]
                 other == CHOOSE c \in Provider!Operations!Capabilities : c # capability
                 alone == [profile EXCEPT ![other] = None]
             IN /\ Provider!Operations!ValidResult(result)
                /\ profile[capability] # None =>
                     \A lone \in Provider!Operations!invoke_module_operations(alone, request) : lone[capability] = result
                /\ result.report # None =>
                     /\ Provider!Operations!OwnedBy(result.report, profile.module_id)
                     /\ Provider!Operations!ForClass(result.report, request.class_id)
  <2>. DEFINE result == results[capability]
              other == CHOOSE c \in Provider!Operations!Capabilities : c # capability
              alone == [profile EXCEPT ![other] = None]
  <2>1. result = Provider!Operations!Invoke(profile, request, capability)
    BY DEF Provider!Operations!invoke_module_operations
  <2>2. other \in {"readiness", "attention"} /\ other # capability
    <3>1. \E c \in Provider!Operations!Capabilities : c # capability
      BY DEF Provider!Operations!Capabilities
    <3>. QED
      BY <3>1 DEF Provider!Operations!Capabilities
  <2>. HIDE DEF other
  <2>3. alone.module_id = profile.module_id /\ alone[capability] = profile[capability]
    <3>1. CASE other = "readiness"
      BY <1>2, <2>2, <3>1 DEF Provider!Operations!Capabilities
    <3>2. CASE other = "attention"
      BY <1>2, <2>2, <3>2 DEF Provider!Operations!Capabilities
    <3>. QED
      BY <2>2, <3>1, <3>2
  <2>. HIDE DEF alone
  <2>4. Provider!Operations!Invoke(alone, request, capability) = Provider!Operations!Invoke(profile, request, capability)
    BY <2>3 DEF Provider!Operations!Invoke, Provider!Operations!Result
  <2>5. \A lone \in Provider!Operations!invoke_module_operations(alone, request) : lone[capability] = result
    BY <2>1, <2>4 DEF Provider!Operations!invoke_module_operations
  <2>. HIDE DEF result
  <2>6. /\ Provider!Operations!ValidResult(result)
        /\ result.report # None =>
             /\ Provider!Operations!OwnedBy(result.report, profile.module_id)
             /\ Provider!Operations!ForClass(result.report, request.class_id)
    BY <1>2, <2>1, InvokedCapability
  <2>. QED
    BY <2>5, <2>6, Zenon DEF result, alone, other
<1>. QED
  <2>1. SUFFICES ASSUME NEW request \in OperationRequests, NEW results \in Provider!Operations!invoke_module_operations(profile, request),
                        NEW capability \in Provider!Operations!Capabilities
                 PROVE  LET result == results[capability]
                            other == CHOOSE c \in Provider!Operations!Capabilities : c # capability
                            alone == [profile EXCEPT ![other] = None]
                        IN /\ Provider!Operations!ValidResult(result)
                           /\ profile[capability] # None =>
                                \A lone \in Provider!Operations!invoke_module_operations(alone, request) : lone[capability] = result
                           /\ result.report # None =>
                                LET summaries == {result.report.summaries[k] : k \in DOMAIN result.report.summaries}
                                    works == {s.work : s \in summaries} \ {None}
                                    classes == ({s.class_id : s \in summaries} \ {None}) \cup {w.class_id : w \in works}
                                    actions == {s.action : s \in summaries} \cup {result.report.notices[k] : k \in DOMAIN result.report.notices}
                                IN /\ {w.module_id : w \in works} \cup (actions \ {None}) \subseteq {profile.module_id}
                                   /\ request.class_id # None => classes \subseteq {request.class_id}
    BY Zenon DEF Provider!Operations!ReportsStayWithTheirModule
  <2>. DEFINE report == results[capability].report
  <2>2. report # None => Provider!Operations!OwnedBy(report, profile.module_id) /\ Provider!Operations!ForClass(report, request.class_id)
    BY <1>3, Zenon
  <2>. HIDE DEF report
  <2>3. report # None => LeadsHome(report, profile.module_id, request.class_id)
    BY <2>2, OwnReports, Zenon
  <2>. QED
    BY <1>3, <2>3, Zenon DEF report, LeadsHome

-----------------------------------------------------------------------------
(* The contracts of producers. *)

(* A valid producer has one contract of a kind, and that one row for each kind of record and one reader for each manifest. *)
LEMMA ValidContracts ==
  ASSUME NEW profile, Provider!Contracts!ValidProducer(profile), NEW kinds
  PROVE  /\ \A s, t \in Provider!Contracts!Supports(profile, kinds) : s = t
         /\ \A s \in Provider!Contracts!Supports(profile, kinds) :
              /\ \A row, other \in s.sources : row.record_kind = other.record_kind => row = other
              /\ \A reader, other \in s.readers : reader.manifest = other.manifest => reader = other
              /\ \A reader \in s.readers : reader.manifest \in s.manifests
BY DEF Provider!Contracts!ValidProducer, Provider!Contracts!ValidSupport, Provider!Contracts!UniqueBy, Provider!Contracts!Supports

(* A publication is compatible if nothing is missing. *)
LEMMA Compatible ==
  ASSUME NEW publication, NEW profile, NEW registration
  PROVE  Provider!Contracts!evaluate_publication_compatibility(publication, profile, registration) = {} <=>
           /\ publication.work.module_id = profile.module_id
           /\ publication.schema \in profile.core_schemas
           /\ publication.kind = "academic_result_set" => registration # None /\ registration.contract \in profile.work_contracts
           /\ Provider!Contracts!Supports(profile, publication.kind) # {}
           /\ \A s \in Provider!Contracts!Supports(profile, publication.kind) :
                Provider!Contracts!SupportCodes(publication, profile, s) = {}
BY DEF Provider!Contracts!evaluate_publication_compatibility

LEMMA CompatibleSupport ==
  ASSUME NEW publication, NEW profile, NEW s
  PROVE  Provider!Contracts!SupportCodes(publication, profile, s) = {} <=>
           /\ publication.manifest \in s.manifests /\ publication.capabilities \subseteq s.capabilities
           /\ publication.source = None => s.missing_source
           /\ publication.source # None =>
                /\ publication.source.module_id = profile.module_id
                /\ \E row \in s.sources : row.record_kind = publication.source.record_kind
                /\ \A row \in s.sources : row.record_kind = publication.source.record_kind =>
                     IF publication.source.version = None THEN row.unversioned ELSE publication.source.version \in row.versions
<1>1. Provider!Contracts!SourceCodes(publication, profile, s) = {} <=>
        /\ publication.source = None => s.missing_source
        /\ publication.source # None =>
             /\ publication.source.module_id = profile.module_id
             /\ \E row \in s.sources : row.record_kind = publication.source.record_kind
             /\ \A row \in s.sources : row.record_kind = publication.source.record_kind =>
                  IF publication.source.version = None THEN row.unversioned ELSE publication.source.version \in row.versions
  BY DEF Provider!Contracts!SourceCodes
<1>. QED
  BY <1>1 DEF Provider!Contracts!SupportCodes

LEMMA Widening ==
  ASSUME NEW narrow, NEW wide, Provider!Contracts!ValidProducer(narrow), Provider!Contracts!ValidProducer(wide),
         Provider!Contracts!Widens(wide, narrow), NEW publication, NEW registration,
         Provider!Contracts!evaluate_publication_compatibility(publication, narrow, registration) = {}
  PROVE  Provider!Contracts!evaluate_publication_compatibility(publication, wide, registration) = {}
<1>1. /\ publication.work.module_id = narrow.module_id /\ publication.schema \in narrow.core_schemas
      /\ publication.kind = "academic_result_set" => registration # None /\ registration.contract \in narrow.work_contracts
      /\ Provider!Contracts!Supports(narrow, publication.kind) # {}
      /\ \A s \in Provider!Contracts!Supports(narrow, publication.kind) :
           Provider!Contracts!SupportCodes(publication, narrow, s) = {}
  BY Compatible
<1>2. /\ wide.module_id = narrow.module_id /\ publication.schema \in wide.core_schemas
      /\ publication.kind = "academic_result_set" => registration # None /\ registration.contract \in wide.work_contracts
  BY <1>1 DEF Provider!Contracts!Widens
<1>3. PICK n \in Provider!Contracts!Supports(narrow, publication.kind) : TRUE
  BY <1>1
<1>4. n \in narrow.publication_contracts /\ n.kind = publication.kind
  BY <1>3 DEF Provider!Contracts!Supports
<1>5. PICK w \in Provider!Contracts!Supports(wide, publication.kind) :
        /\ n.manifests \subseteq w.manifests /\ n.capabilities \subseteq w.capabilities
        /\ n.missing_source => w.missing_source
        /\ \A row \in n.sources :
             \E other \in w.sources :
               /\ other.record_kind = row.record_kind /\ row.versions \subseteq other.versions
               /\ row.unversioned => other.unversioned
  BY <1>4 DEF Provider!Contracts!Widens
<1>6. /\ publication.manifest \in n.manifests /\ publication.capabilities \subseteq n.capabilities
      /\ publication.source = None => n.missing_source
      /\ publication.source # None =>
           /\ publication.source.module_id = narrow.module_id
           /\ \E row \in n.sources : row.record_kind = publication.source.record_kind
           /\ \A row \in n.sources : row.record_kind = publication.source.record_kind =>
                IF publication.source.version = None THEN row.unversioned ELSE publication.source.version \in row.versions
  BY <1>1, <1>3, CompatibleSupport
<1>7. \A row, other \in w.sources : row.record_kind = other.record_kind => row = other
  BY <1>5, ValidContracts
<1>8. ASSUME publication.source # None
      PROVE  /\ publication.source.module_id = wide.module_id
             /\ \E row \in w.sources : row.record_kind = publication.source.record_kind
             /\ \A row \in w.sources : row.record_kind = publication.source.record_kind =>
                  IF publication.source.version = None THEN row.unversioned ELSE publication.source.version \in row.versions
  <2>1. PICK row \in n.sources : row.record_kind = publication.source.record_kind
    BY <1>6, <1>8
  <2>2. IF publication.source.version = None THEN row.unversioned ELSE publication.source.version \in row.versions
    BY <1>6, <1>8, <2>1
  <2>3. PICK other \in w.sources : /\ other.record_kind = row.record_kind /\ row.versions \subseteq other.versions
                                   /\ row.unversioned => other.unversioned
    BY <1>5
  <2>. QED
    BY <1>2, <1>6, <1>7, <1>8, <2>1, <2>2, <2>3
<1>9. Provider!Contracts!SupportCodes(publication, wide, w) = {}
  BY <1>5, <1>6, <1>8, CompatibleSupport
<1>10. \A s \in Provider!Contracts!Supports(wide, publication.kind) : s = w
  BY <1>5, ValidContracts
<1>. QED
  BY <1>1, <1>2, <1>5, <1>9, <1>10, Compatible

LEMMA ProviderCardinality == \A S : Provider!Contracts!Cardinality(S) = Cardinality(S)
BY Zenon DEF Provider!Contracts!Cardinality, Cardinality

LEMMA Readers ==
  ASSUME NEW profile, Provider!Contracts!ValidProducer(profile), NEW publication
  PROVE  LET readers == Provider!Contracts!lookup_publication_reader_support(profile, publication.kind, publication.manifest)
             codes == Provider!Contracts!evaluate_publication_compatibility(publication, profile, None)
         IN /\ Provider!Contracts!Cardinality(readers) \leq 1
            /\ readers # {} => codes \cap {"publication_kind_incompatible", "manifest_version_incompatible"} = {}
<1>. DEFINE supports == Provider!Contracts!Supports(profile, publication.kind)
            readers == UNION {{reader \in s.readers : reader.manifest = publication.manifest} : s \in supports}
<1>0. Provider!Contracts!lookup_publication_reader_support(profile, publication.kind, publication.manifest) = readers
  BY DEF Provider!Contracts!lookup_publication_reader_support
<1>1. /\ \A s, t \in supports : s = t
      /\ \A s \in supports : /\ \A reader, other \in s.readers : reader.manifest = other.manifest => reader = other
                             /\ \A reader \in s.readers : reader.manifest \in s.manifests
  BY ValidContracts
<1>2. \A reader, other \in readers : reader = other
  BY <1>1
<1>3. Cardinality(readers) \in {0, 1}
  <2>. HIDE DEF readers
  <2>1. CASE readers = {}
    BY <2>1, FS_EmptySet
  <2>2. CASE readers # {}
    <3>1. PICK reader : reader \in readers
      BY <2>2
    <3>2. readers = {reader}
      BY <1>2, <3>1
    <3>. QED
      BY <3>2, FS_Singleton
  <2>. QED
    BY <2>1, <2>2
<1>4. ASSUME readers # {}
      PROVE  Provider!Contracts!evaluate_publication_compatibility(publication, profile, None)
               \cap {"publication_kind_incompatible", "manifest_version_incompatible"} = {}
  <2>1. PICK s \in supports : publication.manifest \in s.manifests
    BY <1>1, <1>4
  <2>2. supports = {s}
    BY <1>1, <2>1
  <2>. HIDE DEF supports
  <2>3. "manifest_version_incompatible" \notin Provider!Contracts!SupportCodes(publication, profile, s)
    BY <2>1 DEF Provider!Contracts!SupportCodes, Provider!Contracts!SourceCodes
  <2>4. "publication_kind_incompatible" \notin Provider!Contracts!SupportCodes(publication, profile, s)
    BY DEF Provider!Contracts!SupportCodes, Provider!Contracts!SourceCodes
  <2>. QED
    BY <2>2, <2>3, <2>4 DEF Provider!Contracts!evaluate_publication_compatibility, supports
<1>. HIDE DEF readers
<1>. QED
  BY <1>0, <1>3, <1>4, ProviderCardinality

LEMMA AuditHears == Provider!AuditHearsTheProducerOnly
<1>. SUFFICES ASSUME NEW explicit \in {{}} \cup {{p} : p \in Provider!Yielded("publication_producer")}, NEW required \in BOOLEAN,
                     NEW profiles \in Provider!build_publication_producer_registry(explicit, installed, explicit = {}),
                     NEW publication \in PublicationsOnFile
               PROVE  LET findings == Provider!Contracts!ContractFindings(PublicationsOnFile, PublicationRegistrations, profiles, required)
                          theirs == {p \in profiles : p.module_id = publication.work.module_id}
                      IN /\ findings[publication] = Provider!Contracts!ContractFindings({publication}, PublicationRegistrations, theirs, required)[publication]
                         /\ theirs = {} <=> findings[publication] = {<<IF required THEN "error" ELSE "info", "profile_unavailable">>}
  BY Zenon DEF Provider!AuditHearsTheProducerOnly
<1>. DEFINE theirs == {p \in profiles : p.module_id = publication.work.module_id}
            matching == {r \in PublicationRegistrations : r.work = publication.work /\ r.revision = publication.revision}
            named == IF matching = {} THEN None ELSE CHOOSE r \in matching : TRUE
            codes == UNION {Provider!Contracts!evaluate_publication_compatibility(publication, p, named) : p \in theirs}
            severity == IF required THEN "error" ELSE "info"
<1>1. Provider!Contracts!ContractFindings(PublicationsOnFile, PublicationRegistrations, profiles, required)[publication]
        = IF theirs = {} THEN {<<severity, "profile_unavailable">>} ELSE {"error"} \X codes
  BY Zenon DEF Provider!Contracts!ContractFindings
<1>2. {p \in theirs : p.module_id = publication.work.module_id} = theirs
  OBVIOUS
<1>3. Provider!Contracts!ContractFindings({publication}, PublicationRegistrations, theirs, required)[publication]
        = IF theirs = {} THEN {<<severity, "profile_unavailable">>} ELSE {"error"} \X codes
  <2>1. publication \in {publication}
    OBVIOUS
  <2>. QED
    BY <1>2, <2>1, Zenon DEF Provider!Contracts!ContractFindings
<1>4. "profile_unavailable" \notin codes
  BY DEF Provider!Contracts!evaluate_publication_compatibility, Provider!Contracts!SupportCodes, Provider!Contracts!SourceCodes
<1>. HIDE DEF codes, severity, theirs
<1>5. <<severity, "profile_unavailable">> \notin {"error"} \X codes
  BY <1>4
<1>. QED
  BY <1>1, <1>3, <1>5, Zenon DEF theirs, severity

LEMMA ProvidersStayContained == ProvidersInv => Provider!ProvidersAreContained
<1>. SUFFICES ASSUME ProvidersInv PROVE Provider!ProvidersAreContained
  OBVIOUS
<1>1. \A profile \in Provider!Yielded("publication_producer") : Provider!Contracts!ValidProducer(profile)
  BY Zenon DEF Provider!Yielded, Provider!Yields, Provider!ValidProfile
<1>2. Provider!Found("publication_producer") \subseteq Provider!Yielded("publication_producer")
  BY FoundProfiles DEF Provider!Kinds
<1>3. Provider!Contracts!WideningKeepsCompatible(Provider!Yielded("publication_producer"), PublicationsOnFile, PublicationRegistrations)
  BY <1>1, Widening DEF Provider!Contracts!WideningKeepsCompatible
<1>4. Provider!Contracts!ReadersAreForCompatibleManifests(Provider!Found("publication_producer"), PublicationsOnFile)
  BY <1>1, <1>2, Readers, Zenon DEF Provider!Contracts!ReadersAreForCompatibleManifests
<1>. QED
  BY <1>3, <1>4, EachIsJudgedAlone, DiagnosesForetell, ReportsStay, AuditHears, Zenon DEF Provider!ProvidersAreContained

-----------------------------------------------------------------------------
(* Registry locks. *)

(* Paths are unique, and a path that leads on is that of a directory. *)
LockInv ==
  /\ entries \subseteq Artifacts
  /\ \A e, f \in entries : e.path = f.path => e = f
  /\ \A e, f \in entries : Lock!IsStrictPrefix(e.path, f.path) => e.sort = "directory"

LEMMA LockInit == Lock!Init => LockInv
BY DEF Lock!Init, LockInv

LEMMA LockStep == LockInv /\ Lock!Next => LockInv'
<1>. SUFFICES ASSUME LockInv, NEW a \in Artifacts, Lock!Appears(a) \/ Lock!Vanishes(a) PROVE LockInv'
  BY DEF Lock!Next
<1>1. CASE Lock!Vanishes(a)
  BY <1>1 DEF Lock!Vanishes, LockInv
<1>2. CASE Lock!Appears(a)
  <2>1. ~ Lock!IsStrictPrefix(a.path, a.path)
    BY DEF Lock!IsStrictPrefix
  <2>2. /\ \A e \in entries : e.path # a.path
        /\ \A e \in entries : Lock!IsStrictPrefix(e.path, a.path) => e.sort = "directory"
        /\ \A e \in entries : Lock!IsStrictPrefix(a.path, e.path) => a.sort = "directory"
        /\ entries' = entries \cup {a}
    BY <1>2 DEF Lock!Appears
  <2>. QED
    BY <2>1, <2>2 DEF LockInv
<1>. QED
  BY <1>1, <1>2

(* The beginning of a path. *)
LEMMA Beginnings ==
  ASSUME NEW S, NEW p \in Seq(S), NEW n \in 1 .. Len(p)
  PROVE  /\ SubSeq(p, 1, n) \in Seq(S)
         /\ Len(SubSeq(p, 1, n)) = n
         /\ \A i \in 1 .. n : SubSeq(p, 1, n)[i] = p[i]
         /\ \A i \in 1 .. n : SubSeq(SubSeq(p, 1, n), 1, i) = SubSeq(p, 1, i)
         /\ Lock!IsPrefix(SubSeq(p, 1, n), p)
         /\ n < Len(p) => Lock!IsStrictPrefix(SubSeq(p, 1, n), p)
         /\ n > 1 => Lock!Front(SubSeq(p, 1, n)) = SubSeq(p, 1, n - 1)
         /\ Lock!Last(SubSeq(p, 1, n)) = p[n]
         /\ n = Len(p) => SubSeq(p, 1, n) = p
<1>1. \A m \in 1 .. Len(p) : SubSeq(p, 1, m) \in Seq(S) /\ Len(SubSeq(p, 1, m)) = m /\ \A i \in 1 .. m : SubSeq(p, 1, m)[i] = p[i]
  <2>. SUFFICES ASSUME NEW m \in 1 .. Len(p)
                PROVE  SubSeq(p, 1, m) \in Seq(S) /\ Len(SubSeq(p, 1, m)) = m /\ \A i \in 1 .. m : SubSeq(p, 1, m)[i] = p[i]
    OBVIOUS
  <2>1. \A i \in 1 .. m : p[i] \in S
    BY ElementOfSeq
  <2>. QED
    BY <2>1, SubSeqProperties
<1>. DEFINE q == SubSeq(p, 1, n)
<1>2. q \in Seq(S) /\ Len(q) = n /\ \A i \in 1 .. n : q[i] = p[i]
  BY <1>1
<1>3. \A i \in 1 .. n : SubSeq(q, 1, i) = SubSeq(p, 1, i)
  <2>. SUFFICES ASSUME NEW i \in 1 .. n PROVE SubSeq(q, 1, i) = SubSeq(p, 1, i)
    OBVIOUS
  <2>1. \A j \in 1 .. i : q[j] \in S
    BY <1>2, ElementOfSeq
  <2>2. SubSeq(q, 1, i) \in Seq(S) /\ Len(SubSeq(q, 1, i)) = i /\ \A j \in 1 .. i : SubSeq(q, 1, i)[j] = q[j]
    BY <2>1, SubSeqProperties
  <2>3. SubSeq(p, 1, i) \in Seq(S) /\ Len(SubSeq(p, 1, i)) = i /\ \A j \in 1 .. i : SubSeq(p, 1, i)[j] = p[j]
    BY <1>1
  <2>. HIDE DEF q
  <2>. QED
    BY <1>2, <2>2, <2>3, SeqEqual
<1>4. Lock!IsPrefix(q, p) /\ (n < Len(p) => q # p)
  BY <1>2, <1>3 DEF Lock!IsPrefix
<1>5. n > 1 => Lock!Front(q) = SubSeq(p, 1, n - 1)
  BY <1>2, <1>3 DEF Lock!Front
<1>6. Lock!Last(q) = p[n]
  BY <1>2 DEF Lock!Last
<1>7. n = Len(p) => q = p
  BY SubSeqFull
<1>. QED
  BY <1>2, <1>3, <1>4, <1>5, <1>6, <1>7 DEF Lock!IsStrictPrefix

(* Short paths, name by name. *)
LEMMA ShortPaths ==
  ASSUME NEW S, NEW p \in Seq(S)
  PROVE  /\ Len(p) = 2 => p = <<p[1], p[2]>>
         /\ Len(p) = 3 => p = <<p[1], p[2], p[3]>> /\ Lock!Front(p) = <<p[1], p[2]>> /\ Lock!Last(p) = p[3]
         /\ Len(p) = 5 => p = <<p[1], p[2], p[3], p[4], p[5]>> /\ Lock!Front(p) = <<p[1], p[2], p[3], p[4]>> /\ Lock!Last(p) = p[5]
         /\ Len(p) = 6 => /\ p = <<p[1], p[2], p[3], p[4], p[5], p[6]>> /\ Lock!Front(p) = <<p[1], p[2], p[3], p[4], p[5]>>
                          /\ Lock!Last(p) = p[6]
<1>1. \A q \in Seq(S) : Len(q) = 2 => q = <<q[1], q[2]>>
  OBVIOUS
<1>2. \A q \in Seq(S) : Len(q) = 3 => q = <<q[1], q[2], q[3]>>
  OBVIOUS
<1>3. \A q \in Seq(S) : Len(q) = 4 => q = <<q[1], q[2], q[3], q[4]>>
  OBVIOUS
<1>4. \A q \in Seq(S) : Len(q) = 5 => q = <<q[1], q[2], q[3], q[4], q[5]>>
  OBVIOUS
<1>5. \A q \in Seq(S) : Len(q) = 6 => q = <<q[1], q[2], q[3], q[4], q[5], q[6]>>
  OBVIOUS
<1>6. Len(p) > 1 => /\ Lock!Front(p) \in Seq(S) /\ Len(Lock!Front(p)) = Len(p) - 1
                    /\ \A i \in 1 .. Len(p) - 1 : Lock!Front(p)[i] = p[i]
  <2>1. Len(p) > 1 => Len(p) - 1 \in 1 .. Len(p)
    OBVIOUS
  <2>. QED
    BY <2>1, Beginnings DEF Lock!Front
<1>7. Lock!Last(p) = p[Len(p)]
  BY DEF Lock!Last
<1>. DEFINE f == Lock!Front(p)
<1>8. CASE Len(p) = 2
  BY <1>8, <1>1
<1>9. CASE Len(p) = 3
  <2>1. f \in Seq(S) /\ Len(f) = 2 /\ f[1] = p[1] /\ f[2] = p[2]
    BY <1>6, <1>9
  <2>. HIDE DEF f
  <2>2. f = <<p[1], p[2]>>
    BY <2>1, <1>1
  <2>. QED
    BY <1>2, <1>7, <1>9, <2>2 DEF f
<1>10. CASE Len(p) = 5
  <2>1. f \in Seq(S) /\ Len(f) = 4 /\ f[1] = p[1] /\ f[2] = p[2] /\ f[3] = p[3] /\ f[4] = p[4]
    BY <1>6, <1>10
  <2>. HIDE DEF f
  <2>2. f = <<p[1], p[2], p[3], p[4]>>
    BY <2>1, <1>3
  <2>. QED
    BY <1>4, <1>7, <1>10, <2>2 DEF f
<1>11. CASE Len(p) = 6
  <2>1. f \in Seq(S) /\ Len(f) = 5 /\ f[1] = p[1] /\ f[2] = p[2] /\ f[3] = p[3] /\ f[4] = p[4] /\ f[5] = p[5]
    BY <1>6, <1>11
  <2>. HIDE DEF f
  <2>2. f = <<p[1], p[2], p[3], p[4], p[5]>>
    BY <2>1, <1>4
  <2>. QED
    BY <1>5, <1>7, <1>11, <2>2 DEF f
<1>. QED
  BY <1>8, <1>9, <1>10, <1>11

(* A name at the end of a path. *)
LEMMA AppendingWithin ==
  ASSUME NEW S, NEW x \in S, NEW a \in S, NEW b \in S, NEW c \in S, NEW d \in S, NEW e \in S
  PROVE  /\ Append(<<a, b>>, x) = <<a, b, x>>
         /\ Append(<<a, b, c, d>>, x) = <<a, b, c, d, x>>
         /\ Append(<<a, b, c, d, e>>, x) = <<a, b, c, d, e, x>>
<1>1. Append(<<a, b>>, x) = <<a, b, x>>
  <2>1. PICK q : q = <<a, b>>
    BY Zenon
  <2>2. q \in Seq(S) /\ Len(q) = 2 /\ q[1] = a /\ q[2] = b
    BY <2>1
  <2>3. PICK t : t = Append(q, x)
    BY Zenon
  <2>. q \in Seq(S)
    BY <2>2
  <2>4. t \in Seq(S) /\ Len(t) = Len(q) + 1 /\ (\A i \in 1 .. Len(q) : t[i] = q[i]) /\ t[Len(q) + 1] = x
    BY <2>3, AppendProperties
  <2>5. t = <<a, b, x>>
    BY <2>2, <2>4
  <2>. QED
    BY <2>1, <2>3, <2>5, Zenon
<1>2. Append(<<a, b, c, d>>, x) = <<a, b, c, d, x>>
  <2>1. PICK q : q = <<a, b, c, d>>
    BY Zenon
  <2>2. q \in Seq(S) /\ Len(q) = 4 /\ q[1] = a /\ q[2] = b /\ q[3] = c /\ q[4] = d
    BY <2>1
  <2>3. PICK t : t = Append(q, x)
    BY Zenon
  <2>. q \in Seq(S)
    BY <2>2
  <2>4. t \in Seq(S) /\ Len(t) = Len(q) + 1 /\ (\A i \in 1 .. Len(q) : t[i] = q[i]) /\ t[Len(q) + 1] = x
    BY <2>3, AppendProperties
  <2>5. t = <<a, b, c, d, x>>
    BY <2>2, <2>4
  <2>. QED
    BY <2>1, <2>3, <2>5, Zenon
<1>3. Append(<<a, b, c, d, e>>, x) = <<a, b, c, d, e, x>>
  <2>1. PICK q : q = <<a, b, c, d, e>>
    BY Zenon
  <2>2. q \in Seq(S) /\ Len(q) = 5 /\ q[1] = a /\ q[2] = b /\ q[3] = c /\ q[4] = d /\ q[5] = e
    BY <2>1
  <2>3. PICK t : t = Append(q, x)
    BY Zenon
  <2>. q \in Seq(S)
    BY <2>2
  <2>4. t \in Seq(S) /\ Len(t) = Len(q) + 1 /\ (\A i \in 1 .. Len(q) : t[i] = q[i]) /\ t[Len(q) + 1] = x
    BY <2>3, AppendProperties
  <2>5. t = <<a, b, c, d, e, x>>
    BY <2>2, <2>4
  <2>. QED
    BY <2>1, <2>3, <2>5, Zenon
<1>. QED
  BY <1>1, <1>2, <1>3

LEMMA Appending ==
  ASSUME NEW x, NEW a, NEW b, NEW c, NEW d, NEW e
  PROVE  /\ Append(<<a, b>>, x) = <<a, b, x>>
         /\ Append(<<a, b, c, d>>, x) = <<a, b, c, d, x>>
         /\ Append(<<a, b, c, d, e>>, x) = <<a, b, c, d, e, x>>
<1>1. PICK S : x \in S /\ a \in S /\ b \in S /\ c \in S /\ d \in S /\ e \in S
  <2>1. x \in {x, a, b, c, d, e} /\ a \in {x, a, b, c, d, e} /\ b \in {x, a, b, c, d, e} /\ c \in {x, a, b, c, d, e}
        /\ d \in {x, a, b, c, d, e} /\ e \in {x, a, b, c, d, e}
    OBVIOUS
  <2>. QED
    BY <2>1, Zenon
<1>. QED
  BY <1>1, AppendingWithin

(* The directories of each namespace. *)
LEMMA LockLevels ==
  /\ Lock!Kinds = {"period", "registration", "publication"}
  /\ Len(Lock!Levels["period"]) = 1 /\ Lock!Levels["period"][1] = Years
  /\ Len(Lock!Levels["registration"]) = 3
  /\ Lock!Levels["registration"][1] = Identifiers /\ Lock!Levels["registration"][2] = Lowercase
  /\ Lock!Levels["registration"][3] = Identifiers
  /\ Len(Lock!Levels["publication"]) = 4
  /\ Lock!Levels["publication"][1] = Identifiers /\ Lock!Levels["publication"][2] = Lowercase
  /\ Lock!Levels["publication"][3] = Identifiers /\ Lock!Levels["publication"][4] = PublicationKinds
BY DEF Lock!Kinds, Lock!Levels

(* What lies under a path is found there, and what leads to it is a directory. *)
LEMMA LockTree ==
  ASSUME LockInv, NEW p \in Lock!Paths
  PROVE  /\ p \in Seq(STRING) /\ Len(p) \in Nat /\ Len(p) \geq 1 /\ p[1] \in Lock!Kinds \cup {"core"}
         /\ \A n \in 1 .. Len(p) : SubSeq(p, 1, n) \in Lock!Paths
         /\ \A n \in 1 .. Len(p) - 1 : Lock!Sort(SubSeq(p, 1, n)) = "directory"
<1>0. PICK e \in entries : \E k \in 1 .. Len(e.path) : p = SubSeq(e.path, 1, k)
  BY DEF Lock!Paths
<1>1. PICK k \in 1 .. Len(e.path) : p = SubSeq(e.path, 1, k)
  BY <1>0
<1>2. e.path \in Seq(STRING) /\ Len(e.path) > 1 /\ e.path[1] \in Lock!Kinds \cup {"core"} /\ Len(e.path) \in Nat
  BY LocksAssumption DEF LockInv
<1>3. /\ p \in Seq(STRING) /\ Len(p) = k /\ p[1] = e.path[1]
      /\ \A n \in 1 .. k : SubSeq(p, 1, n) = SubSeq(e.path, 1, n)
  BY <1>1, <1>2, Beginnings
<1>4. \A n \in 1 .. k : SubSeq(p, 1, n) \in Lock!Paths
  BY <1>1, <1>2, <1>3 DEF Lock!Paths
<1>5. ASSUME NEW n \in 1 .. k - 1 PROVE Lock!Sort(SubSeq(e.path, 1, n)) = "directory"
  <2>1. n \in 1 .. Len(e.path) /\ n < Len(e.path)
    BY <1>1, <1>2
  <2>2. Lock!IsStrictPrefix(SubSeq(e.path, 1, n), e.path)
    BY <1>2, <2>1, Beginnings
  <2>3. ASSUME NEW f \in entries, f.path = SubSeq(e.path, 1, n) PROVE f.sort = "directory"
    BY <2>2, <2>3, Zenon DEF LockInv
  <2>. QED
    BY <2>3 DEF Lock!Sort
<1>6. Len(p) = k /\ k \in Nat /\ k \geq 1
  BY <1>2, <1>3
<1>7. \A n \in 1 .. k - 1 : Lock!Sort(SubSeq(p, 1, n)) = "directory"
  <2>. SUFFICES ASSUME NEW n \in 1 .. k - 1 PROVE Lock!Sort(SubSeq(p, 1, n)) = "directory"
    OBVIOUS
  <2>1. SubSeq(p, 1, n) = SubSeq(e.path, 1, n)
    BY <1>3, <1>6
  <2>. QED
    BY <1>5, <2>1, Zenon
<1>. QED
  BY <1>2, <1>3, <1>4, <1>6, <1>7

(* The scan enters a directory where the names are valid. *)
LEMMA Passing ==
  ASSUME LockInv, NEW p \in Lock!Paths, NEW n \in 1 .. Len(p) - 1
  PROVE  Lock!Reached(SubSeq(p, 1, n)) <=>
           /\ p[1] \in Lock!Kinds /\ n \leq 1 + Len(Lock!Levels[p[1]])
           /\ \A i \in 2 .. n : p[i] \in Lock!Levels[p[1]][i - 1]
<1>1. p \in Seq(STRING) /\ Len(p) \in Nat /\ \A i \in 1 .. Len(p) - 1 : Lock!Sort(SubSeq(p, 1, i)) = "directory"
  BY LockTree
<1>2. n \in 1 .. Len(p)
  BY <1>1
<1>3. PICK q : q = SubSeq(p, 1, n)
  BY Zenon
<1>4. Len(q) = n /\ (\A i \in 1 .. n : q[i] = p[i]) /\ \A i \in 1 .. n : SubSeq(q, 1, i) = SubSeq(p, 1, i)
  BY <1>1, <1>2, <1>3, Beginnings
<1>5. q[1] = p[1]
  BY <1>4
<1>6. \A i \in 2 .. n : Lock!Sort(SubSeq(q, 1, i)) = "directory" /\ q[i] = p[i]
  <2>. SUFFICES ASSUME NEW i \in 2 .. n PROVE Lock!Sort(SubSeq(q, 1, i)) = "directory" /\ q[i] = p[i]
    OBVIOUS
  <2>1. i \in 1 .. n /\ i \in 1 .. Len(p) - 1
    BY <1>1
  <2>2. SubSeq(q, 1, i) = SubSeq(p, 1, i) /\ q[i] = p[i]
    BY <1>4, <2>1
  <2>3. Lock!Sort(SubSeq(p, 1, i)) = "directory"
    BY <1>1, <2>1
  <2>. QED
    BY <2>2, <2>3, Zenon
<1>7. Lock!Reached(q) <=>
        /\ q[1] \in Lock!Kinds /\ q[1] = q[1] /\ Len(q) \leq 1 + Len(Lock!Levels[q[1]])
        /\ \A i \in 2 .. Len(q) : Lock!Sort(SubSeq(q, 1, i)) = "directory" /\ q[i] \in Lock!Levels[q[1]][i - 1]
  BY Zenon DEF Lock!Reached, Lock!Passable
<1>. QED
  BY <1>3, <1>4, <1>5, <1>6, <1>7

(* What the scan ends at. *)
LEMMA LeavesAre ==
  ASSUME LockInv, NEW p \in Lock!Paths
  PROVE  p \in Lock!Leaves <=>
           /\ p[1] \in Lock!Kinds /\ Len(p) = 2 + Len(Lock!Levels[p[1]])
           /\ \A i \in 2 .. Len(p) - 1 : p[i] \in Lock!Levels[p[1]][i - 1]
<1>1. p \in Seq(STRING) /\ Len(p) \in Nat /\ Len(p) \geq 1
  BY LockTree
<1>2. \A k \in Lock!Kinds : Len(Lock!Levels[k]) \in Nat /\ Len(Lock!Levels[k]) \geq 1
  BY LockLevels
<1>3. p \in Lock!Leaves <=> /\ Len(p) > 1 /\ Lock!Reached(Lock!Front(p)) /\ ~ Lock!Reached(p)
                            /\ Len(p) = 2 + Len(Lock!Levels[p[1]])
  BY DEF Lock!Leaves, Lock!Met
<1>4. Lock!Reached(p) => p[1] \in Lock!Kinds /\ Len(p) \leq 1 + Len(Lock!Levels[p[1]])
  BY Zenon DEF Lock!Reached, Lock!Passable
<1>5. CASE Len(p) > 1
  <2>1. Len(p) - 1 \in 1 .. Len(p) - 1
    BY <1>1, <1>5
  <2>2. Lock!Reached(Lock!Front(p)) <=>
           /\ p[1] \in Lock!Kinds /\ Len(p) - 1 \leq 1 + Len(Lock!Levels[p[1]])
           /\ \A i \in 2 .. Len(p) - 1 : p[i] \in Lock!Levels[p[1]][i - 1]
    BY <2>1, Passing DEF Lock!Front
  <2>3. ASSUME p[1] \in Lock!Kinds, Len(p) = 2 + Len(Lock!Levels[p[1]])
        PROVE  ~ Lock!Reached(p) /\ Len(p) - 1 \leq 1 + Len(Lock!Levels[p[1]])
    BY <1>1, <1>2, <1>4, <2>3
  <2>. QED
    BY <1>3, <1>5, <2>2, <2>3
<1>6. CASE ~ Len(p) > 1
  BY <1>1, <1>2, <1>3, <1>6
<1>. QED
  BY <1>5, <1>6

(* The same, namespace by namespace. *)
LEMMA LeavesByKind ==
  ASSUME LockInv, NEW p \in Lock!Paths
  PROVE  /\ p[1] = "period" => (p \in Lock!Leaves <=> Len(p) = 3 /\ p[2] \in Years)
         /\ p[1] = "registration" =>
              (p \in Lock!Leaves <=> Len(p) = 5 /\ p[2] \in Identifiers /\ p[3] \in Lowercase /\ p[4] \in Identifiers)
         /\ p[1] = "publication" =>
              (p \in Lock!Leaves <=>
                 Len(p) = 6 /\ p[2] \in Identifiers /\ p[3] \in Lowercase /\ p[4] \in Identifiers /\ p[5] \in PublicationKinds)
         /\ p \in Lock!Leaves => p[1] \in {"period", "registration", "publication"}
<1>1. Len(p) \in Nat
  BY LockTree
<1>2. CASE p[1] = "period"
  <2>0. p \in Lock!Leaves <=>
          /\ "period" \in Lock!Kinds /\ Len(p) = 2 + Len(Lock!Levels["period"])
          /\ \A i \in 2 .. Len(p) - 1 : p[i] \in Lock!Levels["period"][i - 1]
    BY <1>2, LeavesAre, Zenon
  <2>5. "period" \in Lock!Kinds /\ 2 + Len(Lock!Levels["period"]) = 3
    BY LockLevels
  <2>6. Len(p) = 3 => 2 .. Len(p) - 1 = 2 .. 2
    OBVIOUS
  <2>1. p \in Lock!Leaves <=> Len(p) = 3 /\ \A i \in 2 .. 2 : p[i] \in Lock!Levels["period"][i - 1]
    BY <2>0, <2>5, <2>6, Zenon
  <2>. QED
    BY <1>2, <2>1, LockLevels
<1>3. CASE p[1] = "registration"
  <2>0. p \in Lock!Leaves <=>
          /\ "registration" \in Lock!Kinds /\ Len(p) = 2 + Len(Lock!Levels["registration"])
          /\ \A i \in 2 .. Len(p) - 1 : p[i] \in Lock!Levels["registration"][i - 1]
    BY <1>3, LeavesAre, Zenon
  <2>5. "registration" \in Lock!Kinds /\ 2 + Len(Lock!Levels["registration"]) = 5
    BY LockLevels
  <2>6. Len(p) = 5 => 2 .. Len(p) - 1 = 2 .. 4
    OBVIOUS
  <2>1. p \in Lock!Leaves <=> Len(p) = 5 /\ \A i \in 2 .. 4 : p[i] \in Lock!Levels["registration"][i - 1]
    BY <2>0, <2>5, <2>6, Zenon
  <2>2. 2 .. 4 = {2, 3, 4}
    OBVIOUS
  <2>. QED
    BY <1>3, <2>1, <2>2, LockLevels
<1>4. CASE p[1] = "publication"
  <2>0. p \in Lock!Leaves <=>
          /\ "publication" \in Lock!Kinds /\ Len(p) = 2 + Len(Lock!Levels["publication"])
          /\ \A i \in 2 .. Len(p) - 1 : p[i] \in Lock!Levels["publication"][i - 1]
    BY <1>4, LeavesAre
  <2>5. "publication" \in Lock!Kinds /\ 2 + Len(Lock!Levels["publication"]) = 6
    BY LockLevels
  <2>6. Len(p) = 6 => 2 .. Len(p) - 1 = 2 .. 5
    OBVIOUS
  <2>1. p \in Lock!Leaves <=> Len(p) = 6 /\ \A i \in 2 .. 5 : p[i] \in Lock!Levels["publication"][i - 1]
    BY <2>0, <2>5, <2>6, Zenon
  <2>2. 2 .. 5 = {2, 3, 4, 5}
    OBVIOUS
  <2>. QED
    BY <1>4, <2>1, <2>2, LockLevels
<1>5. p \in Lock!Leaves => p[1] \in {"period", "registration", "publication"}
  BY LeavesAre, LockLevels
<1>. QED
  BY <1>2, <1>3, <1>4, <1>5

(* The file of each lock. *)
LEMMA LockFiles ==
  /\ Lock!LockPath(<<"catalog">>) = {<<"core", "catalog.lock">>}
  /\ \A y \in Years : Lock!LockPath(<<"period", y>>) = {<<"period", y, ".write.lock">>}
  /\ \A c, w \in Identifiers, m \in Lowercase :
       Lock!LockPath(<<"registration", c, m, w>>) = {<<"registration", c, m, w, ".write.lock">>}
  /\ \A c, w \in Identifiers, m \in Lowercase, k \in PublicationKinds, s \in DOMAIN LockFile :
       Lock!LockPath(<<"publication", c, m, w, k, s>>) = {<<"publication", c, m, w, k, LockFile[s]>>}
<1>1. Lock!LockPath(<<"catalog">>) = {<<"core", "catalog.lock">>}
  <2>1. Lock!ValidId(<<"catalog">>) /\ <<"catalog">>[1] = "catalog"
    BY DEF Lock!ValidId
  <2>. QED
    BY <2>1 DEF Lock!LockPath, Lock!CatalogLock
<1>2. ASSUME NEW y \in Years PROVE Lock!LockPath(<<"period", y>>) = {<<"period", y, ".write.lock">>}
  <2>1. PICK id : id = <<"period", y>>
    BY Zenon
  <2>2. id[1] = "period" /\ Len(id) = 2 /\ id[2] = y
    BY <2>1
  <2>3. Lock!ValidId(id)
    BY <2>2 DEF Lock!ValidId
  <2>4. Append(id, ".write.lock") = <<"period", y, ".write.lock">>
    BY <2>1, Appending, Zenon
  <2>5. Lock!LockPath(id) = {Append(id, ".write.lock")}
    BY <2>2, <2>3 DEF Lock!LockPath
  <2>. QED
    BY <2>1, <2>4, <2>5
<1>3. ASSUME NEW c \in Identifiers, NEW w \in Identifiers, NEW m \in Lowercase
      PROVE  Lock!LockPath(<<"registration", c, m, w>>) = {<<"registration", c, m, w, ".write.lock">>}
  <2>1. PICK id : id = <<"registration", c, m, w>>
    BY Zenon
  <2>2. id[1] = "registration" /\ Len(id) = 4 /\ id[2] = c /\ id[3] = m /\ id[4] = w
    BY <2>1
  <2>3. Lock!ValidId(id)
    BY <2>2 DEF Lock!ValidId
  <2>4. Append(id, ".write.lock") = <<"registration", c, m, w, ".write.lock">>
    BY <2>1, Appending, Zenon
  <2>5. Lock!LockPath(id) = {Append(id, ".write.lock")}
    BY <2>2, <2>3 DEF Lock!LockPath
  <2>. QED
    BY <2>1, <2>4, <2>5
<1>4. ASSUME NEW c \in Identifiers, NEW w \in Identifiers, NEW m \in Lowercase, NEW k \in PublicationKinds, NEW s \in DOMAIN LockFile
      PROVE  Lock!LockPath(<<"publication", c, m, w, k, s>>) = {<<"publication", c, m, w, k, LockFile[s]>>}
  <2>1. PICK id : id = <<"publication", c, m, w, k, s>>
    BY Zenon
  <2>2. id[1] = "publication" /\ Len(id) = 6 /\ id[2] = c /\ id[3] = m /\ id[4] = w /\ id[5] = k /\ id[6] = s
    BY <2>1
  <2>3. Lock!ValidId(id)
    BY <2>2 DEF Lock!ValidId
  <2>4. id \in Seq({"publication", c, m, w, k, s})
    BY <2>1
  <2>5. Lock!Front(id) = <<"publication", c, m, w, k>>
    BY <2>2, <2>4, ShortPaths
  <2>6. Append(Lock!Front(id), LockFile[s]) = <<"publication", c, m, w, k, LockFile[s]>>
    <3>1. Append(<<"publication", c, m, w, k>>, LockFile[s]) = <<"publication", c, m, w, k, LockFile[s]>>
      BY Appending, Zenon
    <3>. QED
      BY <2>5, <3>1
  <2>7. Lock!LockPath(id) = {Append(Lock!Front(id), LockFile[id[6]])}
    BY <2>2, <2>3 DEF Lock!LockPath
  <2>. QED
    BY <2>1, <2>2, <2>6, <2>7, Zenon
<1>. QED
  BY <1>1, <1>2, <1>3, <1>4

(* The four forms of an ID. *)
LEMMA IdForms ==
  ASSUME NEW id
  PROVE  id \in Lock!Ids <=>
           \/ id = <<"catalog">>
           \/ \E y \in Years : id = <<"period", y>>
           \/ \E c, w \in Identifiers, m \in Lowercase : id = <<"registration", c, m, w>>
           \/ \E c, w \in Identifiers, m \in Lowercase, k \in PublicationKinds, s \in DOMAIN LockFile :
                id = <<"publication", c, m, w, k, s>>
BY DEF Lock!Ids

(* Each ID has a file of its own. *)
LEMMA OneFileEach ==
  ASSUME NEW id \in Lock!Ids, NEW other \in Lock!Ids, Lock!LockPath(id) \cap Lock!LockPath(other) # {}
  PROVE  id = other
<1>1. PICK p : p \in Lock!LockPath(id) /\ p \in Lock!LockPath(other)
  OBVIOUS
<1>. DEFINE Of(i) ==
       \/ i = <<"catalog">> /\ p = <<"core", "catalog.lock">>
       \/ \E y \in Years : i = <<"period", y>> /\ p = <<"period", y, ".write.lock">>
       \/ \E c, w \in Identifiers, m \in Lowercase :
            i = <<"registration", c, m, w>> /\ p = <<"registration", c, m, w, ".write.lock">>
       \/ \E c, w \in Identifiers, m \in Lowercase, k \in PublicationKinds, s \in DOMAIN LockFile :
            i = <<"publication", c, m, w, k, s>> /\ p = <<"publication", c, m, w, k, LockFile[s]>>
<1>2. ASSUME NEW i \in Lock!Ids, p \in Lock!LockPath(i) PROVE Of(i)
  BY <1>2, LockFiles, IdForms
<1>3. Of(id) /\ Of(other)
  BY <1>1, <1>2
<1>4. CASE p[1] = "core"
  BY <1>3, <1>4
<1>5. CASE p[1] = "period"
  BY <1>3, <1>5
<1>6. CASE p[1] = "registration"
  BY <1>3, <1>6
<1>7. CASE p[1] = "publication"
  <2>1. \A i : Of(i) => \E s \in DOMAIN LockFile : i = <<"publication", p[2], p[3], p[4], p[5], s>> /\ p[6] = LockFile[s]
    BY <1>7
  <2>. HIDE DEF Of
  <2>2. PICK s \in DOMAIN LockFile : id = <<"publication", p[2], p[3], p[4], p[5], s>> /\ p[6] = LockFile[s]
    BY <1>3, <2>1
  <2>3. PICK t \in DOMAIN LockFile : other = <<"publication", p[2], p[3], p[4], p[5], t>> /\ p[6] = LockFile[t]
    BY <1>3, <2>1
  <2>. QED
    BY <2>2, <2>3, LocksAssumption, Zenon
<1>. QED
  BY <1>3, <1>4, <1>5, <1>6, <1>7

(* What is observed is the file of an ID. *)
LEMMA ObservedAreLocks ==
  ASSUME LockInv, NEW c \in Lock!Observed
  PROVE  /\ c = [id |-> c.id, path |-> c.path] /\ c.id \in Lock!Ids /\ Lock!LockPath(c.id) = {c.path}
         /\ c.path \in Lock!Paths /\ Lock!Sort(c.path) = "file"
<1>1. c \in Lock!Candidates /\ Lock!Sort(c.path) = "file"
  BY DEF Lock!Observed
<1>2. CASE \E p \in Lock!Paths \cap {Lock!CatalogLock} : c = [id |-> <<"catalog">>, path |-> p]
  BY <1>1, <1>2, LockFiles, IdForms DEF Lock!CatalogLock
<1>3. CASE \E p \in Lock!Leaves : p[1] # "publication" /\ Lock!Last(p) = ".write.lock" /\ c = [id |-> Lock!Front(p), path |-> p]
  <2>1. PICK p \in Lock!Leaves : p[1] # "publication" /\ Lock!Last(p) = ".write.lock" /\ c = [id |-> Lock!Front(p), path |-> p]
    BY <1>3
  <2>2. p \in Lock!Paths /\ p \in Seq(STRING)
    BY LockTree DEF Lock!Leaves, Lock!Met
  <2>3. CASE p[1] = "period"
    <3>1. Len(p) = 3 /\ p[2] \in Years
      BY <2>2, <2>3, LeavesByKind
    <3>2. p = <<"period", p[2], ".write.lock">> /\ Lock!Front(p) = <<"period", p[2]>>
      BY <2>1, <2>2, <2>3, <3>1, ShortPaths
    <3>3. Lock!Front(p) \in Lock!Ids /\ Lock!LockPath(Lock!Front(p)) = {p}
      BY <3>1, <3>2, LockFiles, IdForms
    <3>. QED
      BY <1>1, <2>1, <2>2, <3>3
  <2>4. CASE p[1] = "registration"
    <3>1. Len(p) = 5 /\ p[2] \in Identifiers /\ p[3] \in Lowercase /\ p[4] \in Identifiers
      BY <2>2, <2>4, LeavesByKind
    <3>2. p = <<"registration", p[2], p[3], p[4], ".write.lock">> /\ Lock!Front(p) = <<"registration", p[2], p[3], p[4]>>
      BY <2>1, <2>2, <2>4, <3>1, ShortPaths
    <3>3. Lock!Front(p) \in Lock!Ids /\ Lock!LockPath(Lock!Front(p)) = {p}
      BY <3>1, <3>2, LockFiles, IdForms
    <3>. QED
      BY <1>1, <2>1, <2>2, <3>3
  <2>. QED
    BY <2>1, <2>2, <2>3, <2>4, LeavesByKind
<1>4. CASE \E p \in Lock!Leaves : \E s \in Lock!RecordSetOf(Lock!Last(p)) :
             p[1] = "publication" /\ c = [id |-> Append(Lock!Front(p), s), path |-> p]
  <2>1. PICK p \in Lock!Leaves : \E s \in Lock!RecordSetOf(Lock!Last(p)) :
             p[1] = "publication" /\ c = [id |-> Append(Lock!Front(p), s), path |-> p]
    BY <1>4, Zenon
  <2>2. PICK s \in Lock!RecordSetOf(Lock!Last(p)) : p[1] = "publication" /\ c = [id |-> Append(Lock!Front(p), s), path |-> p]
    BY <2>1, Zenon
  <2>3. p \in Lock!Paths /\ p \in Seq(STRING)
    BY LockTree DEF Lock!Leaves, Lock!Met
  <2>4. s \in DOMAIN LockFile /\ LockFile[s] = Lock!Last(p)
    BY DEF Lock!RecordSetOf
  <2>5. Len(p) = 6 /\ p[2] \in Identifiers /\ p[3] \in Lowercase /\ p[4] \in Identifiers /\ p[5] \in PublicationKinds
    BY <2>2, <2>3, LeavesByKind
  <2>6. p = <<"publication", p[2], p[3], p[4], p[5], LockFile[s]>> /\ Lock!Front(p) = <<"publication", p[2], p[3], p[4], p[5]>>
    BY <2>2, <2>3, <2>4, <2>5, ShortPaths
  <2>7. c.id = <<"publication", p[2], p[3], p[4], p[5], s>> /\ c.path = p
    <3>1. Append(<<"publication", p[2], p[3], p[4], p[5]>>, s) = <<"publication", p[2], p[3], p[4], p[5], s>>
      BY Appending, Zenon
    <3>. QED
      BY <2>2, <2>6, <3>1
  <2>8. c.id \in Lock!Ids /\ Lock!LockPath(c.id) = {p}
    BY <2>4, <2>5, <2>6, <2>7, LockFiles, IdForms
  <2>. QED
    BY <1>1, <2>2, <2>3, <2>7, <2>8
<1>. QED
  BY <1>1, <1>2, <1>3, <1>4 DEF Lock!Candidates

(* A regular file at the place of a lock is observed as that lock. *)
LEMMA LocksAreObserved ==
  ASSUME LockInv, NEW id \in Lock!Ids, NEW p \in Lock!LockPath(id) \cap Lock!Paths, Lock!Sort(p) = "file"
  PROVE  [id |-> id, path |-> p] \in Lock!Observed
<1>1. p \in Seq(STRING)
  BY LockTree
<1>. SUFFICES [id |-> id, path |-> p] \in Lock!Candidates
  BY DEF Lock!Observed
<1>2. CASE id = <<"catalog">>
  BY <1>2, LockFiles, Zenon DEF Lock!Candidates, Lock!CatalogLock
<1>3. CASE id # <<"catalog">> /\ \E y \in Years : id = <<"period", y>>
  <2>1. PICK y \in Years : id = <<"period", y>>
    BY <1>3
  <2>2. p = <<"period", y, ".write.lock">>
    BY <2>1, LockFiles
  <2>3. Len(p) = 3 /\ p[1] = "period" /\ p[2] = y /\ p[3] = ".write.lock"
    BY <2>2
  <2>4. p \in Lock!Leaves /\ Lock!Last(p) = ".write.lock" /\ Lock!Front(p) = id /\ p[1] # "publication"
    BY <1>1, <2>1, <2>3, LeavesByKind, ShortPaths
  <2>. QED
    BY <2>4 DEF Lock!Candidates
<1>4. CASE \E c, w \in Identifiers, m \in Lowercase : id = <<"registration", c, m, w>>
  <2>1. PICK c \in Identifiers, w \in Identifiers, m \in Lowercase : id = <<"registration", c, m, w>>
    BY <1>4
  <2>2. p = <<"registration", c, m, w, ".write.lock">>
    BY <2>1, LockFiles
  <2>3. Len(p) = 5 /\ p[1] = "registration" /\ p[2] = c /\ p[3] = m /\ p[4] = w /\ p[5] = ".write.lock"
    BY <2>2
  <2>4. p \in Lock!Leaves /\ Lock!Last(p) = ".write.lock" /\ Lock!Front(p) = id /\ p[1] # "publication"
    BY <1>1, <2>1, <2>3, LeavesByKind, ShortPaths
  <2>. QED
    BY <2>4 DEF Lock!Candidates
<1>5. CASE \E c, w \in Identifiers, m \in Lowercase, k \in PublicationKinds, s \in DOMAIN LockFile :
             id = <<"publication", c, m, w, k, s>>
  <2>1. PICK c \in Identifiers, w \in Identifiers, m \in Lowercase, k \in PublicationKinds, s \in DOMAIN LockFile :
             id = <<"publication", c, m, w, k, s>>
    BY <1>5
  <2>2. p = <<"publication", c, m, w, k, LockFile[s]>>
    BY <2>1, LockFiles
  <2>3. Len(p) = 6 /\ p[1] = "publication" /\ p[2] = c /\ p[3] = m /\ p[4] = w /\ p[5] = k /\ p[6] = LockFile[s]
    BY <2>2
  <2>4. p \in Lock!Leaves /\ Lock!Last(p) = LockFile[s] /\ Lock!Front(p) = <<"publication", c, m, w, k>>
    BY <1>1, <2>3, LeavesByKind, ShortPaths
  <2>5. Append(Lock!Front(p), s) = id
    <3>1. Append(<<"publication", c, m, w, k>>, s) = <<"publication", c, m, w, k, s>>
      BY Appending
    <3>. QED
      BY <2>1, <2>4, <3>1
  <2>6. s \in Lock!RecordSetOf(Lock!Last(p))
    BY <2>4 DEF Lock!RecordSetOf
  <2>7. p \in {q \in Lock!Leaves : q[1] = "publication" /\ Lock!Sort(q) = "file"}
    BY <2>3, <2>4
  <2>8. [id |-> id, path |-> p] \in {[id |-> Append(Lock!Front(p), t), path |-> p] : t \in Lock!RecordSetOf(Lock!Last(p))}
    BY <2>5, <2>6, Zenon
  <2>. QED
    BY <2>7, <2>8, Zenon DEF Lock!Candidates
<1>. QED
  BY <1>2, <1>3, <1>4, <1>5, IdForms

LEMMA FoundById ==
  ASSUME LockInv, NEW id \in Lock!Ids, NEW p, Lock!LockPath(id) = {p}
  PROVE  Lock!get_registry_lock(id) = IF p \in Lock!Paths /\ Lock!Sort(p) = "file" THEN {[id |-> id, path |-> p]} ELSE {}
BY DEF Lock!get_registry_lock

LEMMA OneFile ==
  ASSUME NEW id \in Lock!Ids
  PROVE  \E p : Lock!LockPath(id) = {p}
<1>1. CASE id = <<"catalog">>
  BY <1>1, LockFiles, Zenon
<1>2. CASE \E y \in Years : id = <<"period", y>>
  BY <1>2, LockFiles, Zenon
<1>3. CASE \E c, w \in Identifiers, m \in Lowercase : id = <<"registration", c, m, w>>
  <2>1. PICK c \in Identifiers, w \in Identifiers, m \in Lowercase : id = <<"registration", c, m, w>>
    BY <1>3
  <2>2. Lock!LockPath(<<"registration", c, m, w>>) = {<<"registration", c, m, w, ".write.lock">>}
    BY LockFiles
  <2>. QED
    BY <2>1, <2>2, Zenon
<1>4. CASE \E c, w \in Identifiers, m \in Lowercase, k \in PublicationKinds, s \in DOMAIN LockFile :
             id = <<"publication", c, m, w, k, s>>
  <2>1. PICK c \in Identifiers, w \in Identifiers, m \in Lowercase, k \in PublicationKinds, s \in DOMAIN LockFile :
             id = <<"publication", c, m, w, k, s>>
    BY <1>4
  <2>2. Lock!LockPath(<<"publication", c, m, w, k, s>>) = {<<"publication", c, m, w, k, LockFile[s]>>}
    BY LockFiles
  <2>. QED
    BY <2>1, <2>2, Zenon
<1>. QED
  BY <1>1, <1>2, <1>3, <1>4, IdForms, Zenon

LEMMA EveryLockFound == LockInv => Lock!EveryLockIsFound
<1>. SUFFICES ASSUME LockInv PROVE Lock!EveryLockIsFound
  OBVIOUS
<1>1. ASSUME NEW id \in Lock!Ids, NEW p \in Lock!LockPath(id) \cap Lock!Paths, Lock!Sort(p) = "file"
      PROVE  /\ {c \in Lock!Observed : c.path = p} = {[id |-> id, path |-> p]}
             /\ Lock!get_registry_lock(id) = {[id |-> id, path |-> p]}
  <2>1. [id |-> id, path |-> p] \in Lock!Observed
    BY <1>1, LocksAreObserved
  <2>2. ASSUME NEW c \in Lock!Observed, c.path = p PROVE c = [id |-> id, path |-> p]
    <3>1. c = [id |-> c.id, path |-> c.path] /\ c.id \in Lock!Ids /\ Lock!LockPath(c.id) = {c.path}
      BY ObservedAreLocks
    <3>2. Lock!LockPath(id) \cap Lock!LockPath(c.id) # {}
      BY <2>2, <3>1
    <3>3. c.id = id
      BY <3>1, <3>2, OneFileEach
    <3>. QED
      BY <2>2, <3>1, <3>3
  <2>3. Lock!LockPath(id) = {p}
    BY OneFile
  <2>4. Lock!get_registry_lock(id) = {[id |-> id, path |-> p]}
    BY <1>1, <2>3, FoundById
  <2>. QED
    BY <2>1, <2>2, <2>4
<1>2. ASSUME NEW c \in Lock!Observed
      PROVE  Lock!LockPath(c.id) = {c.path} /\ Lock!clear_registry_lock(c.id) = {{e \in entries : e.path # c.path}}
  <2>1. c.id \in Lock!Ids /\ Lock!LockPath(c.id) = {c.path} /\ c.path \in Lock!Paths /\ Lock!Sort(c.path) = "file"
    BY ObservedAreLocks
  <2>2. Lock!get_registry_lock(c.id) = {[id |-> c.id, path |-> c.path]}
    BY <2>1, FoundById
  <2>3. [id |-> c.id, path |-> c.path].path = c.path
    OBVIOUS
  <2>. QED
    BY <2>1, <2>2, <2>3 DEF Lock!clear_registry_lock
<1>3. ASSUME NEW locks \in Lock!list_registry_locks, NEW id \in Lock!Ids PROVE Lock!get_registry_lock(id) \subseteq locks
  <2>1. locks = Lock!Observed
    BY <1>3 DEF Lock!list_registry_locks
  <2>2. ASSUME NEW c \in Lock!get_registry_lock(id) PROVE c \in Lock!Observed
    <3>1. PICK p \in {q \in Lock!LockPath(id) \cap Lock!Paths : Lock!Sort(q) = "file"} : c = [id |-> id, path |-> p]
      BY <2>2 DEF Lock!get_registry_lock
    <3>. QED
      BY <3>1, LocksAreObserved
  <2>. QED
    BY <2>1, <2>2
<1>. QED
  BY <1>1, <1>2, <1>3, Zenon DEF Lock!EveryLockIsFound

(* Every error and every lock is a finding. *)
LEMMA Finds ==
  ASSUME NEW p, p \in Lock!Errors \/ p \in {c.path : c \in Lock!Observed}
  PROVE  p \in {f.path : f \in Lock!Findings}
<1>1. CASE p \in Lock!Errors
  <2>1. Lock!Finding("error", p) \in Lock!Findings
    BY <1>1 DEF Lock!Findings
  <2>2. Lock!Finding("error", p).path = p
    BY DEF Lock!Finding
  <2>. QED
    BY <2>1, <2>2
<1>2. CASE p \in {c.path : c \in Lock!Observed}
  <2>1. Lock!Finding("warning", p) \in Lock!Findings
    BY <1>2 DEF Lock!Findings
  <2>2. Lock!Finding("warning", p).path = p
    BY DEF Lock!Finding
  <2>. QED
    BY <2>1, <2>2
<1>. QED
  BY <1>1, <1>2

(* What the scan meets it reports, unless it is a record. *)
LEMMA MetIsFound ==
  ASSUME LockInv, NEW p \in Lock!Met
  PROVE  \/ p \in {f.path : f \in Lock!Findings}
         \/ p[1] \in {"period", "registration"} /\ Lock!Last(p) \in Lock!Known
<1>1. \A q \in Lock!Errors : q \in {f.path : f \in Lock!Findings}
  BY Finds
<1>3. CASE p \notin Lock!Leaves
  BY <1>1, <1>3 DEF Lock!Errors, Lock!Refused
<1>4. CASE p \in Lock!Leaves /\ p \in {c.path : c \in Lock!Observed}
  BY <1>4, Finds
<1>5. CASE p \in Lock!Leaves /\ p \notin {c.path : c \in Lock!Observed}
  <2>1. p[1] \in {"period", "registration", "publication"}
    BY <1>5, LeavesByKind DEF Lock!Leaves, Lock!Met
  <2>2. p[1] = "publication" \/ Lock!Last(p) \notin Lock!Known => p \in Lock!Errors
    BY <1>5 DEF Lock!Errors
  <2>. QED
    BY <1>1, <2>1, <2>2
<1>. QED
  BY <1>3, <1>4, <1>5

(* On the way to what it does not reach the scan meets something. *)
LEMMA MetOnTheWay ==
  ASSUME LockInv, NEW p \in Lock!Paths, p[1] \in Lock!Kinds, ~ Lock!Reached(p)
  PROVE  \E n \in 1 .. Len(p) : SubSeq(p, 1, n) \in Lock!Met
<1>. DEFINE R(n) == Lock!Reached(SubSeq(p, 1, n))
<1>1. p \in Seq(STRING) /\ Len(p) \in Nat /\ Len(p) \geq 1 /\ \A n \in 1 .. Len(p) : SubSeq(p, 1, n) \in Lock!Paths
  BY LockTree
<1>. SUFFICES ASSUME \A n \in 1 .. Len(p) : SubSeq(p, 1, n) \notin Lock!Met PROVE FALSE
  OBVIOUS
<1>2. ASSUME NEW n \in 2 .. Len(p), R(n - 1) PROVE R(n)
  <2>1. n \in 1 .. Len(p) /\ n > 1
    BY <1>1
  <2>2. SubSeq(p, 1, n) \in Lock!Paths /\ Len(SubSeq(p, 1, n)) = n /\ Lock!Front(SubSeq(p, 1, n)) = SubSeq(p, 1, n - 1)
    BY <1>1, <2>1, Beginnings
  <2>3. SubSeq(p, 1, n) \notin Lock!Met
    BY <2>1
  <2>4. Lock!Reached(Lock!Front(SubSeq(p, 1, n)))
    BY <1>2, <2>2, Zenon
  <2>. QED
    BY <2>1, <2>2, <2>3, <2>4, Zenon DEF Lock!Met
<1>3. ASSUME NEW n \in 1 .. Len(p), R(n) PROVE n \leq 5
  <2>1. PICK q : q = SubSeq(p, 1, n)
    BY Zenon
  <2>2. Len(q) = n
    BY <1>1, <2>1, Beginnings
  <2>3. q[1] \in Lock!Kinds /\ Len(q) \leq 1 + Len(Lock!Levels[q[1]])
    BY <1>3, <2>1, Zenon DEF Lock!Reached, Lock!Passable
  <2>4. \A k \in Lock!Kinds : Len(Lock!Levels[k]) \in {1, 3, 4}
    BY LockLevels
  <2>5. Len(Lock!Levels[q[1]]) \in {1, 3, 4}
    BY <2>3, <2>4
  <2>6. n \in Nat
    BY <1>1
  <2>7. PICK levels : levels = Len(Lock!Levels[q[1]])
    BY Zenon
  <2>8. levels \in {1, 3, 4} /\ n \leq 1 + levels
    BY <2>2, <2>3, <2>5, <2>7
  <2>. QED
    BY <2>6, <2>8
<1>4. R(Len(p)) <=> Lock!Reached(p)
  BY <1>1, SubSeqFull, Zenon
<1>5. R(1)
  <2>1. PICK q : q = SubSeq(p, 1, 1)
    BY Zenon
  <2>2. Len(q) = 1 /\ q[1] = p[1]
    BY <1>1, <2>1, Beginnings
  <2>3. 1 \leq 1 + Len(Lock!Levels[q[1]])
    BY <2>2, LockLevels
  <2>. QED
    BY <2>1, <2>2, <2>3 DEF Lock!Reached, Lock!Passable
<1>. HIDE DEF R
<1>6. ASSUME NEW n \in {2, 3, 4, 5, 6}, n \leq Len(p), R(n - 1) PROVE R(n)
  BY <1>1, <1>2, <1>6
<1>7. \A n \in {1, 2, 3, 4, 5, 6} : n \leq Len(p) => R(n)
  <2>2. 2 \leq Len(p) => R(2)
    BY <1>1, <1>5, <1>6
  <2>3. 3 \leq Len(p) => R(3)
    BY <1>1, <2>2, <1>6
  <2>4. 4 \leq Len(p) => R(4)
    BY <1>1, <2>3, <1>6
  <2>5. 5 \leq Len(p) => R(5)
    BY <1>1, <2>4, <1>6
  <2>6. 6 \leq Len(p) => R(6)
    BY <1>1, <2>5, <1>6
  <2>. QED
    BY <1>5, <2>2, <2>3, <2>4, <2>5, <2>6
<1>8. Len(p) \leq 5
  BY <1>1, <1>3, <1>7
<1>. QED
  BY <1>1, <1>4, <1>7, <1>8

LEMMA NothingOmitted == LockInv => Lock!NothingIsOmitted
<1>. DEFINE found == {f.path : f \in Lock!Findings}
<1>. SUFFICES ASSUME LockInv, NEW e \in entries
              PROVE  \/ \E p \in found : Lock!IsPrefix(p, e.path)
                     \/ Lock!Reached(e.path)
                     \/ e.path[1] \in {"period", "registration"} /\ \E n \in DOMAIN e.path : e.path[n] \in Lock!Known
  BY Zenon DEF Lock!NothingIsOmitted
<1>1. e.path \in Seq(STRING) /\ Len(e.path) > 1 /\ e.path[1] \in Lock!Kinds \cup {"core"} /\ Len(e.path) \in Nat
  BY LocksAssumption DEF LockInv
<1>2. e.path \in Lock!Paths /\ \A n \in 1 .. Len(e.path) : SubSeq(e.path, 1, n) \in Lock!Paths
  <2>1. e.path = SubSeq(e.path, 1, Len(e.path)) /\ Len(e.path) \in 1 .. Len(e.path)
    BY <1>1, SubSeqFull
  <2>. QED
    BY <2>1 DEF Lock!Paths
<1>3. CASE e.path[1] = "core"
  <2>1. PICK p : p = SubSeq(e.path, 1, 2)
    BY Zenon
  <2>2. 2 \in 1 .. Len(e.path)
    BY <1>1
  <2>3. p \in Lock!Paths /\ Len(p) = 2 /\ p[1] = "core" /\ Lock!IsPrefix(p, e.path)
    BY <1>1, <1>2, <1>3, <2>1, <2>2, Beginnings
  <2>4. CASE p \in {c.path : c \in Lock!Observed}
    <3>1. p \in found
      BY <2>4, Finds
    <3>. QED
      BY <2>3, <3>1
  <2>5. CASE p \notin {c.path : c \in Lock!Observed}
    <3>1. p \in Lock!Errors
      BY <2>3, <2>5 DEF Lock!Errors
    <3>2. p \in found
      BY <3>1, Finds
    <3>. QED
      BY <2>3, <3>2
  <2>. QED
    BY <2>4, <2>5
<1>4. CASE e.path[1] \in Lock!Kinds /\ ~ Lock!Reached(e.path)
  <2>1. PICK n \in 1 .. Len(e.path) : SubSeq(e.path, 1, n) \in Lock!Met
    BY <1>2, <1>4, MetOnTheWay
  <2>2. PICK p : p = SubSeq(e.path, 1, n)
    BY Zenon
  <2>3. Lock!IsPrefix(p, e.path) /\ Lock!Last(p) = e.path[n] /\ p[1] = e.path[1] /\ n \in DOMAIN e.path
    BY <1>1, <2>2, Beginnings
  <2>4. p \in found \/ (p[1] \in {"period", "registration"} /\ Lock!Last(p) \in Lock!Known)
    BY <2>1, <2>2, MetIsFound, Zenon
  <2>. QED
    BY <2>3, <2>4
<1>. QED
  BY <1>1, <1>3, <1>4

LEMMA FiltersKeep == LockInv => Lock!FiltersKeepTheirOwn
<1>. DEFINE found == {f.path : f \in Lock!Findings}
<1>. SUFFICES ASSUME LockInv, NEW o \in Lock!Filters
              PROVE  /\ \A c \in Lock!Observed : Lock!Counted(o, c) => Lock!Reported(o, c.path)
                     /\ \A p \in found : ~ Lock!Reported(o, p) =>
                          \/ p[1] = "period" /\ p[2] # o.year
                          \/ p[1] \in {"registration", "publication"} /\ ~ Lock!OfWork(o, p[2], p[3], p[4])
  BY Zenon DEF Lock!FiltersKeepTheirOwn
<1>1. \A p : ~ Lock!Reported(o, p) =>
        \/ p[1] = "period" /\ p[2] # o.year
        \/ p[1] \in {"registration", "publication"} /\ ~ Lock!OfWork(o, p[2], p[3], p[4])
  BY DEF Lock!Reported
<1>2. ASSUME NEW c \in Lock!Observed, Lock!Counted(o, c) PROVE Lock!Reported(o, c.path)
  <2>1. PICK id, p : id = c.id /\ p = c.path
    OBVIOUS
  <2>2. id \in Lock!Ids /\ Lock!LockPath(id) = {p}
    BY <2>1, ObservedAreLocks
  <2>3. Lock!Unfiltered(o) => o.year = None /\ \A class, module, work : Lock!OfWork(o, class, module, work)
    BY DEF Lock!Unfiltered, Lock!OfWork, Lock!Filters
  <2>4. CASE id = <<"catalog">>
    <3>1. p = <<"core", "catalog.lock">>
      BY <2>2, <2>4, LockFiles
    <3>2. p[1] = "core"
      BY <3>1
    <3>. QED
      BY <2>1, <3>2 DEF Lock!Reported
  <2>5. CASE \E y \in Years : id = <<"period", y>>
    <3>1. PICK y \in Years : id = <<"period", y>>
      BY <2>5
    <3>2. p = <<"period", y, ".write.lock">>
      BY <2>2, <3>1, LockFiles
    <3>3. p[1] = "period" /\ p[2] = y /\ id[1] = "period" /\ id[2] = y
      BY <3>1, <3>2
    <3>4. o.year \in {None, y}
      BY <1>2, <2>1, <2>3, <3>3 DEF Lock!Counted
    <3>. QED
      BY <2>1, <3>3, <3>4 DEF Lock!Reported
  <2>6. CASE \E n \in {4, 6} : Len(id) = n /\ id[1] \in {"registration", "publication"} /\ \A i \in 1 .. 4 : p[i] = id[i]
    <3>1. id[1] \in {"registration", "publication"} /\ p[1] = id[1] /\ p[2] = id[2] /\ p[3] = id[3] /\ p[4] = id[4]
      BY <2>6
    <3>2. Lock!OfWork(o, id[2], id[3], id[4])
      BY <1>2, <2>1, <2>3, <3>1 DEF Lock!Counted
    <3>. QED
      BY <2>1, <3>1, <3>2 DEF Lock!Reported
  <2>7. CASE \E class, w \in Identifiers, m \in Lowercase : id = <<"registration", class, m, w>>
    <3>1. PICK class \in Identifiers, w \in Identifiers, m \in Lowercase : id = <<"registration", class, m, w>>
      BY <2>7
    <3>2. p = <<"registration", class, m, w, ".write.lock">>
      BY <2>2, <3>1, LockFiles
    <3>. QED
      BY <2>6, <3>1, <3>2
  <2>8. CASE \E class, w \in Identifiers, m \in Lowercase, k \in PublicationKinds, s \in DOMAIN LockFile :
               id = <<"publication", class, m, w, k, s>>
    <3>1. PICK class \in Identifiers, w \in Identifiers, m \in Lowercase, k \in PublicationKinds, s \in DOMAIN LockFile :
               id = <<"publication", class, m, w, k, s>>
      BY <2>8
    <3>2. p = <<"publication", class, m, w, k, LockFile[s]>>
      BY <2>2, <3>1, LockFiles
    <3>. QED
      BY <2>6, <3>1, <3>2
  <2>. QED
    BY <2>2, <2>4, <2>5, <2>7, <2>8, IdForms
<1>. QED
  BY <1>1, <1>2

LEMMA LocksAccounted == LockInv => Lock!LocksAreAccountedFor
BY EveryLockFound, NothingOmitted, FiltersKeep DEF Lock!LocksAreAccountedFor

-----------------------------------------------------------------------------
(* All components. *)

(* Each component keeps its own invariant while it is the active one. *)
ComponentsHold ==
  /\ active = "signals" => Signal!SignalInv
  /\ active = "library" => Library!StoreInv
  /\ active = "menu" => Menu!MenuInv
  /\ active = "ledger" => Ledger!LedgerInv
  /\ active = "root" => Root!RootsInv
  /\ active = "providers" => ProvidersInv
  /\ active = "locks" => LockInv

LEMMA WorkspaceInitial == WorkspaceFilesInit => ComponentsHold
BY SignalInit, LibraryInit, MenuInit, LedgerInit, RootInit, ProviderInit, LockInit DEF WorkspaceFilesInit, ComponentsHold

(* The step that the active component takes, or that none takes. *)
LEMMA WorkspaceSteps ==
  ASSUME [WorkspaceFilesNext]_workspaceFilesVars
  PROVE  /\ active' = active
         /\ active = "signals" => [Signal!Next]_(Signal!vars)
         /\ active = "library" => [Library!Next]_(Library!vars)
         /\ active = "menu" => [Menu!Next]_(Menu!vars)
         /\ active = "ledger" => [Ledger!Next]_(Ledger!vars)
         /\ active = "root" => [Root!Next]_(Root!vars)
         /\ active = "providers" => [Provider!Next]_installed
         /\ active = "locks" => [Lock!Next]_entries
<1>1. CASE UNCHANGED workspaceFilesVars
  BY <1>1 DEF workspaceFilesVars, signalVars, menuVars, queryVars, ledgerVars, rootVars, commandVars,
              Signal!vars, Signal!files, Signal!call, Library!vars, Menu!vars, Ledger!vars, Root!vars
<1>2. CASE WorkspaceFilesNext
  BY <1>2 DEF WorkspaceFilesNext, OnSignals, OnLibrary, OnMenu, OnQueries, OnLedger, OnProviders, OnRoot, OnLocks, OnCommands, OthersStay
<1>. QED
  BY <1>1, <1>2

LEMMA NothingHappens ==
  /\ Signal!SignalInv /\ UNCHANGED Signal!vars => Signal!SignalInv'
  /\ Library!StoreInv /\ UNCHANGED Library!vars => Library!StoreInv'
  /\ Menu!MenuInv /\ UNCHANGED Menu!vars => Menu!MenuInv'
  /\ Ledger!LedgerInv /\ UNCHANGED Ledger!vars => Ledger!LedgerInv'
  /\ Root!RootsInv /\ UNCHANGED Root!vars => Root!RootsInv'
  /\ ProvidersInv /\ UNCHANGED installed => ProvidersInv'
  /\ LockInv /\ UNCHANGED entries => LockInv'
<1>1. Signal!SignalInv /\ UNCHANGED Signal!vars => Signal!SignalInv'
  BY DEF Signal!vars, Signal!files, Signal!call, Signal!SignalInv, Signal!CallFits, Signal!MakerFits, Signal!CreatedFits, Signal!Making,
         Signal!NothingIsHalf, Signal!SignalPairsHold, Signal!SignalsStay, Signal!QuietPairsAreWhole, Signal!Quiet, Signal!Whole,
         Signal!Answered, Signal!Id
<1>2. Library!StoreInv /\ UNCHANGED Library!vars => Library!StoreInv'
  BY DEF Library!vars, Library!StoreInv
<1>3. Ledger!LedgerInv /\ UNCHANGED Ledger!vars => Ledger!LedgerInv'
  <2>. SUFFICES ASSUME Ledger!LedgerInv, UNCHANGED Ledger!vars PROVE Ledger!LedgerInv'
    OBVIOUS
  <2>1. /\ lines' = lines /\ terminated' = terminated /\ pc' = pc /\ appending' = appending /\ separator' = separator
        /\ opened' = opened /\ acknowledged' = acknowledged /\ raced' = raced
    BY DEF Ledger!vars
  <2>2. Ledger!Lines' = Ledger!Lines
    BY <2>1 DEF Ledger!Lines
  <2>3. Ledger!StoredEvents' = Ledger!StoredEvents
    BY <2>1, <2>2 DEF Ledger!StoredEvents
  <2>4. \A event \in acknowledged' : event \in Events /\ Ledger!Standing(event)'
    <3>1. SUFFICES ASSUME NEW event \in acknowledged PROVE event \in Events /\ Ledger!Standing(event)'
      BY <2>1
    <3>2. event \in Events /\ Ledger!Standing(event)
      BY DEF Ledger!LedgerInv
    <3>. QED
      BY <2>1, <2>2, <3>2 DEF Ledger!Standing
  <2>5. Ledger!AcknowledgedEventsStay'
    BY <2>1, <2>3 DEF Ledger!LedgerInv, Ledger!AcknowledgedEventsStay
  <2>. QED
    BY <2>1, <2>2, <2>4, <2>5 DEF Ledger!LedgerInv
<1>4. Menu!MenuInv /\ UNCHANGED Menu!vars => Menu!MenuInv'
  <2>. SUFFICES ASSUME Menu!MenuInv, UNCHANGED Menu!vars PROVE Menu!MenuInv'
    OBVIOUS
  <2>1. /\ library' = library /\ mine' = mine /\ screen' = screen /\ draft' = draft /\ inbox' = inbox
        /\ disturbances' = disturbances
    BY DEF Menu!vars
  <2>2. screen \in Menu!Steps => Menu!DraftFits' /\ Menu!PreparedFits' /\ Menu!WrittenFits'
    BY <2>1 DEF Menu!MenuInv, Menu!DraftFits, Menu!PreparedFits, Menu!WrittenFits, Menu!Exporting
  <2>. QED
    BY <2>1, <2>2 DEF Menu!MenuInv
<1>5. Root!RootsInv /\ UNCHANGED Root!vars => Root!RootsInv'
  BY DEF Root!vars, Root!RootsInv, Root!MadeSoFar, Root!RootsAreReady, Root!Complete
<1>6. ProvidersInv /\ UNCHANGED installed => ProvidersInv'
  BY DEF ProvidersInv
<1>7. LockInv /\ UNCHANGED entries => LockInv'
  BY DEF LockInv
<1>. QED
  BY <1>1, <1>2, <1>3, <1>4, <1>5, <1>6, <1>7

LEMMA ComponentsKeep == ComponentsHold /\ [WorkspaceFilesNext]_workspaceFilesVars => ComponentsHold'
<1>. SUFFICES ASSUME ComponentsHold, [WorkspaceFilesNext]_workspaceFilesVars PROVE ComponentsHold'
  OBVIOUS
<1>1. active' = active
  BY WorkspaceSteps
<1>2. /\ active = "signals" => Signal!SignalInv'
      /\ active = "library" => Library!StoreInv'
      /\ active = "menu" => Menu!MenuInv'
      /\ active = "ledger" => Ledger!LedgerInv'
      /\ active = "root" => Root!RootsInv'
      /\ active = "providers" => ProvidersInv'
      /\ active = "locks" => LockInv'
  BY WorkspaceSteps, SignalStep, LibraryStep, MenuStep, LedgerStep, RootStep, ProviderStep, LockStep, NothingHappens DEF ComponentsHold
<1>. QED
  BY <1>1, <1>2 DEF ComponentsHold

(* The inductive invariant: every component keeps its own, in every behaviour of the workspace, for any number *)
(* of processes, signals, libraries, events, roots, failing operations and crashes.                            *)
THEOREM WorkspaceFilesInvariance == WorkspaceFilesSpec => []ComponentsHold
BY WorkspaceInitial, ComponentsKeep, PTL DEF WorkspaceFilesSpec

(* A signal that was reported created or returned stays as it is; where nobody writes and nothing failed its *)
(* two files are both whole or both absent; and what is stored survives exchange and is diagnosed in full:   *)
(* the exclusive creations of grouping_signals_store.py, which take back only what they made themselves.     *)
THEOREM SignalsHoldAlways == WorkspaceFilesSpec => []SignalsHold
<1>1. ComponentsHold => SignalsHold
  BY SignalsAreUsable DEF ComponentsHold, SignalsHold
<1>. QED
  BY <1>1, WorkspaceFilesInvariance, PTL

(* Whatever commands have edited, imported or installed at once, the library is one whose references resolve, *)
(* and every starter pack installs into it without losing an ID of the teacher, unasked without changing a     *)
(* record, and once: merge_standards_libraries and install_starter_standards_library. What a session of the   *)
(* menu has prepared from its copy is such a library, too, and changes one profile of the copy at most.        *)
THEOREM LibrariesHoldAlways == WorkspaceFilesSpec => []LibrariesHold
<1>1. ComponentsHold => LibrariesHold
  BY StoredLibrariesTakePacks DEF ComponentsHold, LibrariesHold
<1>. QED
  BY <1>1, WorkspaceFilesInvariance, PTL

(* However sessions of the menu, commands and changing files interleave: a session replaces the library only  *)
(* after YES, by what it has shown and, where nobody was before it, without taking anything away; and it goes  *)
(* on with the library it leaves on disk (the workflows of cli_support/menu_*.py).                            *)
THEOREM MenusWriteWhatWasAgreedAlways == WorkspaceFilesSpec => MenusWriteWhatWasAgreed
<1>1. ComponentsHold /\ [WorkspaceFilesNext]_workspaceFilesVars
        => [active = "menu" => Menu!ReplacesWhatWasAgreed /\ Menu!GoesOnWithTheLibrary]_workspaceFilesVars
  <2>. SUFFICES ASSUME ComponentsHold, WorkspaceFilesNext, active = "menu"
                PROVE  Menu!ReplacesWhatWasAgreed /\ Menu!GoesOnWithTheLibrary
    OBVIOUS
  <2>1. Menu!MenuInv /\ Menu!Next
    BY DEF ComponentsHold, WorkspaceFilesNext, OnSignals, OnLibrary, OnMenu, OnQueries, OnLedger, OnProviders, OnRoot, OnLocks, OnCommands
  <2>. QED
    BY <2>1, MenuActions
<1>. QED
  BY <1>1, WorkspaceFilesInvariance, PTL DEF WorkspaceFilesSpec, MenusWriteWhatWasAgreed

(* An event whose append has returned has a line of its own until the ledger is rewritten without it, also   *)
(* after other appends broke off in the middle of their lines: append_standard_usage_event.                  *)
THEOREM AcknowledgedEventsStayAlways == WorkspaceFilesSpec => []AcknowledgedEventsStay
<1>1. ComponentsHold => AcknowledgedEventsStay
  BY DEF ComponentsHold, AcknowledgedEventsStay
<1>. QED
  BY <1>1, WorkspaceFilesInvariance, PTL

(* The saved preference names a complete workspace, whatever failed and whoever sets up another at the same  *)
(* place: set_workspace_root prepares the root before it saves it. And whatever writers, crashes and file     *)
(* managers leave in the directories of the registry, an operator finds and clears each lock by its ID, and    *)
(* nothing there goes unnoticed (_scan_locks, get_registry_lock, clear_registry_lock in registry_audit.py).    *)
THEOREM SettingsAndLocksHoldAlways == WorkspaceFilesSpec => []SettingsAndLocksHold
<1>1. ComponentsHold => SettingsAndLocksHold
  BY LocksAccounted DEF ComponentsHold, SettingsAndLocksHold
<1>. QED
  BY <1>1, WorkspaceFilesInvariance, PTL

(* Whatever packages are installed and removed: a candidate is judged by itself, whatever else is installed, *)
(* and what a package brings that fails, or answers for another module, is diagnosed and changes nothing for  *)
(* the rest (module_profile_discovery.py, module_operations.py, module_publication_profile.py); and a wider   *)
(* profile stays compatible with what the narrower one was.                                                   *)
THEOREM ProvidersAreContainedAlways == WorkspaceFilesSpec => []ProvidersAreContained
<1>1. ComponentsHold => ProvidersAreContained
  BY ProvidersStayContained DEF ComponentsHold, ProvidersAreContained
<1>. QED
  BY <1>1, WorkspaceFilesInvariance, PTL
=============================================================================
