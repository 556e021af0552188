---------------------------- MODULE ClassFilesProofs ----------------------------
(***************************************************************************)
(* Theorems about ClassFiles: the components keep their inductive          *)
(* invariants, and have the properties these imply, for any number of      *)
(* processes, files and disturbances.                                      *)
(***************************************************************************)
EXTENDS ClassFiles, CalendarProofs, FiniteSetTheorems, SequenceTheorems

-----------------------------------------------------------------------------
(* Retained scans. *)

LEMMA RetentionInit == Retention!Init => Retention!RetentionInv
<1>. SUFFICES ASSUME Retention!Init PROVE Retention!RetentionInv
  OBVIOUS
<1>1. disturbances \in 0 .. MaxDisturbances
  BY ConstantsAssumption DEF Retention!Init
<1>2. \A i \in Writers : Retention!IntakeFits(i)
  BY DEF Retention!Init, Retention!IntakeFits, Retention!Making
<1>. QED
  BY <1>1, <1>2 DEF Retention!Init, Retention!RetentionInv, Retention!RetainedUnlessStruck

(* The teacher scans over the source, or moves it away. *)
LEMMA TeacherStep == Retention!RetentionInv /\ Retention!Teacher => Retention!RetentionInv'
BY DEF Retention!RetentionInv, Retention!Teacher, Retention!ScanOver, Retention!MoveAway, Retention!IntakeFits,
       Retention!Making, Retention!Owns, Retention!RetainedUnlessStruck, Retention!Intact

(* An intake changes one file at most, and nobody else is making that one, unless it is struck. *)
LEMMA IntakeMoves ==
  ASSUME Retention!RetentionInv, NEW i \in Writers, UNCHANGED source, Retention!NoFault \/ Retention!Fault,
         NEW name \in Retention!Names,
         retained' \in [Retention!Names -> Retention!Files \cup {NoFile}],
         \A n \in Retention!Names \ {name} : retained'[n] = retained[n],
         struck' \in {struck, struck \cup {name}}, returned' \in {returned, returned \cup {name}},
         \/ UNCHANGED <<retained, returned>>
         \/ name \in struck'
         \/ \A j \in Writers \ {i} : Retention!Making(j) => path[j] # name,
         pc' \in [Writers -> {"idle", "open", "create", "copy", "compare"}],
         path' \in [Writers -> Retention!Names \cup {NoFile}], copied' \in [Writers -> Contents \cup {NoFile}],
         \A j \in Writers \ {i} : pc'[j] = pc[j] /\ path'[j] = path[j] /\ copied'[j] = copied[j],
         Retention!IntakeFits(i)',
         name \in returned' \ struck' => Retention!Intact(name)'
  PROVE  Retention!RetentionInv'
<1>1. disturbances' \in 0 .. MaxDisturbances
  BY ConstantsAssumption DEF Retention!RetentionInv, Retention!NoFault, Retention!Fault
<1>2. Retention!RetainedUnlessStruck'
  BY DEF Retention!RetentionInv, Retention!RetainedUnlessStruck, Retention!Intact
<1>3. ASSUME NEW j \in Writers, j # i PROVE Retention!IntakeFits(j)'
  <2>1. Retention!IntakeFits(j) /\ pc'[j] = pc[j] /\ path'[j] = path[j] /\ copied'[j] = copied[j]
    BY <1>3 DEF Retention!RetentionInv
  <2>2. ASSUME Retention!Making(j), path[j] \notin struck'
        PROVE  retained'[path[j]] = retained[path[j]] /\ (path[j] \in returned' <=> path[j] \in returned)
    <3>1. path[j] \in Retention!Names
      BY <2>1, <2>2 DEF Retention!IntakeFits, Retention!Making
    <3>. QED
      BY <1>3, <2>2, <3>1
  <2>3. \A n : n \notin struck' => n \notin struck
    OBVIOUS
  <2>. QED
    BY <2>1, <2>2, <2>3 DEF Retention!IntakeFits, Retention!Making, Retention!Owns
<1>. QED
  BY <1>1, <1>2, <1>3 DEF Retention!RetentionInv

(* An intake leaves, with the files as they are, or with one removed that nobody else is making unless it is struck. *)
LEMMA IntakeLeaves ==
  ASSUME Retention!RetentionInv, NEW i \in Writers, UNCHANGED source, Retention!NoFault \/ Retention!Fault,
         pc[i] # "idle", Retention!Leave(i), UNCHANGED retained \/ Retention!RemoveIncompleteCopy(i),
         NEW name, name = path[i],
         struck' \in {struck, struck \cup {name}}, returned' \in {returned, returned \cup {name}},
         \/ UNCHANGED <<retained, returned>>
         \/ name \in struck'
         \/ \A j \in Writers \ {i} : Retention!Making(j) => path[j] # name,
         name \in returned' \ struck' => Retention!Intact(name)'
  PROVE  Retention!RetentionInv'
<1>1. name \in Retention!Names
  BY DEF Retention!RetentionInv, Retention!IntakeFits
<1>2. /\ retained' \in [Retention!Names -> Retention!Files \cup {NoFile}]
      /\ \A n \in Retention!Names \ {name} : retained'[n] = retained[n]
  BY <1>1 DEF Retention!RetentionInv, Retention!RemoveIncompleteCopy
<1>3. /\ pc' \in [Writers -> {"idle", "open", "create", "copy", "compare"}] /\ pc'[i] = "idle"
      /\ path' \in [Writers -> Retention!Names \cup {NoFile}] /\ copied' \in [Writers -> Contents \cup {NoFile}]
      /\ \A j \in Writers \ {i} : pc'[j] = pc[j] /\ path'[j] = path[j] /\ copied'[j] = copied[j]
  BY DEF Retention!RetentionInv, Retention!Goto, Retention!Leave
<1>4. Retention!IntakeFits(i)'
  BY <1>3 DEF Retention!IntakeFits, Retention!Making
<1>. QED
  BY <1>1, <1>2, <1>3, <1>4, IntakeMoves

(* A file that is made has one maker, unless it is struck; what was not returned stays unreturned. *)
LEMMA OneMaker ==
  ASSUME Retention!RetentionInv, NEW i \in Writers, Retention!Making(i), path[i] \notin struck
  PROVE  path[i] \notin returned /\ \A j \in Writers \ {i} : Retention!Making(j) => path[j] # path[i]
BY DEF Retention!RetentionInv, Retention!IntakeFits, Retention!Owns

(* The files of a maker that fails, or finds that it has copied something else. *)
LEMMA MakerFails ==
  ASSUME Retention!RetentionInv, NEW i \in Writers, Retention!Making(i), Retention!RemoveIncompleteCopy(i), Retention!Leave(i),
         UNCHANGED <<source, returned, struck>>, Retention!NoFault \/ Retention!Fault
  PROVE  Retention!RetentionInv'
<1>1. PICK name : name = path[i]
  OBVIOUS
<1>2. name \in struck \/ (name \notin returned /\ \A j \in Writers \ {i} : Retention!Making(j) => path[j] # name)
  BY <1>1, OneMaker
<1>. QED
  BY <1>1, <1>2, IntakeLeaves DEF Retention!Making

LEMMA StrikeStep ==
  ASSUME Retention!RetentionInv, NEW i \in Writers, pc[i] # "idle", Retention!Strike(i), UNCHANGED <<source, returned>>,
         Retention!NoFault \/ Retention!Fault
  PROVE  Retention!RetentionInv'
<1>1. PICK name : name = path[i]
  OBVIOUS
<1>2. CASE UNCHANGED retained
  <2>1. name \in returned' \ struck' => Retention!Intact(name)'
    BY <1>2 DEF Retention!Strike, Retention!RetentionInv, Retention!RetainedUnlessStruck, Retention!Intact
  <2>. QED
    BY <1>1, <1>2, <2>1, IntakeLeaves DEF Retention!Strike
<1>3. CASE ~ UNCHANGED retained
  BY <1>1, <1>3, IntakeLeaves DEF Retention!Strike
<1>. QED
  BY <1>2, <1>3

LEMMA RetentionStep == Retention!RetentionInv /\ Retention!Next => Retention!RetentionInv'
<1>. SUFFICES ASSUME Retention!RetentionInv, Retention!Next PROVE Retention!RetentionInv'
  OBVIOUS
<1>1. CASE Retention!Teacher
  BY <1>1, TeacherStep
<1>2. ASSUME NEW i \in Writers PROVE Retention!IntakeFits(i)
  BY DEF Retention!RetentionInv
<1>3. ASSUME UNCHANGED <<retained, returned, struck>>, NEW name PROVE name \in returned' \ struck' => Retention!Intact(name)'
  BY <1>3 DEF Retention!RetentionInv, Retention!RetainedUnlessStruck, Retention!Intact
<1>4. ASSUME NEW i \in Writers, pc[i] # "idle", Retention!Leave(i), UNCHANGED <<source, retained, returned, struck>>,
             Retention!NoFault \/ Retention!Fault
      PROVE  Retention!RetentionInv'
  <2>1. PICK name : name = path[i]
    OBVIOUS
  <2>2. name \in returned' \ struck' => Retention!Intact(name)'
    BY <1>3, <1>4
  <2>. QED
    BY <1>4, <2>1, <2>2, IntakeLeaves
<1>5. ASSUME NEW i \in Writers, NEW timestamp \in Timestamps, Retention!Hash(i, timestamp) PROVE Retention!RetentionInv'
  <2>. DEFINE name == [timestamp |-> timestamp, sha256 |-> source]
  <2>1. name \in Retention!Names
    BY <1>5 DEF Retention!RetentionInv, Retention!Hash, Retention!Names
  <2>2. /\ pc' \in [Writers -> {"idle", "open", "create", "copy", "compare"}] /\ pc'[i] = "open" /\ path'[i] = name
        /\ path' \in [Writers -> Retention!Names \cup {NoFile}] /\ UNCHANGED copied
        /\ \A j \in Writers \ {i} : pc'[j] = pc[j] /\ path'[j] = path[j]
    BY <1>5, <2>1 DEF Retention!RetentionInv, Retention!Goto, Retention!Hash
  <2>3. Retention!IntakeFits(i)'
    BY <2>1, <2>2 DEF Retention!IntakeFits, Retention!Making
  <2>. QED
    BY <1>3, <1>5, <2>1, <2>2, <2>3, IntakeMoves DEF Retention!Hash, Retention!RetentionInv
<1>6. ASSUME NEW i \in Writers, Retention!OpenSource(i) PROVE Retention!RetentionInv'
  <2>1. CASE Retention!Strike(i)
    BY <1>6, <2>1, StrikeStep DEF Retention!OpenSource
  <2>2. CASE /\ source # NoFile /\ copied' = [copied EXCEPT ![i] = source]
             /\ Retention!Goto(i, "create") /\ UNCHANGED <<retained, path, struck>> /\ Retention!NoFault
    <3>1. path[i] \in Retention!Names /\ source \in Contents
      BY <1>2, <1>6, <2>2 DEF Retention!OpenSource, Retention!IntakeFits, Retention!RetentionInv
    <3>2. /\ pc' \in [Writers -> {"idle", "open", "create", "copy", "compare"}] /\ pc'[i] = "create"
          /\ copied' \in [Writers -> Contents \cup {NoFile}] /\ copied'[i] \in Contents
          /\ \A j \in Writers \ {i} : pc'[j] = pc[j] /\ copied'[j] = copied[j]
      BY <2>2, <3>1 DEF Retention!RetentionInv, Retention!Goto
    <3>3. Retention!IntakeFits(i)'
      BY <2>2, <3>1, <3>2 DEF Retention!IntakeFits, Retention!Making
    <3>. QED
      BY <1>3, <1>6, <2>2, <3>1, <3>2, <3>3, IntakeMoves DEF Retention!OpenSource, Retention!RetentionInv
  <2>. QED
    BY <1>6, <2>1, <2>2 DEF Retention!OpenSource
<1>7. ASSUME NEW i \in Writers, Retention!CreateCopy(i) PROVE Retention!RetentionInv'
  <2>1. CASE Retention!Strike(i) /\ Retention!Fault
    BY <1>7, <2>1, StrikeStep DEF Retention!CreateCopy
  <2>2. CASE Retention!Leave(i) /\ UNCHANGED <<retained, struck>> /\ Retention!NoFault
    BY <1>4, <1>7, <2>2 DEF Retention!CreateCopy
  <2>3. CASE retained[path[i]] = NoFile /\ Retention!Create(i)
    <3>1. path[i] \in Retention!Names /\ copied[i] \in Contents
      BY <1>2, <1>7 DEF Retention!CreateCopy, Retention!IntakeFits
    <3>2. /\ retained' \in [Retention!Names -> Retention!Files \cup {NoFile}]
          /\ retained'[path[i]] = Retention!File(i, HalfCopied) /\ Retention!File(i, HalfCopied) \in Retention!Files
          /\ Retention!File(i, HalfCopied).maker = i
          /\ \A n \in Retention!Names \ {path[i]} : retained'[n] = retained[n]
      BY <2>3, <3>1 DEF Retention!RetentionInv, Retention!Create, Retention!Files, Retention!File
    <3>3. /\ pc' \in [Writers -> {"idle", "open", "create", "copy", "compare"}] /\ pc'[i] = "copy"
          /\ UNCHANGED <<path, copied>> /\ \A j \in Writers \ {i} : pc'[j] = pc[j]
      BY <2>3 DEF Retention!RetentionInv, Retention!Create, Retention!Goto
    <3>4. NoFile \notin Retention!Files /\ \A j \in Writers : NoFile # Retention!File(j, path[i].sha256)
      BY <3>1, FilesAssumption DEF Retention!Files, Retention!File, Retention!Names
    <3>5. path[i] \notin returned \ struck
      BY <2>3, <3>4 DEF Retention!RetentionInv, Retention!RetainedUnlessStruck, Retention!Intact
    <3>6. path[i] \notin struck => \A j \in Writers \ {i} : Retention!Making(j) => path[j] # path[i]
      BY <1>2, <2>3, <3>4 DEF Retention!IntakeFits, Retention!Owns
    <3>7. UNCHANGED <<source, returned, struck>> /\ Retention!NoFault
      BY <1>7, <2>3 DEF Retention!CreateCopy, Retention!Create
    <3>8. Retention!IntakeFits(i)'
      BY <3>1, <3>2, <3>3, <3>5, <3>7 DEF Retention!IntakeFits, Retention!Making, Retention!Owns
    <3>. QED
      BY <3>1, <3>2, <3>3, <3>5, <3>6, <3>7, <3>8, IntakeMoves DEF Retention!RetentionInv
  <2>. QED
    BY <1>7, <2>1, <2>2, <2>3 DEF Retention!CreateCopy
<1>8. ASSUME NEW i \in Writers, Retention!Copy(i) PROVE Retention!RetentionInv'
  <2>1. Retention!Making(i) /\ path[i] \in Retention!Names /\ copied[i] \in Contents
    BY <1>2, <1>8 DEF Retention!Copy, Retention!IntakeFits, Retention!Making
  <2>2. PICK read \in {copied[i], source} \ {NoFile} :
          /\ copied' = [copied EXCEPT ![i] = read]
          /\ retained' = IF Retention!Owns(i) THEN [retained EXCEPT ![path[i]] = Retention!File(i, read)] ELSE retained
    BY <1>8 DEF Retention!Copy
  <2>3. read \in Contents
    BY <2>1, <2>2 DEF Retention!RetentionInv
  <2>4. /\ retained' \in [Retention!Names -> Retention!Files \cup {NoFile}]
        /\ Retention!Owns(i) => retained'[path[i]] = Retention!File(i, read)
        /\ Retention!File(i, read) \in Retention!Files /\ Retention!File(i, read).maker = i
        /\ \A n \in Retention!Names \ {path[i]} : retained'[n] = retained[n]
    BY <2>1, <2>2, <2>3 DEF Retention!RetentionInv, Retention!Files, Retention!File
  <2>5. /\ pc' \in [Writers -> {"idle", "open", "create", "copy", "compare"}] /\ pc'[i] = "compare" /\ UNCHANGED path
        /\ copied' \in [Writers -> Contents \cup {NoFile}] /\ copied'[i] = read
        /\ \A j \in Writers \ {i} : pc'[j] = pc[j] /\ copied'[j] = copied[j]
    BY <1>8, <2>2, <2>3 DEF Retention!RetentionInv, Retention!Copy, Retention!Goto
  <2>6. UNCHANGED <<source, returned, struck>> /\ Retention!NoFault
    BY <1>8 DEF Retention!Copy
  <2>7. path[i] \notin struck => Retention!Owns(i) /\ path[i] \notin returned
    BY <1>2, <2>1 DEF Retention!IntakeFits
  <2>8. Retention!IntakeFits(i)'
    BY <2>1, <2>3, <2>4, <2>5, <2>6, <2>7 DEF Retention!IntakeFits, Retention!Making, Retention!Owns
  <2>. QED
    BY <2>1, <2>4, <2>5, <2>6, <2>7, <2>8, OneMaker, IntakeMoves DEF Retention!RetentionInv
<1>9. ASSUME NEW i \in Writers, Retention!Compare(i) PROVE Retention!RetentionInv'
  <2>1. Retention!Making(i) /\ pc[i] # "idle"
    BY <1>9 DEF Retention!Compare, Retention!Making
  <2>2. CASE Retention!RemoveIncompleteCopy(i) /\ UNCHANGED returned
    BY <1>9, <2>1, <2>2, MakerFails DEF Retention!Compare
  <2>3. CASE copied[i] = path[i].sha256 /\ returned' = returned \cup {path[i]} /\ UNCHANGED retained /\ Retention!NoFault
    <3>1. PICK name : name = path[i]
      OBVIOUS
    <3>2. name \notin struck => Retention!Intact(name)
      BY <1>2, <1>9, <2>1, <2>3, <3>1 DEF Retention!Compare, Retention!IntakeFits, Retention!Intact
    <3>3. name \in returned' \ struck' => Retention!Intact(name)'
      BY <1>9, <2>3, <3>2 DEF Retention!Compare, Retention!Intact
    <3>4. name \in struck' \/ \A j \in Writers \ {i} : Retention!Making(j) => path[j] # name
      BY <1>9, <2>1, <3>1, OneMaker DEF Retention!Compare
    <3>. QED
      BY <1>9, <2>1, <2>3, <3>1, <3>3, <3>4, IntakeLeaves DEF Retention!Compare
  <2>. QED
    BY <1>9, <2>2, <2>3 DEF Retention!Compare
<1>10. ASSUME NEW i \in Writers, Retention!CopyFails(i) PROVE Retention!RetentionInv'
  BY <1>10, MakerFails DEF Retention!CopyFails, Retention!Making
<1>11. ASSUME NEW i \in Writers, Retention!Crash(i) PROVE Retention!RetentionInv'
  BY <1>4, <1>11 DEF Retention!Crash
<1>. QED
  BY <1>1, <1>5, <1>6, <1>7, <1>8, <1>9, <1>10, <1>11 DEF Retention!Next

-----------------------------------------------------------------------------
(* Scan review. *)

LEMMA ReviewInit == Review!Init => Review!ReviewInv
<1>. SUFFICES ASSUME Review!Init PROVE Review!ReviewInv
  OBVIOUS
<1>1. Review!TypeOK
  BY ConstantsAssumption DEF Review!Init, Review!TypeOK, Review!Absent
<1>2. /\ \A name \in Review!Names : files[name] = Review!Absent /\ Review!Absent.status = "absent"
      /\ \A content : Review!Complete(content) # Review!Absent
  BY DEF Review!Init, Review!Absent, Review!Complete
<1>3. \A name \in Review!Names : Review!FileFits(name)
  BY <1>2 DEF Review!FileFits
<1>4. \A w \in Writers : Review!TaskFits(w)
  BY DEF Review!Init, Review!TaskFits, Review!Owns
<1>5. Review!DecisionsStayFounded
  BY <1>2 DEF Review!Init, Review!DecisionsStayFounded, Review!Holds, Review!Names
<1>. QED
  BY <1>1, <1>3, <1>4, <1>5 DEF Review!Init, Review!ReviewInv, Review!RecordsStay

(* Complete files stay, or are known to have been taken back. *)
FilesStay ==
  /\ takenBack \subseteq takenBack'
  /\ \A name \in Review!Names :
       files[name].status = "complete" => files'[name] = files[name] \/ name \in takenBack'

(* So what was founded, or belongs to its name, does so still. *)
LEMMA FoundedStays ==
  ASSUME FilesStay
  PROVE  /\ \A resolution \in Resolutions : Review!Founded(resolution) => Review!Founded(resolution)'
         /\ \A name, content : Review!Belongs(name, content) => Review!Belongs(name, content)'
<1>1. \A resolution \in Resolutions : Review!FailureName(resolution) \in Review!Names
  BY DEF Review!Names
<1>2. ASSUME NEW resolution \in Resolutions, Review!Founded(resolution) PROVE Review!Founded(resolution)'
  BY <1>1, <1>2 DEF FilesStay, Review!Founded, Review!FailureName
<1>3. ASSUME NEW name, NEW content, Review!Belongs(name, content) PROVE Review!Belongs(name, content)'
  BY <1>2, <1>3 DEF Review!Belongs, Review!RouteName
<1>. QED
  BY <1>2, <1>3

(* What is left to show of a step: its tasks and files fit, and what was handled is there. *)
LEMMA ReviewFollows ==
  ASSUME Review!ReviewInv, FilesStay, Review!TypeOK', DOMAIN files' = Review!Names, DOMAIN task' = Writers,
         pc' \in [Writers -> {"idle", "create", "fill", "fsync", "load_route", "load_failure"}],
         \A w \in Writers : Review!TaskFits(w)', \A name \in Review!Names : Review!FileFits(name)',
         \A record \in returned' : record.name \in Review!Names, Review!RecordsStay',
         \A registration \in handled' \ handled :
           /\ Review!RouteName(registration) \in Review!Names
           /\ Review!Holds(Review!RouteName(registration), registration)'
  PROVE  Review!ReviewInv'
<1>1. ASSUME NEW registration \in handled'
      PROVE  Review!RouteName(registration) \in takenBack' \/ Review!Holds(Review!RouteName(registration), registration)'
  <2>. SUFFICES ASSUME registration \in handled
       PROVE  Review!RouteName(registration) \in takenBack' \/ Review!Holds(Review!RouteName(registration), registration)'
    OBVIOUS
  <2>1. Review!RouteName(registration) \in takenBack \/ Review!Holds(Review!RouteName(registration), registration)
    BY DEF Review!ReviewInv, Review!DecisionsStayFounded
  <2>2. CASE Review!RouteName(registration) \in takenBack
    BY <2>2 DEF FilesStay
  <2>3. CASE Review!Holds(Review!RouteName(registration), registration) /\ Review!RouteName(registration) \in Review!Names
    BY <2>3 DEF FilesStay, Review!Holds, Review!Complete
  <2>4. Review!RouteName(registration) \in Review!Names
    BY DEF Review!ReviewInv
  <2>. QED
    BY <2>1, <2>2, <2>3, <2>4
<1>2. ASSUME NEW resolution \in Resolutions, Review!Holds(Review!ResolutionName(resolution), resolution)'
      PROVE  Review!Founded(resolution)'
  <2>1. Review!ResolutionName(resolution) \in Review!Names
    BY DEF Review!Names
  <2>2. Review!Belongs(Review!ResolutionName(resolution), resolution)'
    BY <1>2, <2>1 DEF Review!Holds, Review!FileFits, Review!Complete, Review!ResolutionName
  <2>. QED
    BY <2>2 DEF Review!Belongs, Review!ResolutionName
<1>3. \A registration \in handled' : Review!RouteName(registration) \in Review!Names
  BY DEF Review!ReviewInv
<1>4. Review!DecisionsStayFounded'
  BY <1>1, <1>2 DEF Review!DecisionsStayFounded
<1>. QED
  BY <1>3, <1>4 DEF Review!ReviewInv


OnlyWorker(w) == \A v \in Writers \ {w} : pc'[v] = pc[v] /\ task'[v] = task[v]

(* What a process has in hand before it has created its file. *)
InHand(w) ==
  \/ pc[w] = "idle" /\ task[w] = None
  \/ pc[w] = "create" /\ task[w].name \in Review!Names /\ Review!Belongs(task[w].name, task[w].content)
  \/ /\ pc[w] = "load_route" /\ task[w].name \in Review!Names
     /\ task[w].content \in Requests /\ task[w].name = Review!RouteName(task[w].content)
  \/ /\ pc[w] = "load_failure" /\ task[w].name \in Review!Names
     /\ task[w].content \in Resolutions /\ task[w].name = Review!ResolutionName(task[w].content)

(* Steps that change no file. *)
LEMMA QuietWorker ==
  ASSUME Review!ReviewInv, NEW w \in Writers, UNCHANGED <<files, returned, takenBack>>,
         UNCHANGED disturbances \/ Review!Fault, OnlyWorker(w), DOMAIN task' = Writers,
         pc' \in [Writers -> {"idle", "create", "fill", "fsync", "load_route", "load_failure"}], InHand(w)',
         \A registration \in handled' \ handled :
           /\ Review!RouteName(registration) \in Review!Names
           /\ Review!Holds(Review!RouteName(registration), registration)
  PROVE  Review!ReviewInv'
<1>1. FilesStay
  BY DEF FilesStay
<1>2. Review!TypeOK'
  BY ConstantsAssumption DEF Review!ReviewInv, Review!TypeOK, Review!Fault, OnlyWorker, InHand
<1>3. ASSUME NEW v \in Writers PROVE Review!TaskFits(v)'
  <2>1. CASE v = w
    BY <2>1 DEF InHand, Review!TaskFits, Review!Owns
  <2>2. CASE v # w
    <3>1. Review!TaskFits(v) /\ pc'[v] = pc[v] /\ task'[v] = task[v]
      BY <2>2 DEF Review!ReviewInv, OnlyWorker
    <3>2. ~ Review!Owns(w)' /\ \A u \in Writers \ {w} : Review!Owns(u)' => Review!Owns(u) /\ task'[u] = task[u]
      BY DEF InHand, Review!Owns, OnlyWorker
    <3>3. PICK name, content : name = task[v].name /\ content = task[v].content
      OBVIOUS
    <3>4. Review!Belongs(name, content) => Review!Belongs(name, content)'
      BY DEF Review!Belongs, Review!Founded
    <3>. QED
      BY <3>1, <3>2, <3>3, <3>4 DEF Review!TaskFits, Review!Owns, Review!Holds, Review!Belongs, Review!Founded
  <2>. QED
    BY <2>1, <2>2
<1>4. \A name \in Review!Names : Review!FileFits(name)'
  BY DEF Review!ReviewInv, Review!FileFits, Review!Belongs, Review!Founded
<1>5. Review!RecordsStay' /\ \A record \in returned' : record.name \in Review!Names
  BY DEF Review!ReviewInv, Review!RecordsStay, Review!Holds
<1>6. /\ DOMAIN files' = Review!Names
      /\ \A registration \in handled' \ handled :
           /\ Review!RouteName(registration) \in Review!Names
           /\ Review!Holds(Review!RouteName(registration), registration)'
  BY DEF Review!ReviewInv, Review!Holds
<1>. QED
  BY <1>1, <1>2, <1>3, <1>4, <1>5, <1>6, ReviewFollows

(* Steps of the one writer of a file that change this file. *)
LEMMA OwnerWrites ==
  ASSUME Review!ReviewInv, NEW w \in Writers, UNCHANGED <<returned, handled>>, task[w].name \in Review!Names,
         UNCHANGED disturbances \/ Review!Fault, OnlyWorker(w), DOMAIN task' = Writers,
         pc' \in [Writers -> {"idle", "create", "fill", "fsync", "load_route", "load_failure"}], FilesStay,
         \A v \in Writers \ {w} : Review!Owns(v) => task[v].name # task[w].name,
         \A record \in returned : record.name # task[w].name,
         NEW own, NEW content, own = task[w].name, content = task[w].content, Review!Belongs(own, content),
         NEW file, files' = [files EXCEPT ![own] = file],
         \/ pc'[w] = "idle" /\ task'[w] = None /\ file = Review!Absent
         \/ pc'[w] = "fill" /\ task'[w] = task[w] /\ file = Review!Torn
         \/ pc'[w] = "fsync" /\ task'[w] = task[w] /\ file = Review!Complete(content)
  PROVE  Review!ReviewInv'
<1>1. /\ DOMAIN files' = Review!Names /\ files'[own] = file
      /\ \A name \in Review!Names \ {own} : files'[name] = files[name]
  BY DEF Review!ReviewInv
<1>2. /\ file \in {Review!Absent, Review!Torn} \/ file = Review!Complete(content)
      /\ file.status \in {"absent", "torn", "complete"}
      /\ file.status = "complete" => file = Review!Complete(content) /\ file.content = content
  BY DEF Review!Absent, Review!Torn, Review!Complete
<1>3. Review!TypeOK'
  BY <1>1, <1>2, ConstantsAssumption DEF Review!ReviewInv, Review!TypeOK, Review!Fault, OnlyWorker
<1>4. Review!Belongs(own, content)'
  BY FoundedStays
<1>5. ASSUME NEW v \in Writers PROVE Review!TaskFits(v)'
  <2>1. /\ \A u \in Writers \ {w} : Review!Owns(u)' => Review!Owns(u) /\ task'[u] = task[u]
        /\ Review!Owns(w)' => task'[w] = task[w] /\ pc'[w] \in {"fill", "fsync"}
    BY DEF Review!Owns, OnlyWorker, Review!ReviewInv
  <2>2. CASE v = w
    <3>1. \A u \in Writers \ {w} : Review!Owns(u)' => task'[u].name # own
      BY <2>1
    <3>. QED
      BY <1>1, <1>4, <2>1, <2>2, <3>1 DEF Review!TaskFits, Review!Owns, Review!Holds, Review!Belongs, Review!Founded
  <2>3. CASE v # w
    <3>1. Review!TaskFits(v) /\ pc'[v] = pc[v] /\ task'[v] = task[v]
      BY <2>3 DEF Review!ReviewInv, OnlyWorker
    <3>2. PICK name, text : name = task[v].name /\ text = task[v].content
      OBVIOUS
    <3>3. Review!Belongs(name, text) => Review!Belongs(name, text)'
      BY FoundedStays
    <3>4. Review!Owns(v) => name # own /\ files'[name] = files[name]
      BY <1>1, <2>3, <3>1, <3>2 DEF Review!TaskFits, Review!Owns
    <3>. QED
      BY <2>1, <3>1, <3>2, <3>3, <3>4 DEF Review!TaskFits, Review!Owns, Review!Holds, Review!Belongs, Review!Founded
  <2>. QED
    BY <2>2, <2>3
<1>6. ASSUME NEW name \in Review!Names PROVE Review!FileFits(name)'
  <2>1. Review!FileFits(name)
    BY DEF Review!ReviewInv
  <2>2. CASE name = own
    <3>1. /\ files'[own] \in {Review!Absent, Review!Torn} \/ files'[own] = Review!Complete(files'[own].content)
          /\ files'[own].status = "complete" => files'[own].content = content
      BY <1>1, <1>2 DEF Review!Complete
    <3>. QED
      BY <1>4, <2>2, <3>1 DEF Review!FileFits, Review!Belongs, Review!Founded
  <2>3. CASE name # own
    <3>1. PICK text : text = files[name].content
      OBVIOUS
    <3>2. Review!Belongs(name, text) => Review!Belongs(name, text)'
      BY FoundedStays
    <3>. QED
      BY <1>1, <2>1, <2>3, <3>1, <3>2 DEF Review!FileFits
  <2>. QED
    BY <2>2, <2>3
<1>7. Review!RecordsStay' /\ \A record \in returned' : record.name \in Review!Names
  BY <1>1 DEF Review!ReviewInv, Review!RecordsStay, Review!Holds
<1>. QED
  BY <1>1, <1>3, <1>5, <1>6, <1>7, ReviewFollows


(* What a process has in hand when it begins or leaves. *)
LEMMA ReviewMoves ==
  ASSUME Review!ReviewInv, NEW w \in Writers
  PROVE  /\ Review!Leave(w) =>
              /\ OnlyWorker(w) /\ DOMAIN task' = Writers /\ pc'[w] = "idle" /\ task'[w] = None
              /\ pc' \in [Writers -> {"idle", "create", "fill", "fsync", "load_route", "load_failure"}]
         /\ \A phase \in {"create", "fill", "fsync"} : Review!Goto(w, phase) =>
              /\ OnlyWorker(w) /\ DOMAIN task' = Writers /\ pc'[w] = phase /\ task'[w] = task[w]
              /\ pc' \in [Writers -> {"idle", "create", "fill", "fsync", "load_route", "load_failure"}]
BY DEF Review!ReviewInv, Review!Leave, Review!Goto, OnlyWorker

LEMMA TaskBegins ==
  ASSUME Review!ReviewInv, NEW w \in Writers, NEW phase \in {"create", "load_route", "load_failure"}, NEW name, NEW content,
         Review!Begin(w, phase, name, content)
  PROVE  /\ OnlyWorker(w) /\ DOMAIN task' = Writers
         /\ pc'[w] = phase /\ task'[w].name = name /\ task'[w].content = content
         /\ pc' \in [Writers -> {"idle", "create", "fill", "fsync", "load_route", "load_failure"}]
BY DEF Review!ReviewInv, Review!Begin, OnlyWorker

(* A failure report may be created by whoever has its request. *)
LEMMA ReportsFit ==
  ASSUME Review!ReviewInv, NEW w \in Writers, NEW page \in Requests, NEW error, Review!Report(w, page, error)
  PROVE  /\ OnlyWorker(w) /\ DOMAIN task' = Writers /\ InHand(w)'
         /\ pc' \in [Writers -> {"idle", "create", "fill", "fsync", "load_route", "load_failure"}]
<1>1. Review!FailureName(page) \in Review!Names
  BY DEF Review!Names
<1>2. PICK content : content = Review!FailureOf(page, error)
  OBVIOUS
<1>3. Review!Belongs(Review!FailureName(page), content)'
  BY DEF Review!Belongs, Review!FailureName
<1>4. /\ pc'[w] = "create" /\ task'[w].name = Review!FailureName(page) /\ task'[w].content = content
      /\ OnlyWorker(w) /\ DOMAIN task' = Writers
      /\ pc' \in [Writers -> {"idle", "create", "fill", "fsync", "load_route", "load_failure"}]
  BY <1>2, TaskBegins DEF Review!Report
<1>. QED
  BY <1>1, <1>3, <1>4 DEF InHand, Review!Belongs, Review!Founded

LEMMA LeaveFits ==
  ASSUME Review!ReviewInv, NEW w \in Writers, Review!Leave(w), UNCHANGED <<files, returned, handled, takenBack>>,
         UNCHANGED disturbances \/ Review!Fault
  PROVE  Review!ReviewInv'
BY ReviewMoves, QuietWorker DEF InHand

LEMMA RegisterInv ==
  ASSUME Review!ReviewInv, NEW w \in Writers, NEW registration \in Registrations, Review!Register(w, registration)
  PROVE  Review!ReviewInv'
<1>1. Review!RouteName(registration) \in Review!Names
  BY DEF Review!Names
<1>2. Review!Belongs(Review!RouteName(registration), registration)'
  BY DEF Review!Belongs, Review!RouteName
<1>3. /\ OnlyWorker(w) /\ DOMAIN task' = Writers
      /\ pc' \in [Writers -> {"idle", "create", "fill", "fsync", "load_route", "load_failure"}]
  BY TaskBegins DEF Review!Register
<1>4. pc'[w] = "create" /\ task'[w].name = Review!RouteName(registration) /\ task'[w].content = registration
  BY TaskBegins DEF Review!Register
<1>5. InHand(w)'
  BY <1>1, <1>2, <1>4 DEF InHand, Review!Belongs, Review!Founded
<1>. QED
  BY <1>3, <1>5, QuietWorker DEF Review!Register, Review!NoFault

LEMMA DispatchInv ==
  ASSUME Review!ReviewInv, NEW w \in Writers, NEW page \in Requests, Review!Dispatch(w, page)
  PROVE  Review!ReviewInv'
<1>1. Review!RouteName(page) \in Review!Names
  BY DEF Review!Names
<1>2. \/ Review!Begin(w, "load_route", Review!RouteName(page), page)
      \/ \E error : Review!Report(w, page, error)
  BY DEF Review!Dispatch
<1>3. CASE Review!Begin(w, "load_route", Review!RouteName(page), page)
  <2>1. /\ pc'[w] = "load_route" /\ task'[w].name = Review!RouteName(page) /\ task'[w].content = page
        /\ OnlyWorker(w) /\ DOMAIN task' = Writers
        /\ pc' \in [Writers -> {"idle", "create", "fill", "fsync", "load_route", "load_failure"}]
    BY <1>3, TaskBegins
  <2>2. InHand(w)'
    BY <1>1, <2>1 DEF InHand, Review!RouteName
  <2>. QED
    BY <2>1, <2>2, QuietWorker DEF Review!Dispatch, Review!NoFault
<1>4. ASSUME NEW error, Review!Report(w, page, error) PROVE Review!ReviewInv'
  BY <1>4, ReportsFit, QuietWorker DEF Review!Dispatch, Review!NoFault
<1>. QED
  BY <1>2, <1>3, <1>4

LEMMA ResolutionInv ==
  ASSUME Review!ReviewInv, NEW w \in Writers, NEW resolution \in Resolutions, Review!Resolve(w, resolution)
  PROVE  Review!ReviewInv'
<1>1. Review!ResolutionName(resolution) \in Review!Names
  BY DEF Review!Names
<1>2. /\ pc'[w] = "load_failure" /\ task'[w].name = Review!ResolutionName(resolution) /\ task'[w].content = resolution
      /\ OnlyWorker(w) /\ DOMAIN task' = Writers
      /\ pc' \in [Writers -> {"idle", "create", "fill", "fsync", "load_route", "load_failure"}]
  BY TaskBegins DEF Review!Resolve
<1>3. InHand(w)'
  BY <1>1, <1>2 DEF InHand, Review!ResolutionName
<1>. QED
  BY <1>2, <1>3, QuietWorker DEF Review!Resolve, Review!NoFault

(* A page is handled under what its route's file holds. *)
LEMMA LoadRouteInv ==
  ASSUME Review!ReviewInv, NEW w \in Writers, Review!LoadRoute(w)
  PROVE  Review!ReviewInv'
<1>1. /\ task[w].content \in Requests /\ task[w].name = Review!RouteName(task[w].content)
      /\ task[w].name \in Review!Names
  BY DEF Review!ReviewInv, Review!LoadRoute, Review!TaskFits
<1>2. \/ \E error : Review!Report(w, task[w].content, error)
      \/ Review!Leave(w)
  BY DEF Review!LoadRoute
<1>3. /\ OnlyWorker(w) /\ DOMAIN task' = Writers /\ InHand(w)'
      /\ pc' \in [Writers -> {"idle", "create", "fill", "fsync", "load_route", "load_failure"}]
  BY <1>1, <1>2, ReviewMoves, ReportsFit DEF InHand
<1>4. ASSUME NEW registration \in handled' \ handled
      PROVE  /\ Review!RouteName(registration) \in Review!Names
             /\ Review!Holds(Review!RouteName(registration), registration)
  <2>1. Review!LoadRouteError(w) = "none" /\ registration = files[task[w].name].content
    BY DEF Review!LoadRoute
  <2>2. files[task[w].name] \notin {Review!Absent, Review!Torn}
    BY <2>1 DEF Review!LoadRouteError
  <2>3. Review!FileFits(task[w].name)
    BY <1>1 DEF Review!ReviewInv
  <2>4. files[task[w].name] = Review!Complete(registration)
    BY <2>1, <2>2, <2>3 DEF Review!FileFits
  <2>5. Review!Belongs(task[w].name, registration)
    BY <2>3, <2>4 DEF Review!FileFits, Review!Complete
  <2>6. task[w].name = Review!RouteName(registration)
    BY <1>1, <2>5 DEF Review!Belongs, Review!RouteName
  <2>. QED
    BY <1>1, <2>4, <2>6 DEF Review!Holds
<1>. QED
  BY <1>3, <1>4, QuietWorker DEF Review!LoadRoute, Review!NoFault

(* A resolution is founded on the failure its writer has read. *)
LEMMA VerifyLinkInv ==
  ASSUME Review!ReviewInv, NEW w \in Writers, Review!VerifyLink(w)
  PROVE  Review!ReviewInv'
<1>1. CASE Review!Leave(w)
  BY <1>1, LeaveFits DEF Review!VerifyLink, Review!NoFault
<1>2. ASSUME Review!Goto(w, "create"), files[Review!FailureName(task[w].content)].status = "complete",
             Review!Linked(task[w].content, files[Review!FailureName(task[w].content)].content)
      PROVE  Review!ReviewInv'
  <2>1. PICK name, content : name = task[w].name /\ content = task[w].content
    OBVIOUS
  <2>2. content \in Resolutions /\ name = Review!ResolutionName(content) /\ name \in Review!Names
    BY <2>1 DEF Review!ReviewInv, Review!VerifyLink, Review!TaskFits
  <2>3. UNCHANGED <<files, returned, handled, takenBack, disturbances>>
    BY DEF Review!VerifyLink, Review!NoFault
  <2>4. Review!Founded(content)'
    BY <1>2, <2>1, <2>3 DEF Review!Founded
  <2>5. Review!Belongs(name, content)'
    BY <2>2, <2>4 DEF Review!Belongs, Review!ResolutionName
  <2>6. /\ OnlyWorker(w) /\ DOMAIN task' = Writers /\ pc'[w] = "create" /\ task'[w] = task[w]
        /\ pc' \in [Writers -> {"idle", "create", "fill", "fsync", "load_route", "load_failure"}]
    BY <1>2, ReviewMoves
  <2>7. InHand(w)'
    BY <2>1, <2>2, <2>5, <2>6 DEF InHand, Review!Belongs, Review!Founded
  <2>. QED
    BY <2>3, <2>6, <2>7, QuietWorker
<1>. QED
  BY <1>1, <1>2 DEF Review!VerifyLink

LEMMA ReadFailsInv ==
  ASSUME Review!ReviewInv, NEW w \in Writers, Review!ReadFails(w)
  PROVE  Review!ReviewInv'
<1>1. CASE Review!Leave(w)
  BY <1>1, LeaveFits DEF Review!ReadFails
<1>2. CASE pc[w] = "load_route" /\ Review!Report(w, task[w].content, "RouteRegistrationRead")
  <2>1. task[w].content \in Requests
    BY <1>2 DEF Review!ReviewInv, Review!TaskFits
  <2>. QED
    BY <1>2, <2>1, ReportsFit, QuietWorker DEF Review!ReadFails
<1>. QED
  BY <1>1, <1>2 DEF Review!ReadFails

(* Nobody else has a file that is not there yet. *)
LEMMA AbsentIsFree ==
  ASSUME Review!ReviewInv, NEW name \in Review!Names, files[name] = Review!Absent
  PROVE  /\ \A v \in Writers : Review!Owns(v) => task[v].name # name
         /\ \A record \in returned : record.name # name
<1>1. \A content : Review!Complete(content) # Review!Absent /\ Review!Torn # Review!Absent
  BY DEF Review!Complete, Review!Absent, Review!Torn
<1>2. \A v \in Writers : Review!TaskFits(v)
  BY DEF Review!ReviewInv
<1>. QED
  BY <1>1, <1>2 DEF Review!ReviewInv, Review!TaskFits, Review!Owns, Review!Holds, Review!RecordsStay

LEMMA CreateInv ==
  ASSUME Review!ReviewInv, NEW w \in Writers, Review!Create(w)
  PROVE  Review!ReviewInv'
<1>1. CASE Review!Leave(w) /\ UNCHANGED files
  BY <1>1, LeaveFits DEF Review!Create, Review!NoFault
<1>2. ASSUME files[task[w].name] = Review!Absent, files' = [files EXCEPT ![task[w].name] = Review!Torn],
             Review!Goto(w, "fill")
      PROVE  Review!ReviewInv'
  <2>1. PICK own, content : own = task[w].name /\ content = task[w].content
    OBVIOUS
  <2>2. own \in Review!Names /\ Review!Belongs(own, content)
    BY <2>1 DEF Review!ReviewInv, Review!Create, Review!TaskFits
  <2>3. FilesStay
    BY <1>2, <2>1, <2>2 DEF FilesStay, Review!Create, Review!Absent, Review!ReviewInv
  <2>4. /\ \A v \in Writers : Review!Owns(v) => task[v].name # own
        /\ \A record \in returned : record.name # own
    BY <1>2, <2>1, <2>2, AbsentIsFree
  <2>5. /\ OnlyWorker(w) /\ DOMAIN task' = Writers /\ pc'[w] = "fill" /\ task'[w] = task[w]
        /\ pc' \in [Writers -> {"idle", "create", "fill", "fsync", "load_route", "load_failure"}]
    BY <1>2, ReviewMoves
  <2>. QED
    BY <1>2, <2>1, <2>2, <2>3, <2>4, <2>5, OwnerWrites DEF Review!Create, Review!NoFault
<1>. QED
  BY <1>1, <1>2 DEF Review!Create

(* Who writes a file has it to itself. *)
LEMMA OwnerIsAlone ==
  ASSUME Review!ReviewInv, NEW w \in Writers, Review!Owns(w)
  PROVE  /\ task[w].name \in Review!Names /\ Review!Belongs(task[w].name, task[w].content)
         /\ \A v \in Writers \ {w} : Review!Owns(v) => task[v].name # task[w].name
         /\ \A record \in returned : record.name # task[w].name
         /\ pc[w] = "fill" => files[task[w].name] = Review!Torn
<1>1. Review!TaskFits(w)
  BY DEF Review!ReviewInv
<1>. QED
  BY <1>1 DEF Review!TaskFits, Review!Owns

LEMMA FillInv ==
  ASSUME Review!ReviewInv, NEW w \in Writers, Review!Fill(w)
  PROVE  Review!ReviewInv'
<1>1. Review!Owns(w) /\ pc[w] = "fill"
  BY DEF Review!Fill, Review!Owns
<1>2. PICK own, content : own = task[w].name /\ content = task[w].content
  OBVIOUS
<1>3. /\ own \in Review!Names /\ Review!Belongs(own, content) /\ files[own] = Review!Torn
      /\ \A v \in Writers \ {w} : Review!Owns(v) => task[v].name # own
      /\ \A record \in returned : record.name # own
  BY <1>1, <1>2, OwnerIsAlone
<1>4. files' = [files EXCEPT ![own] = Review!Complete(content)]
  BY <1>2 DEF Review!Fill
<1>5. FilesStay
  BY <1>3, <1>4 DEF FilesStay, Review!Fill, Review!Torn, Review!ReviewInv
<1>6. /\ OnlyWorker(w) /\ DOMAIN task' = Writers /\ pc'[w] = "fsync" /\ task'[w] = task[w]
      /\ pc' \in [Writers -> {"idle", "create", "fill", "fsync", "load_route", "load_failure"}]
  BY ReviewMoves DEF Review!Fill
<1>7. UNCHANGED <<returned, handled, disturbances>>
  BY DEF Review!Fill, Review!NoFault
<1>8. PICK file : file = Review!Complete(content)
  OBVIOUS
<1>. QED
  BY <1>2, <1>3, <1>4, <1>5, <1>6, <1>7, <1>8, OwnerWrites

LEMMA WriteFailsReview ==
  ASSUME Review!ReviewInv, NEW w \in Writers, Review!WriteFails(w)
  PROVE  Review!ReviewInv'
<1>1. CASE UNCHANGED <<files, takenBack>>
  BY <1>1, LeaveFits DEF Review!WriteFails
<1>2. ASSUME files' = [files EXCEPT ![task[w].name] = Review!Absent],
             takenBack' = IF pc[w] = "fsync" THEN takenBack \cup {task[w].name} ELSE takenBack
      PROVE  Review!ReviewInv'
  <2>1. Review!Owns(w)
    BY DEF Review!WriteFails, Review!Owns
  <2>2. PICK own, content : own = task[w].name /\ content = task[w].content
    OBVIOUS
  <2>3. /\ own \in Review!Names /\ Review!Belongs(own, content) /\ (pc[w] = "fill" => files[own] = Review!Torn)
        /\ \A v \in Writers \ {w} : Review!Owns(v) => task[v].name # own
        /\ \A record \in returned : record.name # own
    BY <2>1, <2>2, OwnerIsAlone
  <2>4. FilesStay
    BY <1>2, <2>1, <2>2, <2>3 DEF FilesStay, Review!Owns, Review!Torn, Review!ReviewInv
  <2>5. /\ OnlyWorker(w) /\ DOMAIN task' = Writers /\ pc'[w] = "idle" /\ task'[w] = None
        /\ pc' \in [Writers -> {"idle", "create", "fill", "fsync", "load_route", "load_failure"}]
    BY ReviewMoves DEF Review!WriteFails
  <2>. QED
    BY <1>2, <2>2, <2>3, <2>4, <2>5, OwnerWrites DEF Review!WriteFails
<1>. QED
  BY <1>1, <1>2 DEF Review!WriteFails

(* The record is now one of those that were returned. *)
LEMMA FsyncInv ==
  ASSUME Review!ReviewInv, NEW w \in Writers, Review!Fsync(w)
  PROVE  Review!ReviewInv'
<1>1. Review!Owns(w) /\ pc[w] = "fsync"
  BY DEF Review!Fsync, Review!Owns
<1>2. Review!TaskFits(w) /\ Review!Holds(task[w].name, task[w].content)
  BY <1>1 DEF Review!ReviewInv, Review!TaskFits
<1>3. /\ OnlyWorker(w) /\ DOMAIN task' = Writers /\ pc'[w] = "idle" /\ task'[w] = None
      /\ pc' \in [Writers -> {"idle", "create", "fill", "fsync", "load_route", "load_failure"}]
  BY ReviewMoves DEF Review!Fsync
<1>4. UNCHANGED <<files, handled, takenBack, disturbances>> /\ returned' = returned \cup {task[w]}
  BY DEF Review!Fsync, Review!NoFault
<1>5. FilesStay
  BY <1>4 DEF FilesStay
<1>6. Review!TypeOK'
  BY <1>3, <1>4 DEF Review!ReviewInv, Review!TypeOK, OnlyWorker
<1>7. ASSUME NEW v \in Writers PROVE Review!TaskFits(v)'
  <2>1. CASE v = w
    BY <1>3, <2>1 DEF Review!TaskFits, Review!Owns
  <2>2. CASE v # w
    <3>1. Review!TaskFits(v) /\ pc'[v] = pc[v] /\ task'[v] = task[v]
      BY <1>3, <2>2 DEF Review!ReviewInv, OnlyWorker
    <3>2. ~ Review!Owns(w)' /\ \A u \in Writers \ {w} : Review!Owns(u)' => Review!Owns(u) /\ task'[u] = task[u]
      BY <1>3 DEF Review!Owns, OnlyWorker
    <3>3. PICK name, content : name = task[v].name /\ content = task[v].content
      OBVIOUS
    <3>4. Review!Belongs(name, content) => Review!Belongs(name, content)'
      BY <1>4 DEF Review!Belongs, Review!Founded
    <3>5. Review!Owns(v) => \A record \in returned' : name # record.name
      BY <1>1, <1>4, <2>2, <3>1, <3>3 DEF Review!TaskFits
    <3>. QED
      BY <1>4, <3>1, <3>2, <3>3, <3>4, <3>5 DEF Review!TaskFits, Review!Owns, Review!Holds, Review!Belongs, Review!Founded
  <2>. QED
    BY <2>1, <2>2
<1>8. \A name \in Review!Names : Review!FileFits(name)'
  BY <1>4 DEF Review!ReviewInv, Review!FileFits, Review!Belongs, Review!Founded
<1>9. Review!RecordsStay' /\ \A record \in returned' : record.name \in Review!Names
  BY <1>1, <1>2, <1>4 DEF Review!ReviewInv, Review!RecordsStay, Review!Holds, Review!TaskFits
<1>10. DOMAIN files' = Review!Names
  BY <1>4 DEF Review!ReviewInv
<1>. QED
  BY <1>3, <1>4, <1>5, <1>6, <1>7, <1>8, <1>9, <1>10, ReviewFollows

LEMMA ReviewStep == Review!ReviewInv /\ Review!Next => Review!ReviewInv'
<1>. SUFFICES ASSUME Review!ReviewInv, NEW w \in Writers,
                     \/ \E registration \in Registrations : Review!Register(w, registration)
                     \/ \E page \in Requests : Review!Dispatch(w, page)
                     \/ \E resolution \in Resolutions : Review!Resolve(w, resolution)
                     \/ Review!Create(w) \/ Review!Fill(w) \/ Review!Fsync(w) \/ Review!LoadRoute(w) \/ Review!VerifyLink(w)
                     \/ Review!ReadFails(w) \/ Review!CreateFails(w) \/ Review!WriteFails(w) \/ Review!Crash(w)
     PROVE  Review!ReviewInv'
  BY DEF Review!Next
<1>1. CASE Review!CreateFails(w) \/ Review!Crash(w)
  BY <1>1, LeaveFits DEF Review!CreateFails, Review!Crash
<1>. QED
  BY <1>1, RegisterInv, DispatchInv, ResolutionInv, CreateInv, FillInv, FsyncInv, LoadRouteInv, VerifyLinkInv, ReadFailsInv,
     WriteFailsReview

-----------------------------------------------------------------------------
(* Rosters as sequences. *)

(* The library's operators are the same in an instance. *)
LEMMA LibraryOperators ==
  /\ \A S : Roster!Cardinality(S) = Cardinality(S)
  /\ \A r, i : Roster!RemoveAt(r, i) = RemoveAt(r, i)
<1>1. ASSUME NEW S PROVE Roster!Cardinality(S) = Cardinality(S)
  BY Zenon DEF Roster!Cardinality, Cardinality
<1>2. ASSUME NEW r, NEW i PROVE Roster!RemoveAt(r, i) = RemoveAt(r, i)
  BY Zenon DEF Roster!RemoveAt, RemoveAt
<1>. QED
  BY <1>1, <1>2

LEMMA ValidMeans ==
  ASSUME NEW r
  PROVE  Roster!ValidRoster(r) <=> r # << >> /\ Cardinality(Roster!Ids(r)) = Len(r)
BY LibraryOperators DEF Roster!ValidRoster

LEMMA IdsFacts ==
  ASSUME NEW r \in Seq(Students)
  PROVE  /\ IsFiniteSet(Roster!Ids(r)) /\ Cardinality(Roster!Ids(r)) \in Nat
         /\ Cardinality(Roster!Ids(r)) <= Len(r)
         /\ Cardinality(Roster!Ids(r)) = Len(r) =>
              \A i, j \in 1 .. Len(r) : r[i].student_id = r[j].student_id => i = j
<1>. DEFINE f == [i \in 1 .. Len(r) |-> r[i].student_id]
<1>1. f \in Surjection(1 .. Len(r), Roster!Ids(r))
  BY DEF Roster!Ids, Surjection
<1>2. IsFiniteSet(1 .. Len(r)) /\ Cardinality(1 .. Len(r)) = Len(r)
  <2>1. Len(r) \in Nat
    BY LenProperties
  <2>. QED
    BY <2>1, FS_Interval
<1>3. /\ IsFiniteSet(Roster!Ids(r)) /\ Cardinality(Roster!Ids(r)) <= Len(r)
      /\ Cardinality(Roster!Ids(r)) = Len(r) => f \in Injection(1 .. Len(r), Roster!Ids(r))
  BY <1>1, <1>2, FS_Surjection
<1>4. Cardinality(Roster!Ids(r)) \in Nat
  BY <1>3, FS_CardinalityType
<1>5. ASSUME f \in Injection(1 .. Len(r), Roster!Ids(r)), NEW i \in 1 .. Len(r), NEW j \in 1 .. Len(r),
             r[i].student_id = r[j].student_id
      PROVE  i = j
  <2>1. f[i] = f[j]
    BY <1>5
  <2>. QED
    BY <1>5, <2>1 DEF Injection, IsInjective
<1>. QED
  BY <1>3, <1>4, <1>5

(* A student of another ID may be appended. *)
LEMMA AppendIsValid ==
  ASSUME NEW r \in Seq(Students), Roster!ValidRoster(r), NEW student \in Students, student.student_id \notin Roster!Ids(r)
  PROVE  Append(r, student) \in Seq(Students) /\ Roster!ValidRoster(Append(r, student))
<1>1. PICK longer : longer = Append(r, student)
  OBVIOUS
<1>2. /\ longer \in Seq(Students) /\ longer # << >> /\ Len(longer) = Len(r) + 1
      /\ \A i \in 1 .. Len(r) : longer[i] = r[i]
      /\ longer[Len(r) + 1] = student
  BY <1>1, AppendProperties
<1>3. /\ Len(r) \in Nat /\ DOMAIN r = 1 .. Len(r) /\ DOMAIN longer = 1 .. Len(longer)
      /\ 1 .. Len(longer) = 1 .. Len(r) \cup {Len(r) + 1}
  BY <1>2, LenProperties
<1>4. Roster!Ids(longer) = Roster!Ids(r) \cup {student.student_id}
  BY <1>2, <1>3 DEF Roster!Ids
<1>5. IsFiniteSet(Roster!Ids(r)) /\ Cardinality(Roster!Ids(r)) = Len(r)
  BY IdsFacts, ValidMeans
<1>6. Cardinality(Roster!Ids(longer)) = Len(longer)
  BY <1>2, <1>4, <1>5, FS_AddElement
<1>7. Roster!ValidRoster(longer)
  BY <1>2, <1>6, ValidMeans
<1>. QED
  BY <1>1, <1>2, <1>7

(* A student may take the place of the one of that ID. *)
LEMMA ReplacedIsValid ==
  ASSUME NEW r \in Seq(Students), Roster!ValidRoster(r), NEW student \in Students
  PROVE  Roster!Replaced(r, student) \in Seq(Students) /\ Roster!ValidRoster(Roster!Replaced(r, student))
<1>. DEFINE replaced == Roster!Replaced(r, student)
<1>1. /\ replaced \in Seq(Students) /\ Len(replaced) = Len(r) /\ DOMAIN replaced = 1 .. Len(r)
      /\ \A i \in 1 .. Len(r) : replaced[i].student_id = r[i].student_id
  BY DEF Roster!Replaced
<1>2. Roster!Ids(replaced) = Roster!Ids(r)
  BY <1>1 DEF Roster!Ids
<1>. QED
  BY <1>1, <1>2, ValidMeans

(* One student of several may go. *)
LEMMA RemoveAtFacts ==
  ASSUME NEW r \in Seq(Students), NEW k \in 1 .. Len(r)
  PROVE  /\ RemoveAt(r, k) \in Seq(Students) /\ Len(RemoveAt(r, k)) = Len(r) - 1
         /\ \A i \in 1 .. Len(r) - 1 : RemoveAt(r, k)[i] = IF i <= k - 1 THEN r[i] ELSE r[i + 1]
<1>1. PICK before, after : before = SubSeq(r, 1, k - 1) /\ after = SubSeq(r, k + 1, Len(r))
  OBVIOUS
<1>2. Len(r) \in Nat /\ k \in Nat /\ \A i \in 1 .. Len(r) : r[i] \in Students
  BY LenProperties, ElementOfSeq
<1>3. /\ before \in Seq(Students) /\ Len(before) = k - 1
      /\ \A i \in 1 .. k - 1 : before[i] = r[i]
  BY <1>1, <1>2, SubSeqProperties
<1>4. /\ after \in Seq(Students) /\ Len(after) = Len(r) - k
      /\ \A i \in 1 .. Len(r) - k : after[i] = r[k + i]
  BY <1>1, <1>2, SubSeqProperties
<1>5. PICK rest : rest = before \o after
  OBVIOUS
<1>6. /\ rest \in Seq(Students) /\ Len(rest) = Len(before) + Len(after)
      /\ \A i \in 1 .. Len(before) + Len(after) : rest[i] = IF i <= Len(before) THEN before[i] ELSE after[i - Len(before)]
  BY <1>3, <1>4, <1>5, ConcatProperties
<1>7. /\ Len(rest) = Len(r) - 1
      /\ \A i \in 1 .. Len(r) - 1 : rest[i] = IF i <= k - 1 THEN before[i] ELSE after[i - (k - 1)]
  BY <1>2, <1>3, <1>4, <1>6
<1>8. \A i \in 1 .. Len(r) - 1 : rest[i] = IF i <= k - 1 THEN r[i] ELSE r[i + 1]
  BY <1>2, <1>3, <1>4, <1>7
<1>. QED
  BY <1>1, <1>5, <1>6, <1>7, <1>8 DEF RemoveAt

LEMMA RestIsValid ==
  ASSUME NEW r \in Seq(Students), Roster!ValidRoster(r), Len(r) > 1, NEW k \in 1 .. Len(r)
  PROVE  RemoveAt(r, k) \in Seq(Students) /\ Roster!ValidRoster(RemoveAt(r, k))
<1>1. PICK rest : rest = RemoveAt(r, k)
  OBVIOUS
<1>2. /\ rest \in Seq(Students) /\ Len(rest) = Len(r) - 1
      /\ \A i \in 1 .. Len(r) - 1 : rest[i] = IF i <= k - 1 THEN r[i] ELSE r[i + 1]
  BY <1>1, RemoveAtFacts
<1>3. Len(r) \in Nat /\ DOMAIN r = 1 .. Len(r) /\ DOMAIN rest = 1 .. Len(r) - 1
  BY <1>2, LenProperties
<1>4. Roster!Ids(r) \subseteq Roster!Ids(rest) \cup {r[k].student_id}
  <2>1. ASSUME NEW i \in 1 .. Len(r), i # k PROVE r[i].student_id \in Roster!Ids(rest)
    <3>1. CASE i < k
      <4>1. i \in 1 .. Len(r) - 1 /\ rest[i] = r[i]
        BY <1>2, <1>3, <3>1
      <4>. QED
        BY <1>3, <4>1 DEF Roster!Ids
    <3>2. CASE i > k
      <4>1. i - 1 \in 1 .. Len(r) - 1 /\ rest[i - 1] = r[i]
        BY <1>2, <1>3, <3>2
      <4>. QED
        BY <1>3, <4>1 DEF Roster!Ids
    <3>. QED
      BY <2>1, <3>1, <3>2
  <2>. QED
    BY <1>3, <2>1 DEF Roster!Ids
<1>5. /\ IsFiniteSet(Roster!Ids(rest)) /\ Cardinality(Roster!Ids(rest)) \in Nat
      /\ Cardinality(Roster!Ids(rest)) <= Len(r) - 1 /\ Cardinality(Roster!Ids(r)) = Len(r)
  BY <1>2, IdsFacts, ValidMeans
<1>6. PICK ids, more : ids = Roster!Ids(rest) /\ more = ids \cup {r[k].student_id}
  OBVIOUS
<1>7. IsFiniteSet(more) /\ Cardinality(more) = IF r[k].student_id \in ids THEN Cardinality(ids) ELSE Cardinality(ids) + 1
  BY <1>5, <1>6, FS_AddElement
<1>8. Cardinality(Roster!Ids(r)) <= Cardinality(more)
  BY <1>4, <1>6, <1>7, FS_Subset
<1>9. Cardinality(Roster!Ids(rest)) = Len(rest)
  BY <1>2, <1>3, <1>5, <1>6, <1>7, <1>8
<1>10. Roster!ValidRoster(rest)
  BY <1>2, <1>3, <1>9, ValidMeans
<1>. QED
  BY <1>1, <1>2, <1>10


LEMMA StudentIsFound ==
  ASSUME NEW r \in Seq(Students), Roster!ValidRoster(r)
  PROVE  /\ \A i \in DOMAIN r : Roster!Student(r, r[i].student_id) = r[i]
         /\ \A id \in Roster!Ids(r) : \E i \in DOMAIN r : r[i].student_id = id /\ Roster!Student(r, id) = r[i]
<1>1. DOMAIN r = 1 .. Len(r)
  BY LenProperties
<1>2. \A i, j \in DOMAIN r : r[i].student_id = r[j].student_id => i = j
  BY <1>1, IdsFacts, ValidMeans
<1>3. ASSUME NEW i \in DOMAIN r PROVE Roster!Student(r, r[i].student_id) = r[i]
  <2>1. PICK k : k = CHOOSE j \in DOMAIN r : r[j].student_id = r[i].student_id
    OBVIOUS
  <2>2. k \in DOMAIN r /\ r[k].student_id = r[i].student_id
    BY <2>1
  <2>. QED
    BY <1>2, <2>1, <2>2 DEF Roster!Student
<1>4. \A id \in Roster!Ids(r) : \E i \in DOMAIN r : r[i].student_id = id
  BY DEF Roster!Ids
<1>. QED
  BY <1>3, <1>4

(* The four lists share no student and leave none out. *)
LEMMA ListsCover ==
  ASSUME NEW before, IsFiniteSet(before), NEW after, IsFiniteSet(after), NEW same \in SUBSET (before \cap after)
  PROVE  Cardinality(after \ before) + Cardinality(before \ after) + Cardinality(same)
           + Cardinality((before \cap after) \ same) = Cardinality(before \cup after)
<1>1. PICK both : both = before \cap after
  OBVIOUS
<1>2. IsFiniteSet(both) /\ both = after \cap before /\ same = both \cap same
  BY <1>1, FS_Intersection
<1>3. /\ Cardinality(after \ before) = Cardinality(after) - Cardinality(both)
      /\ Cardinality(before \ after) = Cardinality(before) - Cardinality(both)
  <2>1. Cardinality(after \ before) = Cardinality(after) - Cardinality(after \cap before)
    BY FS_Difference
  <2>2. Cardinality(before \ after) = Cardinality(before) - Cardinality(before \cap after)
    BY FS_Difference
  <2>. QED
    BY <1>1, <1>2, <2>1, <2>2
<1>4. Cardinality(both \ same) = Cardinality(both) - Cardinality(same)
  <2>1. Cardinality(both \ same) = Cardinality(both) - Cardinality(both \cap same)
    BY <1>2, FS_Difference
  <2>. QED
    BY <1>2, <2>1
<1>5. Cardinality(before \cup after) = Cardinality(before) + Cardinality(after) - Cardinality(both)
  BY <1>1, FS_Union
<1>6. IsFiniteSet(same)
  BY <1>1, <1>2, FS_Subset
<1>7. /\ Cardinality(before) \in Nat /\ Cardinality(after) \in Nat /\ Cardinality(both) \in Nat
      /\ Cardinality(same) \in Nat
  BY <1>2, <1>6, FS_CardinalityType
<1>. QED
  BY <1>1, <1>3, <1>4, <1>5, <1>7

LEMMA ComparisonAccounts ==
  ASSUME NEW held \in Roster!Rosters, NEW proposed \in Roster!Rosters \ {NoFile},
         NEW c, c = Roster!Comparison(held, proposed)
  PROVE  /\ Cardinality(c.additions) + Cardinality(c.removals) + Cardinality(c.unchanged) + Cardinality(c.changes)
              = Cardinality(Roster!CurrentIds(held) \cup Roster!Ids(proposed))
         /\ Roster!StudentsOf(proposed) =
              {s \in Roster!StudentsOf(held) : s.student_id \in c.unchanged}
              \cup {Roster!Student(proposed, id) : id \in c.additions \cup c.changes}
<1>1. PICK before, after, same :
        /\ before = Roster!CurrentIds(held) /\ after = Roster!Ids(proposed)
        /\ same = {id \in before \cap after : Roster!Student(held, id) = Roster!Student(proposed, id)}
  OBVIOUS
<1>2. /\ c.additions = after \ before /\ c.removals = before \ after
      /\ c.unchanged = same /\ c.changes = (before \cap after) \ same
  BY <1>1 DEF Roster!Comparison
<1>3. proposed \in Seq(Students) /\ Roster!ValidRoster(proposed) /\ proposed # NoFile
  BY DEF Roster!Rosters
<1>4. held = NoFile \/ (held \in Seq(Students) /\ Roster!ValidRoster(held))
  BY DEF Roster!Rosters
<1>5. IsFiniteSet(before) /\ IsFiniteSet(after)
  BY <1>1, <1>3, <1>4, IdsFacts, FS_EmptySet DEF Roster!CurrentIds
<1>6. Cardinality(c.additions) + Cardinality(c.removals) + Cardinality(c.unchanged) + Cardinality(c.changes)
        = Cardinality(before \cup after)
  BY <1>1, <1>2, <1>5, ListsCover
<1>7. ASSUME NEW s \in Roster!StudentsOf(proposed)
      PROVE  \/ s \in Roster!StudentsOf(held) /\ s.student_id \in same
             \/ s \in {Roster!Student(proposed, id) : id \in (after \ before) \cup ((before \cap after) \ same)}
  <2>1. PICK i \in DOMAIN proposed : s = proposed[i]
    BY <1>3 DEF Roster!StudentsOf
  <2>2. s.student_id \in after /\ Roster!Student(proposed, s.student_id) = s
    BY <1>1, <1>3, <2>1, StudentIsFound DEF Roster!Ids
  <2>3. CASE s.student_id \in same
    <3>1. s.student_id \in before /\ Roster!Student(held, s.student_id) = s
      BY <1>1, <2>2, <2>3
    <3>2. held # NoFile /\ s.student_id \in Roster!Ids(held)
      BY <1>1, <3>1 DEF Roster!CurrentIds
    <3>3. s \in Roster!StudentsOf(held)
      BY <1>4, <3>1, <3>2, StudentIsFound DEF Roster!StudentsOf
    <3>. QED
      BY <2>3, <3>3
  <2>4. CASE s.student_id \notin same
    BY <2>2, <2>4
  <2>. QED
    BY <2>3, <2>4
<1>8. ASSUME NEW s \in Roster!StudentsOf(held), s.student_id \in same
      PROVE  s \in Roster!StudentsOf(proposed)
  <2>1. held # NoFile
    BY DEF Roster!StudentsOf
  <2>2. Roster!Student(held, s.student_id) = s
    BY <1>4, <2>1, StudentIsFound DEF Roster!StudentsOf
  <2>3. Roster!Student(proposed, s.student_id) = s /\ s.student_id \in Roster!Ids(proposed)
    BY <1>1, <1>8, <2>2
  <2>. QED
    BY <1>3, <2>3, StudentIsFound DEF Roster!StudentsOf
<1>9. ASSUME NEW id \in (after \ before) \cup ((before \cap after) \ same)
      PROVE  Roster!Student(proposed, id) \in Roster!StudentsOf(proposed)
  BY <1>1, <1>3, StudentIsFound DEF Roster!StudentsOf
<1>. QED
  BY <1>1, <1>2, <1>6, <1>7, <1>8, <1>9

-----------------------------------------------------------------------------
(* Roster writes. *)

LEMMA RosterInit == Roster!Init => Roster!RosterInv
<1>. SUFFICES ASSUME Roster!Init PROVE Roster!RosterInv
  OBVIOUS
<1>1. Roster!TypeOK
  BY ConstantsAssumption DEF Roster!Init, Roster!TypeOK, Roster!Rosters
<1>2. \A w \in Writers : Roster!CallFits(w)
  BY DEF Roster!Init, Roster!CallFits, Roster!UnderLock
<1>. QED
  BY <1>1, <1>2 DEF Roster!RosterInv

LEMMA EditsAreValid ==
  ASSUME NEW r \in Roster!Rosters, r # NoFile, NEW edited \in Roster!Edits(r)
  PROVE  edited \in Roster!Rosters
<1>1. r \in Seq(Students) /\ Roster!ValidRoster(r)
  BY DEF Roster!Rosters
<1>2. DOMAIN r = 1 .. Len(r)
  BY <1>1, LenProperties
<1>3. ASSUME NEW s \in Students,
             edited \in Roster!add_student_record(r, s) \cup Roster!replace_student_record(r, s) \cup Roster!upsert_student_record(r, s)
      PROVE  edited \in Seq(Students) /\ Roster!ValidRoster(edited)
  <2>1. edited = Roster!Replaced(r, s) \/ (edited = Append(r, s) /\ s.student_id \notin Roster!Ids(r))
    BY <1>3 DEF Roster!add_student_record, Roster!replace_student_record, Roster!upsert_student_record
  <2>. QED
    BY <1>1, <2>1, ReplacedIsValid, AppendIsValid
<1>4. ASSUME NEW id, edited \in Roster!remove_student_record(r, id)
      PROVE  edited \in Seq(Students) /\ Roster!ValidRoster(edited)
  <2>1. PICK i \in 1 .. Len(r) : edited = RemoveAt(r, i) /\ Len(r) > 1
    BY <1>2, <1>4, LibraryOperators DEF Roster!remove_student_record
  <2>. QED
    BY <1>1, <2>1, RestIsValid
<1>5. \/ \E s \in Students :
           edited \in Roster!add_student_record(r, s) \cup Roster!replace_student_record(r, s) \cup Roster!upsert_student_record(r, s)
      \/ \E id : edited \in Roster!remove_student_record(r, id)
  BY DEF Roster!Edits
<1>. QED
  BY <1>3, <1>4, <1>5 DEF Roster!Rosters

OnlyRosterCall(w) ==
  \A v \in Writers \ {w} :
    /\ pc'[v] = pc[v] /\ kind'[v] = kind[v] /\ candidate'[v] = candidate[v] /\ overwrite'[v] = overwrite[v]
    /\ preview'[v] = preview[v] /\ outcome'[v] = outcome[v] /\ wrote'[v] = wrote[v]

(* Who is past the lock is alone with the file. *)
LEMMA RosterFollows ==
  ASSUME Roster!RosterInv, NEW w \in Writers, OnlyRosterCall(w), Roster!TypeOK', Roster!CallFits(w)',
         UNCHANGED <<lock, roster>> \/ lock = w \/ lock = Nobody
  PROVE  Roster!RosterInv'
<1>1. ASSUME NEW v \in Writers, v # w PROVE Roster!CallFits(v)'
  <2>1. Roster!CallFits(v)
    BY DEF Roster!RosterInv
  <2>2. pc[v] \in Roster!UnderLock => lock' = lock /\ roster' = roster
    BY <1>1, <2>1, ConstantsAssumption DEF Roster!CallFits
  <2>3. /\ pc'[v] = pc[v] /\ kind'[v] = kind[v] /\ candidate'[v] = candidate[v] /\ overwrite'[v] = overwrite[v]
        /\ preview'[v] = preview[v] /\ outcome'[v] = outcome[v] /\ wrote'[v] = wrote[v]
    BY <1>1 DEF OnlyRosterCall
  <2>. QED
    BY <2>1, <2>2, <2>3 DEF Roster!CallFits, Roster!UnderLock, Roster!PreviewFits
<1>. QED
  BY <1>1 DEF Roster!RosterInv

LEMMA DisturbancesFit ==
  ASSUME disturbances \in 0 .. MaxDisturbances, UNCHANGED disturbances \/ Roster!Fault
  PROVE  disturbances' \in 0 .. MaxDisturbances
BY ConstantsAssumption DEF Roster!Fault

(* A call returns: what it is answered is what it has done. *)
LEMMA ReturnInv ==
  ASSUME Roster!RosterInv, NEW w \in Writers, pc[w] # "idle", NEW answer \in {"none", "written", "raised"},
         Roster!Return(w, answer), answer # "none" => (wrote[w] <=> answer = "written"),
         UNCHANGED disturbances \/ Roster!Fault, UNCHANGED roster,
         UNCHANGED lock \/ (lock = w /\ lock' = Nobody)
  PROVE  Roster!RosterInv'
<1>1. Roster!TypeOK /\ Roster!CallFits(w)
  BY DEF Roster!RosterInv
<1>2. disturbances' \in 0 .. MaxDisturbances
  BY <1>1, DisturbancesFit DEF Roster!TypeOK
<1>3. Roster!TypeOK'
  BY <1>1, <1>2 DEF Roster!TypeOK, Roster!Return, Roster!Rosters
<1>4. OnlyRosterCall(w)
  BY <1>1 DEF OnlyRosterCall, Roster!TypeOK, Roster!Return
<1>5. /\ pc'[w] = "idle" /\ kind'[w] = "none" /\ wrote'[w] = wrote[w] /\ outcome'[w] = answer /\ overwrite'[w] = FALSE
      /\ preview'[w] = IF kind[w] = "commit" THEN NoFile ELSE preview[w]
  BY <1>1 DEF Roster!TypeOK, Roster!Return
<1>6. preview'[w] = NoFile
  BY <1>1, <1>5 DEF Roster!CallFits
<1>7. Roster!CallFits(w)'
  BY <1>5, <1>6 DEF Roster!CallFits, Roster!UnderLock
<1>. QED
  BY <1>3, <1>4, <1>7, RosterFollows

(* A call that has begun. *)
LEMMA BeginInv ==
  ASSUME Roster!RosterInv, NEW w \in Writers, NEW r \in Roster!Rosters, NEW what \in {"edit", "create", "commit"},
         NEW replacing \in BOOLEAN, Roster!Begin(w, what, r, replacing),
         what = "commit" => preview[w] # NoFile /\ r = preview[w].candidate,
         what # "commit" => preview[w] = NoFile, what = "create" => ~ replacing
  PROVE  Roster!RosterInv'
<1>1. Roster!TypeOK /\ Roster!CallFits(w)
  BY DEF Roster!RosterInv
<1>2. Roster!TypeOK'
  BY <1>1 DEF Roster!TypeOK, Roster!Begin, Roster!NoFault
<1>3. OnlyRosterCall(w)
  BY <1>1 DEF OnlyRosterCall, Roster!TypeOK, Roster!Begin
<1>4. /\ pc'[w] = "lock" /\ kind'[w] = what /\ candidate'[w] = r /\ overwrite'[w] = replacing /\ outcome'[w] = "none"
      /\ wrote'[w] = FALSE /\ preview'[w] = preview[w]
  BY <1>1 DEF Roster!TypeOK, Roster!Begin
<1>5. preview[w] # NoFile => Roster!PreviewFits(preview[w])
  BY <1>1 DEF Roster!CallFits
<1>6. Roster!CallFits(w)'
  BY <1>4, <1>5 DEF Roster!CallFits, Roster!UnderLock, Roster!PreviewFits
<1>7. UNCHANGED <<lock, roster>>
  BY DEF Roster!Begin
<1>. QED
  BY <1>2, <1>3, <1>6, <1>7, RosterFollows

LEMMA PreviewInv ==
  ASSUME Roster!RosterInv, NEW w \in Writers, NEW r \in Candidates, Roster!Preview(w, r)
  PROVE  Roster!RosterInv'
<1>1. Roster!TypeOK /\ Roster!CallFits(w)
  BY DEF Roster!RosterInv
<1>2. PICK p : p = [baseline |-> roster, candidate |-> r, comparison |-> Roster!Comparison(roster, r)]
  OBVIOUS
<1>3. r \in Roster!Rosters \ {NoFile}
  BY FilesAssumption DEF Roster!Rosters, Roster!Preview
<1>4. Roster!PreviewFits(p)
  BY <1>1, <1>2, <1>3 DEF Roster!PreviewFits, Roster!TypeOK
<1>5. Roster!TypeOK'
  BY <1>1 DEF Roster!TypeOK, Roster!Preview, Roster!NoFault
<1>6. OnlyRosterCall(w) /\ UNCHANGED <<lock, roster>>
  BY <1>1 DEF OnlyRosterCall, Roster!TypeOK, Roster!Preview
<1>7. /\ pc'[w] = "idle" /\ kind'[w] = kind[w] /\ outcome'[w] = "none" /\ wrote'[w] = FALSE /\ preview'[w] = p
      /\ overwrite'[w] = overwrite[w] /\ candidate'[w] = candidate[w]
  BY <1>1, <1>2 DEF Roster!TypeOK, Roster!Preview
<1>8. kind[w] = "none"
  BY <1>1 DEF Roster!Preview, Roster!CallFits
<1>9. Roster!CallFits(w)'
  BY <1>4, <1>7, <1>8 DEF Roster!CallFits, Roster!UnderLock, Roster!PreviewFits
<1>. QED
  BY <1>5, <1>6, <1>9, RosterFollows

(* A candidate file that has changed since the preview. *)
LEMMA CommitInv ==
  ASSUME Roster!RosterInv, NEW w \in Writers, NEW r \in Candidates, Roster!Commit(w, r)
  PROVE  Roster!RosterInv'
<1>1. Roster!TypeOK /\ Roster!CallFits(w) /\ preview[w] # NoFile
  BY DEF Roster!RosterInv, Roster!Commit
<1>2. CASE r = preview[w].candidate /\ Roster!Begin(w, "commit", r, FALSE)
  <2>1. r \in Roster!Rosters
    BY <1>1, <1>2 DEF Roster!CallFits, Roster!PreviewFits
  <2>. QED
    BY <1>1, <1>2, <2>1, BeginInv
<1>3. CASE /\ pc[w] = "idle" /\ preview' = [preview EXCEPT ![w] = NoFile] /\ outcome' = [outcome EXCEPT ![w] = "raised"]
           /\ UNCHANGED <<pc, kind, candidate, overwrite, wrote, roster, lock>> /\ Roster!NoFault
  <2>1. Roster!TypeOK' /\ OnlyRosterCall(w)
    BY <1>1, <1>3 DEF Roster!TypeOK, Roster!NoFault, OnlyRosterCall
  <2>2. preview'[w] = NoFile /\ outcome'[w] = "raised"
    BY <1>1, <1>3 DEF Roster!TypeOK
  <2>3. Roster!CallFits(w)'
    BY <1>1, <1>3, <2>2 DEF Roster!CallFits, Roster!UnderLock
  <2>. QED
    BY <1>3, <2>1, <2>3, RosterFollows
<1>. QED
  BY <1>2, <1>3 DEF Roster!Commit

(* Steps to the next phase under the lock, or to taking it, that leave the call as it is but for overwrite. *)
LEMMA PhaseInv ==
  ASSUME Roster!RosterInv, NEW w \in Writers, NEW phase \in {"reload", "check", "replace"}, pc[w] # "idle", pc[w] # "release",
         pc' = [pc EXCEPT ![w] = phase], NEW replacing \in BOOLEAN, overwrite' = [overwrite EXCEPT ![w] = replacing],
         UNCHANGED <<kind, candidate, preview, outcome, wrote, roster>>, UNCHANGED disturbances,
         (pc[w] = "lock" /\ lock = Nobody /\ lock' = w) \/ (pc[w] # "lock" /\ UNCHANGED lock),
         phase = "reload" <=> (pc[w] = "lock" /\ kind[w] = "commit"),
         kind[w] = "create" => ~ replacing, phase = "replace" => replacing \/ roster = NoFile,
         kind[w] = "commit" /\ phase # "reload" => roster = preview[w].baseline /\ (replacing <=> roster # NoFile)
  PROVE  Roster!RosterInv'
<1>1. Roster!TypeOK /\ Roster!CallFits(w)
  BY DEF Roster!RosterInv
<1>2. Roster!TypeOK' /\ OnlyRosterCall(w)
  BY <1>1 DEF Roster!TypeOK, OnlyRosterCall
<1>3. pc'[w] = phase /\ overwrite'[w] = replacing
  BY <1>1 DEF Roster!TypeOK
<1>4. pc[w] \in {"lock", "reload", "check", "replace"}
  BY <1>1 DEF Roster!TypeOK
<1>5. lock' = w
  BY <1>1, <1>4 DEF Roster!CallFits, Roster!UnderLock
<1>6. Roster!CallFits(w)'
  BY <1>1, <1>3, <1>4, <1>5 DEF Roster!CallFits, Roster!UnderLock
<1>. QED
  BY <1>2, <1>6, RosterFollows

(* The call is about to release its lock. *)
LEMMA LeaveInv ==
  ASSUME Roster!RosterInv, NEW w \in Writers, pc[w] \in {"reload", "check", "replace"},
         NEW result \in {"written", "raised"}, Roster!Leave(w, result),
         \/ result = "raised" /\ UNCHANGED <<roster, wrote>>
         \/ result = "written" /\ roster' = candidate[w] /\ wrote' = [wrote EXCEPT ![w] = TRUE],
         UNCHANGED lock, UNCHANGED disturbances \/ Roster!Fault
  PROVE  Roster!RosterInv'
<1>1. Roster!TypeOK /\ Roster!CallFits(w)
  BY DEF Roster!RosterInv
<1>2. disturbances' \in 0 .. MaxDisturbances
  BY <1>1, DisturbancesFit DEF Roster!TypeOK
<1>3. Roster!TypeOK' /\ OnlyRosterCall(w)
  <2>1. roster' \in Roster!Rosters /\ wrote' \in [Writers -> BOOLEAN] /\ \A v \in Writers \ {w} : wrote'[v] = wrote[v]
    <3>1. CASE result = "raised" /\ UNCHANGED <<roster, wrote>>
      BY <1>1, <3>1 DEF Roster!TypeOK
    <3>2. CASE roster' = candidate[w] /\ wrote' = [wrote EXCEPT ![w] = TRUE]
      BY <1>1, <3>2 DEF Roster!TypeOK
    <3>. QED
      BY <3>1, <3>2
  <2>2. /\ pc' \in [Writers -> {"idle", "lock", "reload", "check", "replace", "release"}]
        /\ outcome' \in [Writers -> {"none", "written", "raised"}]
        /\ \A v \in Writers \ {w} : pc'[v] = pc[v] /\ outcome'[v] = outcome[v]
    BY <1>1 DEF Roster!TypeOK, Roster!Leave
  <2>. QED
    BY <1>1, <1>2, <2>1, <2>2 DEF Roster!TypeOK, OnlyRosterCall, Roster!Leave, Roster!Rosters
<1>4. pc'[w] = "release" /\ outcome'[w] = result /\ UNCHANGED <<kind, candidate, overwrite, preview>>
      /\ (wrote'[w] <=> result = "written")
  BY <1>1 DEF Roster!TypeOK, Roster!Leave, Roster!CallFits
<1>5. lock = w
  BY <1>1 DEF Roster!CallFits, Roster!UnderLock
<1>6. Roster!CallFits(w)'
  BY <1>1, <1>4, <1>5 DEF Roster!CallFits, Roster!UnderLock, Roster!PreviewFits
<1>. QED
  BY <1>3, <1>5, <1>6, RosterFollows

LEMMA RosterCallInv ==
  ASSUME Roster!RosterInv, NEW w \in Writers,
         \/ Roster!TakeLock(w) \/ Roster!Reload(w) \/ Roster!CheckTarget(w) \/ Roster!ReplaceRoster(w) \/ Roster!Release(w)
         \/ Roster!AcquireFails(w) \/ Roster!ReloadFails(w) \/ Roster!ReplaceFails(w) \/ Roster!ReleaseFails(w)
         \/ Roster!Crash(w)
  PROVE  Roster!RosterInv'
<1>1. Roster!TypeOK /\ Roster!CallFits(w)
  BY DEF Roster!RosterInv
<1>2. CASE Roster!TakeLock(w)
  <2>1. CASE lock = Nobody /\ lock' = w /\ Roster!Goto(w, Roster!Inside(w))
    <3>1. PICK phase \in {"reload", "check"} : phase = Roster!Inside(w)
      BY DEF Roster!Inside
    <3>2. /\ pc[w] = "lock" /\ pc' = [pc EXCEPT ![w] = phase] /\ overwrite' = [overwrite EXCEPT ![w] = overwrite[w]]
          /\ UNCHANGED <<kind, candidate, preview, outcome, wrote, roster, disturbances>>
          /\ (phase = "reload" <=> kind[w] = "commit") /\ overwrite[w] \in BOOLEAN
      BY <1>1, <1>2, <2>1, <3>1 DEF Roster!TakeLock, Roster!Goto, Roster!Inside, Roster!NoFault, Roster!TypeOK
    <3>3. PICK replacing \in BOOLEAN : replacing = overwrite[w]
      BY <3>2
    <3>. QED
      BY <1>1, <2>1, <3>1, <3>2, <3>3, PhaseInv DEF Roster!CallFits
  <2>2. CASE UNCHANGED lock /\ Roster!Return(w, "raised")
    BY <1>1, <1>2, <2>2, ReturnInv DEF Roster!TakeLock, Roster!NoFault, Roster!CallFits
  <2>. QED
    BY <1>2, <2>1, <2>2 DEF Roster!TakeLock
<1>3. CASE Roster!Reload(w)
  <2>1. CASE Roster!Leave(w, "raised")
    BY <1>3, <2>1, LeaveInv DEF Roster!Reload, Roster!NoFault
  <2>2. CASE /\ roster = preview[w].baseline /\ pc' = [pc EXCEPT ![w] = "check"]
             /\ overwrite' = [overwrite EXCEPT ![w] = roster # NoFile]
             /\ UNCHANGED <<kind, candidate, preview, outcome>>
    <3>1. PICK replacing \in BOOLEAN : replacing = (roster # NoFile)
      OBVIOUS
    <3>2. overwrite' = [overwrite EXCEPT ![w] = replacing]
      BY <2>2, <3>1
    <3>3. kind[w] = "commit" /\ pc[w] = "reload" /\ UNCHANGED <<roster, lock, wrote, disturbances>>
      BY <1>1, <1>3 DEF Roster!Reload, Roster!CallFits, Roster!NoFault
    <3>. QED
      BY <2>2, <3>1, <3>2, <3>3, PhaseInv
  <2>. QED
    BY <1>3, <2>1, <2>2 DEF Roster!Reload
<1>4. CASE Roster!CheckTarget(w)
  <2>1. CASE Roster!Leave(w, "raised") /\ UNCHANGED wrote
    BY <1>4, <2>1, LeaveInv DEF Roster!CheckTarget, Roster!NoFault
  <2>2. CASE (roster = NoFile \/ overwrite[w]) /\ Roster!Goto(w, "replace")
    <3>1. PICK replacing \in BOOLEAN : replacing = overwrite[w]
      BY <1>1 DEF Roster!TypeOK
    <3>2. /\ pc[w] = "check" /\ pc' = [pc EXCEPT ![w] = "replace"] /\ overwrite' = [overwrite EXCEPT ![w] = replacing]
          /\ UNCHANGED <<kind, candidate, preview, outcome, wrote, roster, lock, disturbances>>
      BY <1>1, <1>4, <2>2, <3>1 DEF Roster!CheckTarget, Roster!Goto, Roster!NoFault, Roster!TypeOK
    <3>. QED
      BY <1>1, <2>2, <3>1, <3>2, PhaseInv DEF Roster!CallFits
  <2>. QED
    BY <1>4, <2>1, <2>2 DEF Roster!CheckTarget
<1>5. CASE Roster!ReplaceRoster(w)
  BY <1>5, LeaveInv DEF Roster!ReplaceRoster, Roster!NoFault
<1>6. CASE Roster!Release(w) \/ Roster!ReleaseFails(w)
  <2>1. pc[w] = "release" /\ outcome[w] \in {"written", "raised"} /\ (wrote[w] <=> outcome[w] = "written") /\ lock = w
    BY <1>1, <1>6 DEF Roster!Release, Roster!ReleaseFails, Roster!CallFits, Roster!UnderLock, Roster!TypeOK
  <2>2. PICK answer \in {"written", "raised"} : answer = outcome[w]
    BY <2>1
  <2>3. /\ Roster!Return(w, answer) /\ UNCHANGED roster /\ (UNCHANGED disturbances \/ Roster!Fault)
        /\ UNCHANGED lock \/ lock' = Nobody
    BY <1>6, <2>2 DEF Roster!Release, Roster!ReleaseFails, Roster!NoFault
  <2>. QED
    BY <2>1, <2>2, <2>3, ReturnInv
<1>7. CASE Roster!AcquireFails(w)
  BY <1>1, <1>7, ReturnInv DEF Roster!AcquireFails, Roster!CallFits
<1>8. CASE Roster!ReloadFails(w) \/ Roster!ReplaceFails(w)
  BY <1>8, LeaveInv DEF Roster!ReloadFails, Roster!ReplaceFails
<1>9. CASE Roster!Crash(w)
  BY <1>9, ReturnInv DEF Roster!Crash
<1>. QED
  BY <1>2, <1>3, <1>4, <1>5, <1>6, <1>7, <1>8, <1>9

LEMMA RosterStep == Roster!RosterInv /\ Roster!Next => Roster!RosterInv'
<1>. SUFFICES ASSUME Roster!RosterInv, NEW w \in Writers,
                     \/ Roster!Edit(w)
                     \/ \E r \in Candidates : Roster!Create(w, r) \/ Roster!Preview(w, r) \/ Roster!Commit(w, r)
                     \/ Roster!TakeLock(w) \/ Roster!Reload(w) \/ Roster!CheckTarget(w) \/ Roster!ReplaceRoster(w)
                     \/ Roster!Release(w) \/ Roster!AcquireFails(w) \/ Roster!ReloadFails(w) \/ Roster!ReplaceFails(w)
                     \/ Roster!ReleaseFails(w) \/ Roster!Crash(w)
     PROVE  Roster!RosterInv'
  BY DEF Roster!Next
<1>1. CASE Roster!Edit(w)
  <2>1. PICK edited \in Roster!Edits(roster) : Roster!Begin(w, "edit", edited, TRUE)
    BY <1>1 DEF Roster!Edit
  <2>2. edited \in Roster!Rosters
    BY <1>1, EditsAreValid DEF Roster!Edit, Roster!RosterInv, Roster!TypeOK
  <2>. QED
    BY <1>1, <2>1, <2>2, BeginInv DEF Roster!Edit
<1>2. ASSUME NEW r \in Candidates, Roster!Create(w, r) PROVE Roster!RosterInv'
  <2>1. r \in Roster!Rosters
    BY <1>2, FilesAssumption DEF Roster!Create, Roster!Rosters
  <2>. QED
    BY <1>2, <2>1, BeginInv DEF Roster!Create
<1>3. ASSUME NEW r \in Candidates, Roster!Preview(w, r) \/ Roster!Commit(w, r) PROVE Roster!RosterInv'
  BY <1>3, PreviewInv, CommitInv
<1>. QED
  BY <1>1, <1>2, <1>3, RosterCallInv

(* A step that writes is the replacement of the roster by the one call that is about to. *)
LEMMA GuardedStep ==
  ASSUME Roster!RosterInv, Roster!Next
  PROVE  Roster!CommitIsGuarded /\ Roster!CreationIsExclusive
<1>1. ASSUME NEW w \in Writers, wrote'[w], ~ wrote[w] PROVE Roster!ReplaceRoster(w)
  <2>1. wrote \in [Writers -> BOOLEAN]
    BY DEF Roster!RosterInv, Roster!TypeOK
  <2>2. PICK v \in Writers :
          \/ Roster!ReplaceRoster(v)
          \/ UNCHANGED wrote
          \/ wrote' = [wrote EXCEPT ![v] = FALSE]
    BY DEF Roster!Next, Roster!Edit, Roster!Create, Roster!Preview, Roster!Commit, Roster!Begin, Roster!TakeLock, Roster!Goto,
           Roster!Return, Roster!Reload, Roster!CheckTarget, Roster!Release, Roster!AcquireFails, Roster!ReloadFails,
           Roster!ReplaceFails, Roster!ReleaseFails, Roster!Crash
  <2>3. Roster!ReplaceRoster(v) /\ v = w
    BY <1>1, <2>1, <2>2 DEF Roster!ReplaceRoster
  <2>. QED
    BY <2>3
<1>2. ASSUME NEW w \in Writers, Roster!ReplaceRoster(w)
      PROVE  /\ pc[w] = "replace" /\ roster' = candidate[w]
             /\ kind[w] = "commit" => roster = preview[w].baseline /\ candidate[w] = preview[w].candidate
             /\ kind[w] = "create" => roster = NoFile
  BY <1>2 DEF Roster!RosterInv, Roster!CallFits, Roster!ReplaceRoster
<1>. QED
  BY <1>1, <1>2 DEF Roster!CommitIsGuarded, Roster!CreationIsExclusive

(* What previews say, and what callers are answered. *)
LEMMA RosterProperties ==
  ASSUME Roster!RosterInv
  PROVE  Roster!PreviewAccountsForEveryStudent /\ Roster!AnswersAreTrue
<1>1. ASSUME NEW w \in Writers PROVE Roster!CallFits(w)
  BY DEF Roster!RosterInv
<1>2. Roster!AnswersAreTrue
  BY <1>1 DEF Roster!CallFits, Roster!AnswersAreTrue
<1>3. ASSUME NEW w \in Writers, preview[w] # NoFile PROVE Roster!PreviewFits(preview[w])
  BY <1>1, <1>3 DEF Roster!CallFits
<1>4. Roster!PreviewAccountsForEveryStudent
  BY <1>3, ComparisonAccounts, LibraryOperators DEF Roster!PreviewAccountsForEveryStudent, Roster!PreviewFits
<1>. QED
  BY <1>2, <1>4

-----------------------------------------------------------------------------
(* School years and class metadata. *)

LEMMA RecordInit == Record!Init => Record!RecordsInv
BY ConstantsAssumption DEF Record!Init, Record!RecordsInv, Record!YearFits, Record!MetadataFits

OnlyTerminal(t) ==
  \A u \in Writers \ {t} : pc'[u] = pc[u] /\ request'[u] = request[u] /\ seen'[u] = seen[u]

(* Where a terminal goes, and that the others stay. *)
LEMMA TerminalMoves ==
  ASSUME Record!RecordsInv, NEW t \in Writers,
         NEW phase \in {"idle", "write_year", "make_folder", "write_metadata"}, NEW what, NEW look, Record!Goto(t, phase, what, look)
  PROVE  /\ OnlyTerminal(t) /\ pc'[t] = phase /\ request'[t] = what /\ seen'[t] = look
         /\ pc' \in [Writers -> {"idle", "write_year", "make_folder", "write_metadata"}]
         /\ DOMAIN request' = Writers /\ DOMAIN seen' = Writers
BY DEF Record!RecordsInv, Record!Goto, OnlyTerminal

(* What is left to show of a step: the year, the folders and its own terminal fit; no folder goes. *)
LEMMA RecordFollows ==
  ASSUME Record!RecordsInv, NEW t \in Writers, OnlyTerminal(t), Record!YearFits(t)', Record!MetadataFits(t)',
         pc' \in [Writers -> {"idle", "write_year", "make_folder", "write_metadata"}],
         DOMAIN request' = Writers, DOMAIN seen' = Writers,
         UNCHANGED disturbances \/ Record!Fault, year' \in Record!YearStates \cup {None},
         DOMAIN folders \subseteq DOMAIN folders', \A c \in DOMAIN folders' : Record!FolderFits(c)'
  PROVE  Record!RecordsInv'
<1>1. disturbances' \in 0 .. MaxDisturbances
  BY ConstantsAssumption DEF Record!RecordsInv, Record!Fault
<1>2. ASSUME NEW u \in Writers, u # t PROVE Record!YearFits(u)' /\ Record!MetadataFits(u)'
  <2>1. Record!YearFits(u) /\ Record!MetadataFits(u)
    BY DEF Record!RecordsInv
  <2>2. pc'[u] = pc[u] /\ request'[u] = request[u] /\ seen'[u] = seen[u]
    BY <1>2 DEF OnlyTerminal
  <2>. QED
    BY <2>1, <2>2 DEF Record!YearFits, Record!MetadataFits
<1>. QED
  BY <1>1, <1>2 DEF Record!RecordsInv

LEMMA SameFolders ==
  ASSUME Record!RecordsInv, UNCHANGED folders
  PROVE  DOMAIN folders \subseteq DOMAIN folders' /\ \A c \in DOMAIN folders' : Record!FolderFits(c)'
BY DEF Record!RecordsInv, Record!FolderFits

(* A year that is opened is open, one that is closed was open before. *)
LEMMA YearCallInv ==
  ASSUME Record!RecordsInv, NEW t \in Writers,
         \/ \E y \in Years, now \in Times, replacing \in BOOLEAN : Record!OpenYear(t, y, now, replacing)
         \/ \E now \in Times : Record!CloseYear(t, now)
  PROVE  Record!RecordsInv'
<1>1. ASSUME NEW state \in Record!YearStates, Record!ValidYear(state), NEW replacing \in BOOLEAN,
             Record!Goto(t, "write_year", [state |-> state, overwrite |-> replacing], year),
             UNCHANGED <<year, folders, disturbances>>,
             Record!IsOpen(state) /\ Record!IsOpen(year) => replacing,
             ~ Record!IsOpen(state) => Record!IsOpen(year) /\ state = [year EXCEPT !.closed_at = state.closed_at]
      PROVE  Record!RecordsInv'
  <2>1. PICK what : what = [state |-> state, overwrite |-> replacing]
    OBVIOUS
  <2>2. /\ OnlyTerminal(t) /\ pc'[t] = "write_year" /\ request'[t] = what /\ seen'[t] = year
        /\ pc' \in [Writers -> {"idle", "write_year", "make_folder", "write_metadata"}]
        /\ DOMAIN request' = Writers /\ DOMAIN seen' = Writers
    BY <1>1, <2>1, TerminalMoves
  <2>3. what.state = state /\ what.overwrite = replacing
    BY <2>1
  <2>4. Record!YearFits(t)' /\ Record!MetadataFits(t)'
    BY <1>1, <2>2, <2>3 DEF Record!YearFits, Record!MetadataFits
  <2>. QED
    BY <1>1, <2>2, <2>4, SameFolders, RecordFollows DEF Record!RecordsInv
<1>2. ASSUME NEW y \in Years, NEW now \in Times, NEW replacing \in BOOLEAN, Record!OpenYear(t, y, now, replacing)
      PROVE  Record!RecordsInv'
  <2>1. PICK state : state = Record!YearState(y, now, None)
    OBVIOUS
  <2>2. state \in Record!YearStates /\ state.closed_at = None
    BY <2>1 DEF Record!YearStates, Record!YearState
  <2>3. Record!ValidYear(state) /\ Record!IsOpen(state)
    BY <2>2, FilesAssumption DEF Record!ValidYear, Record!IsOpen, Record!YearStates
  <2>. QED
    BY <1>1, <1>2, <2>1, <2>2, <2>3 DEF Record!OpenYear, Record!NoFault
<1>3. ASSUME NEW now \in Times, Record!CloseYear(t, now) PROVE Record!RecordsInv'
  <2>1. PICK state : state = [year EXCEPT !.closed_at = now]
    OBVIOUS
  <2>2. Record!IsOpen(year) /\ Record!ValidYear(state) /\ year \in Record!YearStates
    BY <1>3, <2>1 DEF Record!CloseYear, Record!IsOpen, Record!RecordsInv
  <2>3. state \in Record!YearStates /\ state.closed_at = now
    BY <2>1, <2>2 DEF Record!YearStates
  <2>4. ~ Record!IsOpen(state) /\ state = [year EXCEPT !.closed_at = state.closed_at]
    BY <2>1, <2>3, FilesAssumption, ConstantsAssumption DEF Record!IsOpen
  <2>5. Record!Goto(t, "write_year", [state |-> state, overwrite |-> FALSE], year) /\ UNCHANGED <<year, folders, disturbances>>
    BY <1>3, <2>1 DEF Record!CloseYear, Record!NoFault
  <2>. QED
    BY <1>1, <2>2, <2>3, <2>4, <2>5
<1>. QED
  BY <1>2, <1>3

(* A terminal returns, or writes the year, and leaves the folders as they are. *)
LEMMA YearReturnInv ==
  ASSUME Record!RecordsInv, NEW t \in Writers, Record!Return(t), UNCHANGED folders, UNCHANGED disturbances \/ Record!Fault,
         UNCHANGED year \/ (pc[t] = "write_year" /\ year' = request[t].state)
  PROVE  Record!RecordsInv'
<1>1. /\ OnlyTerminal(t) /\ pc'[t] = "idle"
      /\ pc' \in [Writers -> {"idle", "write_year", "make_folder", "write_metadata"}]
      /\ DOMAIN request' = Writers /\ DOMAIN seen' = Writers
  BY TerminalMoves DEF Record!Return
<1>2. year' \in Record!YearStates \cup {None}
  BY DEF Record!RecordsInv, Record!YearFits
<1>3. Record!YearFits(t)' /\ Record!MetadataFits(t)'
  BY <1>1 DEF Record!YearFits, Record!MetadataFits
<1>. QED
  BY <1>1, <1>2, <1>3, SameFolders, RecordFollows

(* Folders appear, empty, and their files are replaced; calls stay as they are. *)
LEMMA FolderInv ==
  ASSUME Record!RecordsInv, UNCHANGED <<year, pc, request, seen>>, UNCHANGED disturbances,
         DOMAIN folders \subseteq DOMAIN folders', \A c \in DOMAIN folders' : Record!FolderFits(c)'
  PROVE  Record!RecordsInv'
<1>1. ASSUME NEW t \in Writers PROVE Record!YearFits(t)' /\ Record!MetadataFits(t)'
  BY DEF Record!RecordsInv, Record!YearFits, Record!MetadataFits
<1>. QED
  BY <1>1 DEF Record!RecordsInv

LEMMA EnsureFolderInv ==
  ASSUME Record!RecordsInv, NEW t \in Writers, NEW c \in ClassIds, Record!EnsureFolder(t, c)
  PROVE  Record!RecordsInv'
<1>1. /\ UNCHANGED <<year, pc, request, seen, disturbances>>
      /\ folders' = [d \in DOMAIN folders \cup {c} |-> IF d = c THEN Record!Empty ELSE folders[d]]
  BY DEF Record!EnsureFolder, Record!NoFault
<1>2. \A d \in DOMAIN folders' : Record!FolderFits(d)'
  BY <1>1, FilesAssumption DEF Record!FolderFits, Record!RecordsInv, Record!Empty
<1>. QED
  BY <1>1, <1>2, FolderInv

LEMMA RosterAppearsInv ==
  ASSUME Record!RecordsInv, NEW c \in ClassIds, NEW content \in RosterContents, Record!RosterAppears(c, content)
  PROVE  Record!RecordsInv'
<1>1. /\ UNCHANGED <<year, pc, request, seen, disturbances>> /\ c \in DOMAIN folders
      /\ folders' = [folders EXCEPT ![c].roster = content]
  BY DEF Record!RosterAppears, Record!NoFault
<1>2. \A d \in DOMAIN folders : Record!FolderFits(d)
  BY DEF Record!RecordsInv
<1>3. folders'[c] = [folders[c] EXCEPT !.roster = content] /\ DOMAIN folders' = DOMAIN folders
  BY <1>1
<1>4. DOMAIN folders'[c] = DOMAIN folders[c] /\ folders'[c].metadata = folders[c].metadata
  BY <1>1, <1>2, <1>3 DEF Record!FolderFits
<1>5. \A d \in DOMAIN folders' : Record!FolderFits(d)'
  BY <1>1, <1>2, <1>3, <1>4 DEF Record!FolderFits
<1>. QED
  BY <1>1, <1>3, <1>5, FolderInv

LEMMA WriteMetadataInv ==
  ASSUME Record!RecordsInv, NEW t \in Writers, NEW m \in ClassMetadata, NEW replacing \in BOOLEAN,
         Record!WriteMetadata(t, m, replacing)
  PROVE  Record!RecordsInv'
<1>1. PICK what, found :
        /\ what = [metadata |-> m, overwrite |-> replacing]
        /\ found = IF m.class_id \in DOMAIN folders THEN folders[m.class_id].metadata ELSE None
  OBVIOUS
<1>2. /\ Record!ValidMetadata(m) /\ (replacing \/ found = None) /\ Record!Goto(t, "make_folder", what, found)
      /\ UNCHANGED <<year, folders, disturbances>>
  BY <1>1 DEF Record!WriteMetadata, Record!NoFault
<1>3. /\ OnlyTerminal(t) /\ pc'[t] = "make_folder" /\ request'[t] = what /\ seen'[t] = found
      /\ pc' \in [Writers -> {"idle", "write_year", "make_folder", "write_metadata"}]
      /\ DOMAIN request' = Writers /\ DOMAIN seen' = Writers
  BY <1>2, TerminalMoves
<1>4. what.metadata = m /\ what.overwrite = replacing
  BY <1>1
<1>5. Record!YearFits(t)' /\ Record!MetadataFits(t)'
  BY <1>2, <1>3, <1>4 DEF Record!YearFits, Record!MetadataFits
<1>. QED
  BY <1>2, <1>3, <1>5, SameFolders, RecordFollows DEF Record!RecordsInv

LEMMA MakeFolderInv ==
  ASSUME Record!RecordsInv, NEW t \in Writers, Record!MakeFolder(t)
  PROVE  Record!RecordsInv'
<1>1. PICK what, look, c : what = request[t] /\ look = seen[t] /\ c = request[t].metadata.class_id
  OBVIOUS
<1>2. /\ pc[t] = "make_folder" /\ Record!Goto(t, "write_metadata", what, look) /\ UNCHANGED <<year, disturbances>>
      /\ folders' = [d \in DOMAIN folders \cup {c} |-> IF d \in DOMAIN folders THEN folders[d] ELSE Record!Empty]
  BY <1>1 DEF Record!MakeFolder, Record!NoFault
<1>3. /\ OnlyTerminal(t) /\ pc'[t] = "write_metadata" /\ request'[t] = what /\ seen'[t] = look
      /\ pc' \in [Writers -> {"idle", "write_year", "make_folder", "write_metadata"}]
      /\ DOMAIN request' = Writers /\ DOMAIN seen' = Writers
  BY <1>2, TerminalMoves
<1>4. Record!MetadataFits(t)
  BY DEF Record!RecordsInv
<1>5. c # None
  BY <1>1, <1>2, <1>4, FilesAssumption DEF Record!MetadataFits
<1>6. DOMAIN folders \subseteq DOMAIN folders' /\ c \in DOMAIN folders'
  BY <1>2
<1>7. \A d \in DOMAIN folders' : Record!FolderFits(d)'
  BY <1>2, <1>5 DEF Record!FolderFits, Record!RecordsInv, Record!Empty
<1>8. Record!YearFits(t)' /\ Record!MetadataFits(t)'
  BY <1>1, <1>2, <1>3, <1>4, <1>6 DEF Record!YearFits, Record!MetadataFits
<1>. QED
  BY <1>2, <1>3, <1>6, <1>7, <1>8, RecordFollows DEF Record!RecordsInv

LEMMA ReplaceMetadataInv ==
  ASSUME Record!RecordsInv, NEW t \in Writers, Record!ReplaceMetadata(t)
  PROVE  Record!RecordsInv'
<1>1. PICK m, c : m = request[t].metadata /\ c = m.class_id
  OBVIOUS
<1>2. /\ pc[t] = "write_metadata" /\ Record!Return(t) /\ UNCHANGED <<year, disturbances>>
      /\ folders' = [folders EXCEPT ![c].metadata = m]
  BY <1>1 DEF Record!ReplaceMetadata, Record!NoFault
<1>3. /\ OnlyTerminal(t) /\ pc'[t] = "idle"
      /\ pc' \in [Writers -> {"idle", "write_year", "make_folder", "write_metadata"}]
      /\ DOMAIN request' = Writers /\ DOMAIN seen' = Writers
  BY <1>2, TerminalMoves DEF Record!Return
<1>4. c \in DOMAIN folders /\ Record!ValidMetadata(m) /\ \A d \in DOMAIN folders : Record!FolderFits(d)
  BY <1>1, <1>2 DEF Record!RecordsInv, Record!MetadataFits
<1>5. folders'[c] = [folders[c] EXCEPT !.metadata = m] /\ DOMAIN folders' = DOMAIN folders
  BY <1>2, <1>4
<1>6. DOMAIN folders'[c] = DOMAIN folders[c] /\ folders'[c].metadata = m
  BY <1>4, <1>5 DEF Record!FolderFits
<1>7. \A d \in DOMAIN folders' : Record!FolderFits(d)'
  BY <1>1, <1>2, <1>4, <1>5, <1>6 DEF Record!FolderFits
<1>8. Record!YearFits(t)' /\ Record!MetadataFits(t)'
  BY <1>3 DEF Record!YearFits, Record!MetadataFits
<1>. QED
  BY <1>2, <1>3, <1>5, <1>7, <1>8, RecordFollows DEF Record!RecordsInv

LEMMA RecordStep == Record!RecordsInv /\ Record!Next => Record!RecordsInv'
<1>. SUFFICES ASSUME Record!RecordsInv, Record!Next PROVE Record!RecordsInv'
  OBVIOUS
<1>1. ASSUME NEW t \in Writers, Record!WriteYear(t) \/ Record!Fails(t) PROVE Record!RecordsInv'
  BY <1>1, YearReturnInv DEF Record!WriteYear, Record!Fails, Record!NoFault
<1>. QED
  BY <1>1, YearCallInv, EnsureFolderInv, RosterAppearsInv, WriteMetadataInv, MakeFolderInv, ReplaceMetadataInv DEF Record!Next

(* A step that writes is that of the terminal that then returns, and it writes what it was about to. *)
LEMMA RecordActions ==
  ASSUME Record!RecordsInv, Record!Next
  PROVE  Record!YearStep /\ Record!MetadataStep
<1>1. ASSUME NEW t \in Writers, pc[t] = "write_year", pc'[t] = "idle", year' # year
      PROVE  year' = request[t].state
  BY <1>1 DEF Record!Next, Record!RecordsInv, Record!OpenYear, Record!CloseYear, Record!WriteYear, Record!EnsureFolder,
         Record!WriteMetadata, Record!MakeFolder, Record!ReplaceMetadata, Record!Fails, Record!RosterAppears,
         Record!Return, Record!Goto
<1>2. Record!YearStep
  BY <1>1 DEF Record!YearStep, Record!RecordsInv, Record!YearFits
<1>3. ASSUME NEW t \in Writers, pc[t] = "write_metadata"
      PROVE  Record!MetadataFits(t)
  BY DEF Record!RecordsInv
<1>4. Record!MetadataStep
  BY <1>3 DEF Record!MetadataStep, Record!MetadataFits
<1>. QED
  BY <1>2, <1>4

(* Folders whose files are beyond doubt are listed. *)
LEMMA ListingSound ==
  ASSUME Record!RecordsInv
  PROVE  Record!ListingIsSound
<1>1. \A c \in DOMAIN folders :
        /\ c # None /\ (folders[c].metadata # None => folders[c].metadata.class_id = c /\ Record!ValidMetadata(folders[c].metadata))
        /\ Record!LoadRoster(c) # {} <=> folders[c].roster # None /\ folders[c].roster = c
        /\ Record!LoadMetadata(c) # {} <=> folders[c].metadata # None /\ folders[c].metadata.class_id = c
  BY DEF Record!RecordsInv, Record!FolderFits, Record!LoadRoster, Record!LoadMetadata
<1>2. SUFFICES ASSUME NEW required \in BOOLEAN, NEW loaded \in BOOLEAN, NEW metadata \in BOOLEAN, NEW read \in BOOLEAN
      PROVE LET listed == Record!list_class_folders(required, loaded, metadata, read)
            IN /\ Record!list_class_folders(TRUE, TRUE, TRUE, TRUE) \subseteq listed
               /\ loaded => \A c \in listed : folders[c].roster = c
               /\ read => \A c \in listed :
                    folders[c].metadata.class_id = c /\ Record!ValidMetadata(folders[c].metadata)
               /\ \A c \in DOMAIN folders : folders[c].roster = c /\ folders[c].metadata # None => c \in listed
  BY Zenon DEF Record!ListingIsSound
<1>3. PICK listed : listed = Record!list_class_folders(required, loaded, metadata, read)
  OBVIOUS
<1>4. \A c : c \in listed <=>
        /\ c \in DOMAIN folders
        /\ required \/ loaded => folders[c].roster # None
        /\ metadata \/ read => folders[c].metadata # None
        /\ loaded => Record!LoadRoster(c) # {}
        /\ read => Record!LoadMetadata(c) # {}
  BY <1>3 DEF Record!list_class_folders
<1>5. \A c : c \in Record!list_class_folders(TRUE, TRUE, TRUE, TRUE) <=>
        /\ c \in DOMAIN folders /\ folders[c].roster # None /\ folders[c].metadata # None
        /\ Record!LoadRoster(c) # {} /\ Record!LoadMetadata(c) # {}
  BY DEF Record!list_class_folders
<1>6. /\ Record!list_class_folders(TRUE, TRUE, TRUE, TRUE) \subseteq listed
      /\ loaded => \A c \in listed : folders[c].roster = c
      /\ read => \A c \in listed :
           folders[c].metadata.class_id = c /\ Record!ValidMetadata(folders[c].metadata)
      /\ \A c \in DOMAIN folders : folders[c].roster = c /\ folders[c].metadata # None => c \in listed
  BY <1>1, <1>4, <1>5
<1>. QED
  BY <1>3, <1>6


-----------------------------------------------------------------------------
(* All components. *)

(* TypesHold, component by component. *)
LEMMA TypesByComponent ==
  /\ active = "calendar" => (TypesHold <=> CalendarInv)
  /\ active = "roster" => (TypesHold <=> Roster!RosterInv)
  /\ active = "records" => (TypesHold <=> Record!RecordsInv)
  /\ active = "retention" => (TypesHold <=> Retention!RetentionInv)
  /\ active = "review" => (TypesHold <=> Review!ReviewInv)
  /\ active \notin {"calendar", "roster", "records", "retention", "review"} =>
       (TypesHold <=> disturbances \in 0 .. MaxDisturbances)
BY DEF TypesHold

LEMMA ClassFilesInitial == ClassFilesInit => TypesHold
<1>. SUFFICES ASSUME ClassFilesInit PROVE TypesHold
  OBVIOUS
<1>1. active = "cells" => disturbances \in 0 .. MaxDisturbances
  BY ConstantsAssumption DEF ClassFilesInit
<1>. QED
  BY <1>1, TypesByComponent, InitialInv, RosterInit, RecordInit, RetentionInit, ReviewInit DEF ClassFilesInit

(* The step that the active component takes, or that none takes. *)
LEMMA ComponentSteps ==
  ASSUME [ClassFilesNext]_classFilesVars
  PROVE  /\ active' = active
         /\ active = "calendar" => [Next]_vars
         /\ active = "roster" => [Roster!Next]_(Roster!vars)
         /\ active = "records" => [Record!Next]_(Record!vars)
         /\ active = "retention" => [Retention!Next]_(Retention!vars)
         /\ active = "review" => [Review!Next]_(Review!vars)
         /\ active \notin {"calendar", "roster", "records", "retention", "review"} => UNCHANGED disturbances
<1>1. CASE UNCHANGED classFilesVars
  BY <1>1 DEF classFilesVars, calendarVars, rosterVars, recordVars, retentionVars, reviewVars, vars, store, call,
              Roster!vars, Roster!call, Record!vars, Retention!vars, Review!vars
<1>2. CASE ClassFilesNext
  BY <1>2 DEF ClassFilesNext, OnCalendar, OnRoster, OnCells, OnRecords, OnRetention, OnReview, OthersStay
<1>. QED
  BY <1>1, <1>2

LEMMA StutterTypes ==
  /\ Roster!RosterInv /\ UNCHANGED Roster!vars => Roster!RosterInv'
  /\ Record!RecordsInv /\ UNCHANGED Record!vars => Record!RecordsInv'
  /\ Retention!RetentionInv /\ UNCHANGED Retention!vars => Retention!RetentionInv'
  /\ Review!ReviewInv /\ UNCHANGED Review!vars => Review!ReviewInv'
<1>1. Roster!RosterInv /\ UNCHANGED Roster!vars => Roster!RosterInv'
  BY DEF Roster!vars, Roster!call, Roster!RosterInv, Roster!TypeOK, Roster!CallFits, Roster!PreviewFits
<1>2. Record!RecordsInv /\ UNCHANGED Record!vars => Record!RecordsInv'
  BY DEF Record!vars, Record!RecordsInv, Record!YearFits, Record!MetadataFits, Record!FolderFits
<1>3. Retention!RetentionInv /\ UNCHANGED Retention!vars => Retention!RetentionInv'
  BY DEF Retention!vars, Retention!RetentionInv, Retention!IntakeFits, Retention!Making, Retention!Owns,
         Retention!RetainedUnlessStruck, Retention!Intact
<1>4. Review!ReviewInv /\ UNCHANGED Review!vars => Review!ReviewInv'
  BY DEF Review!vars, Review!ReviewInv, Review!TypeOK, Review!FileFits, Review!TaskFits, Review!Owns, Review!Belongs, Review!Founded,
         Review!Holds, Review!RecordsStay, Review!DecisionsStayFounded
<1>. QED
  BY <1>1, <1>2, <1>3, <1>4

LEMMA NextTypes == TypesHold /\ [ClassFilesNext]_classFilesVars => TypesHold'
<1>. SUFFICES ASSUME TypesHold, [ClassFilesNext]_classFilesVars PROVE TypesHold'
  OBVIOUS
<1>1. active' = active
  BY ComponentSteps
<1>2. /\ active = "calendar" => CalendarInv'
      /\ active = "roster" => Roster!RosterInv'
      /\ active = "records" => Record!RecordsInv'
      /\ active = "retention" => Retention!RetentionInv'
      /\ active = "review" => Review!ReviewInv'
      /\ active \notin {"calendar", "roster", "records", "retention", "review"} => disturbances' \in 0 .. MaxDisturbances
  BY ComponentSteps, TypesByComponent, NextCalendarInv, RosterStep, RecordStep, RetentionStep, ReviewStep, StutterTypes
<1>. QED
  BY <1>1, <1>2 DEF TypesHold

(* The inductive invariant: every component keeps its own, in every behaviour of the class files, for any  *)
(* number of processes, students, years, files, requests, failing operations and crashes.                  *)
THEOREM ClassFilesInvariance == ClassFilesSpec => []TypesHold
BY ClassFilesInitial, NextTypes, PTL DEF ClassFilesSpec

(* A source that an intake has reported as retained is at the path it named, with the bytes that were read, *)
(* unless an intake that failed before it had created a copy has removed it: retain_source_scan never lets  *)
(* two intakes make one copy, and takes back only a copy of its own once it has one. For any number of      *)
(* intakes and errors, whatever the teacher does to the source.                                             *)
THEOREM RetainedUnlessStruckHolds == ClassFilesSpec => []RetainedUnlessStruck
<1>1. TypesHold => RetainedUnlessStruck
  BY TypesByComponent DEF RetainedUnlessStruck, Retention!RetentionInv
<1>. QED
  BY <1>1, ClassFilesInvariance, PTL

(* A failure or resolution that was reported as written stays as it is, and every decision rests on records *)
(* that are stored: write_routing_failure_metadata, write_scan_resolution_metadata and the registration of     *)
(* routes take back only what they created themselves.                                                       *)
THEOREM ReviewRecordsHoldAlways == ClassFilesSpec => []ReviewRecordsHold
<1>1. TypesHold => ReviewRecordsHold
  BY TypesByComponent DEF ReviewRecordsHold, Review!ReviewInv
<1>. QED
  BY <1>1, ClassFilesInvariance, PTL

(* The preview of an import leaves out no student of either roster, and what a call is told is true. *)
THEOREM RostersHoldAlways == ClassFilesSpec => []RostersHold
<1>1. TypesHold => RostersHold
  BY TypesByComponent, RosterProperties DEF RostersHold
<1>. QED
  BY <1>1, ClassFilesInvariance, PTL

(* An import replaces the roster that was reviewed and no other, and a creation replaces none, whatever *)
(* plain writers of the roster do in between.                                                           *)
THEOREM GuardedWritesHoldAlways == ClassFilesSpec => GuardedWritesHold
<1>1. ASSUME TypesHold, ClassFilesNext, active = "roster"
      PROVE  Roster!CommitIsGuarded /\ Roster!CreationIsExclusive
  <2>1. Roster!RosterInv /\ Roster!Next
    BY <1>1, TypesByComponent DEF ClassFilesNext, OnCalendar, OnRoster, OnCells, OnRecords, OnRetention, OnReview
  <2>. QED
    BY <2>1, GuardedStep
<1>2. TypesHold /\ [ClassFilesNext]_classFilesVars =>
        [active = "roster" => Roster!CommitIsGuarded /\ Roster!CreationIsExclusive]_classFilesVars
  BY <1>1
<1>. QED
  BY <1>2, ClassFilesInvariance, PTL DEF ClassFilesSpec, GuardedWritesHold

(* A school year or class metadata is replaced unasked only by a terminal that met another in between, and *)
(* a listing of classes is sound: open_school_year, close_school_year, write_class_metadata and            *)
(* list_class_folders against terminals that do the same.                                                  *)
THEOREM SchoolRecordsHoldAlways == ClassFilesSpec => SchoolRecordsHold
<1>1. TypesHold => (active = "records" => Record!ListingIsSound)
  BY TypesByComponent, ListingSound
<1>2. ASSUME TypesHold, ClassFilesNext, active = "records"
      PROVE  Record!YearStep /\ Record!MetadataStep
  <2>1. Record!RecordsInv /\ Record!Next
    BY <1>2, TypesByComponent DEF ClassFilesNext, OnCalendar, OnRoster, OnCells, OnRecords, OnRetention, OnReview
  <2>. QED
    BY <2>1, RecordActions
<1>3. TypesHold /\ [ClassFilesNext]_classFilesVars =>
        [active = "records" => Record!YearStep /\ Record!MetadataStep]_classFilesVars
  BY <1>2
<1>. QED
  BY <1>1, <1>3, ClassFilesInvariance, PTL DEF ClassFilesSpec, SchoolRecordsHold
=============================================================================
