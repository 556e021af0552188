------------------------------ MODULE ScanRetention ------------------------------
(***************************************************************************)
(* retain_source_scan: the copy of one external scan file into the store   *)
(* of retained sources, under a name made of the intake timestamp and the  *)
(* digest of the source. Intakes take no lock: the exclusive creation of   *)
(* the copy tells them apart. The source belongs to the teacher, who may   *)
(* scan over it or move it away at any time.                               *)
(***************************************************************************)
EXTENDS Integers

CONSTANTS
  Intakes,         \* the processes
  Timestamps,      \* the intake timestamps
  Contents,        \* what the source file may contain
  MaxDisturbances, \* bound on errors of the file system and crashes
  NoFile, HalfCopied     \* no file, and the bytes of a copy not finished

VARIABLES
  source,     \* the external file
  retained,   \* the copy under each name, with the intake that created it
  pc,
  path,       \* the name of a process's copy
  copied,     \* what it has open to copy, and then what it has copied
  returned,   \* the names whose intake returned its provenance
  struck,     \* the names a file was removed from by an intake that had created none
  disturbances

vars == <<source, retained, pc, path, copied, returned, struck, disturbances>>

Names == [timestamp : Timestamps, sha256 : Contents]
File(i, bytes) == [maker |-> i, bytes |-> bytes]
Files == [maker : Intakes, bytes : Contents \cup {HalfCopied}]

Init ==
  /\ source \in Contents
  /\ retained = [n \in Names |-> NoFile]
  /\ pc = [i \in Intakes |-> "idle"]
  /\ path = [i \in Intakes |-> NoFile]
  /\ copied = [i \in Intakes |-> NoFile]
  /\ returned = {} /\ struck = {} /\ disturbances = 0

NoFault == UNCHANGED disturbances
Fault == disturbances < MaxDisturbances /\ disturbances' = disturbances + 1
Goto(i, phase) == pc' = [pc EXCEPT ![i] = phase]

(* An intake that raises or returns forgets its copy. *)
Leave(i) ==
  /\ Goto(i, "idle")
  /\ path' = [path EXCEPT ![i] = NoFile]
  /\ copied' = [copied EXCEPT ![i] = NoFile]

(* build_retained_source_filename of the digest of the source as it is now. *)
Hash(i, timestamp) ==
  /\ pc[i] = "idle" /\ source # NoFile
  /\ Goto(i, "open")
  /\ path' = [path EXCEPT ![i] = [timestamp |-> timestamp, sha256 |-> source]]
  /\ UNCHANGED <<source, retained, copied, returned, struck>> /\ NoFault

(* _remove_incomplete_copy takes the file of that name, whoever created it, or cannot and says nothing. *)
RemoveIncompleteCopy(i) == retained' \in {retained, [retained EXCEPT ![path[i]] = NoFile]}

(* An intake with no copy of its own fails: what it removes is another's. *)
Strike(i) ==
  /\ RemoveIncompleteCopy(i)
  /\ struck' = IF retained' = retained THEN struck ELSE struck \cup {path[i]}
  /\ Leave(i)

(***************************************************************************)
(* _copy_exclusive_with_sha256 opens the source and then creates the copy. *)
(* The former may find that the source has gone, the latter raises         *)
(* FileExistsError when the name is taken, which alone removes nothing;    *)
(* any other OSError of the two is answered by a removal.                  *)
(***************************************************************************)
OpenSource(i) ==
  /\ pc[i] = "open"
  /\ \/ /\ source # NoFile /\ copied' = [copied EXCEPT ![i] = source]
        /\ Goto(i, "create") /\ UNCHANGED <<retained, path, struck>> /\ NoFault
     \/ source = NoFile /\ Strike(i) /\ NoFault
     \/ source # NoFile /\ Strike(i) /\ Fault
  /\ UNCHANGED <<source, returned>>

Create(i) ==
  /\ retained' = [retained EXCEPT ![path[i]] = File(i, HalfCopied)]
  /\ Goto(i, "copy") /\ UNCHANGED <<path, copied, struck>> /\ NoFault

(* Mutant of CreateCopy: the copy is opened for writing, not exclusively. *)
CreateCopyOverwriting(i) ==
  /\ pc[i] = "create" /\ (Create(i) \/ (Strike(i) /\ Fault))
  /\ UNCHANGED <<source, returned>>

CreateCopy(i) ==
  /\ pc[i] = "create"
  /\ \/ retained[path[i]] = NoFile /\ Create(i)
     \/ retained[path[i]] # NoFile /\ Leave(i) /\ UNCHANGED <<retained, struck>> /\ NoFault
     \/ Strike(i) /\ Fault
  /\ UNCHANGED <<source, returned>>

(***************************************************************************)
(* The open source keeps its bytes when it is moved away, and may have     *)
(* those of a scan over it. A copy that was removed while it was made gets *)
(* them too, but has no name any more.                                     *)
(***************************************************************************)
Owns(i) == retained[path[i]] \in Files /\ retained[path[i]].maker = i

Copy(i) ==
  /\ pc[i] = "copy" /\ Goto(i, "compare")
  /\ \E read \in {copied[i], source} \ {NoFile} :
       /\ copied' = [copied EXCEPT ![i] = read]
       /\ retained' = IF Owns(i) THEN [retained EXCEPT ![path[i]] = File(i, read)] ELSE retained
  /\ UNCHANGED <<source, path, returned, struck>> /\ NoFault

(* The digests agree and _workspace_relative finds a file of that name; or one of the two fails. *)
Compare(i) ==
  /\ pc[i] = "compare" /\ Leave(i)
  /\ \/ /\ copied[i] = path[i].sha256 /\ retained[path[i]] # NoFile
        /\ returned' = returned \cup {path[i]} /\ UNCHANGED retained /\ NoFault
     \/ /\ copied[i] # path[i].sha256 \/ retained[path[i]] = NoFile
        /\ RemoveIncompleteCopy(i) /\ UNCHANGED returned /\ NoFault
     \/ RemoveIncompleteCopy(i) /\ UNCHANGED returned /\ Fault
  /\ UNCHANGED <<source, struck>>

-----------------------------------------------------------------------------
(* Reading the source or writing the copy fails half way; the process crashes. *)
CopyFails(i) ==
  /\ pc[i] = "copy" /\ RemoveIncompleteCopy(i) /\ Leave(i)
  /\ UNCHANGED <<source, returned, struck>> /\ Fault

Crash(i) ==
  /\ pc[i] # "idle" /\ Leave(i)
  /\ UNCHANGED <<source, retained, returned, struck>> /\ Fault

ScanOver == \E c \in Contents \ {source} : source' = c
MoveAway == source # NoFile /\ source' = NoFile
Teacher == (ScanOver \/ MoveAway) /\ UNCHANGED <<retained, pc, path, copied, returned, struck, disturbances>>

Next ==
  \/ Teacher
  \/ \E i \in Intakes :
       \/ \E timestamp \in Timestamps : Hash(i, timestamp)
       \/ OpenSource(i) \/ CreateCopy(i) \/ Copy(i) \/ Compare(i) \/ CopyFails(i) \/ Crash(i)

Spec == Init /\ [][Next]_vars

-----------------------------------------------------------------------------
(***************************************************************************)
(* A source that was reported as retained keeps, under its name, the bytes *)
(* its digest names. The code does not keep this: see Strike.              *)
(***************************************************************************)
Intact(name) == \E i \in Intakes : retained[name] = File(i, name.sha256)
RetainedSourcesStay == \A name \in returned : Intact(name)

(***************************************************************************)
(* A Strike is all that takes it away: no intake overwrites the copy of    *)
(* another one, whose source changes removes its own, and a copy that was  *)
(* left half way by a crash is never reported, by whatever later intakes.  *)
(***************************************************************************)
RetainedUnlessStruck == \A name \in returned \ struck : Intact(name)

(***************************************************************************)
(* What this rests on: unless there was a strike, who is making a copy has *)
(* created the file of that name, and nobody has returned it.              *)
(***************************************************************************)
Making(i) == pc[i] \in {"copy", "compare"}

IntakeFits(i) ==
  /\ pc[i] # "idle" => path[i] \in Names
  /\ pc[i] = "create" \/ Making(i) => copied[i] \in Contents
  /\ Making(i) /\ path[i] \notin struck => Owns(i) /\ path[i] \notin returned
  /\ pc[i] = "compare" /\ path[i] \notin struck => retained[path[i]] = File(i, copied[i])

RetentionInv ==
  /\ source \in Contents \cup {NoFile} /\ disturbances \in 0 .. MaxDisturbances
  /\ retained \in [Names -> Files \cup {NoFile}] /\ returned \subseteq Names /\ struck \subseteq Names
  /\ pc \in [Intakes -> {"idle", "open", "create", "copy", "compare"}]
  /\ path \in [Intakes -> Names \cup {NoFile}] /\ copied \in [Intakes -> Contents \cup {NoFile}]
  /\ \A i \in Intakes : IntakeFits(i)
  /\ RetainedUnlessStruck
=============================================================================
