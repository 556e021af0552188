--------------------------- MODULE CatalogInvariant ---------------------------
(***************************************************************************)
(* The inductive invariant of CatalogStore: what a call knows of the past  *)
(* from the files it has read one by one; and that every state of the      *)
(* files is judged alike by all who read it.                               *)
(***************************************************************************)
EXTENDS CatalogStore

CONSTANT
  OtherFiles  \* files that the writers may never leave, damaged in any way

(* A pointer is replaced whole: it is never torn. *)
AreCanonical(files) ==
  /\ IsFiniteSet(DOMAIN files) /\ DOMAIN files \subseteq BasePaths \cup {Class}
  /\ \A path \in DOMAIN files \cap Pointers : files[path] # Torn

ASSUME OtherFilesAssumption == \A files \in OtherFiles : AreCanonical(files)
ASSUME InitialAssumption == \A store \in InitialStores : AreCanonical(store.files)

Instants == 1 .. Len(past)
Holds(k, path, content) == path \in DOMAIN past[k].files /\ past[k].files[path] = content

(* The files at k that are there ever since: those settled then, and all of now. *)
StaysFrom(k) ==
  {path \in DOMAIN past[k].files \ {Class} : k = Len(past) \/ path \notin past[k].pending}

-----------------------------------------------------------------------------
(* The past of the canonical files. *)

StateOK(k) ==
  LET files == past[k].files
  IN /\ DOMAIN files \subseteq BasePaths \cup {Class}
     /\ past[k].pending \subseteq DOMAIN files \ (Pointers \cup {Class})
     /\ \A path \in DOMAIN files \ {Class} :
          IF path \in Pointers THEN files[path] \in Nat ELSE files[path] \in (1 .. k) \cup {Torn}

(* Settled files stay, and pointers do not go back. *)
FilesStay(i, j) ==
  /\ StaysFrom(i) \subseteq DOMAIN past[j].files \ past[j].pending \/ i = j \/ i = Len(past)
  /\ \A path \in Pointers \cap DOMAIN past[i].files :
       path \in DOMAIN past[j].files /\ past[i].files[path] <= past[j].files[path]

(* What a file held before and holds again, it has held all the time. *)
ContentsDoNotReturn(i, k, j) ==
  \A path \in DOMAIN past[i].files \ {Class} :
    Holds(j, path, past[i].files[path]) /\ past[i].files[path] # Torn => Holds(k, path, past[i].files[path])

PastInv ==
  /\ past \in Seq({past[k] : k \in DOMAIN past}) /\ past # <<>>
  /\ \A k \in Instants : StateOK(k)
  /\ \A i \in Instants : \A j \in i .. Len(past) :
       FilesStay(i, j) /\ \A k \in i .. j : ContentsDoNotReturn(i, k, j)

-----------------------------------------------------------------------------
(* What has been read. *)

(* The class metadata of the files read is that of instant k. *)
ClassFits(files, k) ==
  IF Class \in DOMAIN files THEN Holds(k, Class, files[Class])
  ELSE HasWork(files) => Class \notin DOMAIN past[k].files

(* Whole base files, each as it was at some instant between two. *)
Were(files, paths, low, high) ==
  \A path \in paths \ {Class} : files[path] # Torn /\ \E k \in low .. high : Holds(k, path, files[path])

(* The catalog holds the files of one instant. *)
CatalogFits ==
  catalog # None =>
    /\ catalog.from \in Instants /\ catalog.at \in Instants /\ catalog.from <= catalog.at
    /\ \E k \in catalog.from .. catalog.at :
         /\ Were(catalog.sources, DOMAIN catalog.sources, k, k)
         /\ StaysFrom(k) \subseteq DOMAIN catalog.sources
         /\ ClassFits(catalog.sources, k)
    /\ Projectable(BaseOf(catalog.sources)) /\ ClassLoads(catalog.sources)

(* A step of the listing finds these paths. *)
Covers(step, path) ==
  CASE step[1] = "revisions" -> path[1] = step[2] /\ path[2] > 0
    [] step[1] = "pointer" -> path = Pointer(step[2])
    [] step[1] = "collection" -> path[1] = step[2]

(* Up to the call's step, the listing has found what stays from k on. *)
HasListed(c, k) ==
  \A i \in 1 .. c.step - 1 : \A path \in StaysFrom(k) : Covers(Listing[i], path) => path \in c.listed

(***************************************************************************)
(* A call c at phase is collecting: what stays from its beginning is       *)
(* listed, then read, and what is read was there since the beginning.      *)
(***************************************************************************)
Collecting == {"list", "read", "class"}
CollectingFits(c, phase) ==
  phase \in Collecting =>
    /\ Class \notin c.listed \cup DOMAIN c.read
    /\ \A path \in DOMAIN c.read : \E k \in c.begin .. Len(past) : Holds(k, path, c.read[path])
    /\ phase \in {"list", "read"} /\ c.begin = Len(past) => c.listed \subseteq DOMAIN Files
    /\ phase = "list" => DOMAIN c.read = {} /\ c.step \in 1 .. Len(Listing) /\ HasListed(c, c.begin)
    /\ phase = "read" => StaysFrom(c.begin) \subseteq c.listed
    /\ phase = "class" => StaysFrom(c.begin) \subseteq DOMAIN c.read

(* The class metadata was read at m, the other files before it and again after it. *)
CheckedAt(c, phase, m) ==
  /\ Were(c.read, DOMAIN c.read, c.begin, m)
  /\ ClassFits(c.read, m)
  /\ phase = "again" => c.step = 1 /\ c.listed \subseteq DOMAIN c.read /\ Were(c.read, c.listed, m, Len(past))
  /\ phase \in {"relist", "present", "replace"} => Were(c.read, DOMAIN c.read, m, Len(past))
  /\ phase = "relist" => c.step \in 1 .. Len(Listing) /\ HasListed(c, m)
  /\ phase \in {"present", "replace"} => StaysFrom(m) \subseteq DOMAIN c.read
  /\ phase = "compare" => StaysFrom(c.begin) \subseteq DOMAIN c.read
  /\ phase = "compare" /\ c.begin = Len(past) => c.read = Sources(Files)
  /\ phase # "compare" => Projectable(BaseOf(c.read)) /\ ClassLoads(c.read)

Checking == {"again", "relist", "present", "replace", "compare"}
CheckingFits(c, phase) == phase \in Checking => \E m \in c.begin .. Len(past) : CheckedAt(c, phase, m)

(* What a sound catalog, or none, was made of, as an audit finds it at its beginning. *)
StoredFits(stored, begin) ==
  /\ Were(stored.sources, DOMAIN stored.sources, 1, begin)
  /\ Projectable(BaseOf(stored.sources)) /\ ClassLoads(stored.sources)

CallOK(c, phase) ==
  /\ phase \in Collecting \cup Checking \cup {"idle", "lock", "unlink", "unlock"}
  /\ DOMAIN c = DOMAIN NoCall
  /\ c.read = [path \in DOMAIN c.read |-> c.read[path]]
  /\ phase # "idle" => c.begin \in Instants
  /\ phase = "idle" => c.op = "none"
  /\ phase \in Collecting => c.op \in {"build", "audit"}
  /\ phase \in Checking \ {"compare"} => c.op = "build"
  /\ phase = "compare" => c.op = "audit"
  /\ phase \in {"lock", "unlink"} => c.op = "remove"
  /\ phase = "unlock" => c.op \in {"build", "remove"}
  /\ c.op = "audit" => StoredFits(c.stored, c.begin)

CallFits(c, phase) == CallOK(c, phase) /\ CollectingFits(c, phase) /\ CheckingFits(c, phase)

(* An audit that calls the catalog ready has seen its files, and one left alone calls no good one invalid. *)
ReportFits(answer) ==
  LET sources == answer.stored.sources
      Dated == 1 <= answer.begin /\ answer.begin <= answer.end /\ answer.end <= Len(past)
  IN /\ answer.begin \in Nat /\ answer.end \in Nat
     /\ answer.answer \in {"ready", "invalid"} /\ answer.quiet => Dated
     /\ answer.answer = "ready" =>
          /\ Dated
          /\ Were(sources, DOMAIN sources, answer.begin, answer.begin)
          /\ StaysFrom(answer.begin) \subseteq DOMAIN sources
          /\ Class \in DOMAIN sources => \E k \in answer.begin .. answer.end : Holds(k, Class, sources[Class])
     /\ answer.answer = "invalid" /\ answer.quiet /\ answer.begin = answer.end =>
          sources # Sources(past[answer.begin].files)

-----------------------------------------------------------------------------
(* The lock, as long as nobody has removed it under a call. *)

LockExcludes == ~ cleared => \A w \in Workers : InCriticalSection(w) => lock = w
CatalogIsOlder ==
  ~ cleared /\ catalog # None =>
    \A w \in Workers : InCriticalSection(w) /\ call[w].op = "build" /\ pc[w] # "unlock" => catalog.at <= call[w].begin

WorkerFits(w) == CallFits(call[w], pc[w]) /\ ReportFits(report[w])

CatalogInv ==
  /\ DOMAIN pc = Workers /\ DOMAIN call = Workers /\ DOMAIN report = Workers
  /\ PastInv
  /\ CatalogFits
  /\ \A w \in Workers : WorkerFits(w)
  /\ LockExcludes
  /\ CatalogIsOlder

-----------------------------------------------------------------------------
(* At every instant the files are some that the stores write. *)
PastIsCanonical == \A k \in Instants : AreCanonical(past[k].files)

DamagedFilesAreSound == \A files \in OtherFiles : Sound(files)

(***************************************************************************)
(* What a rebuild accepts, verifies and lists (academic_catalog.py) agrees *)
(* with what the audit (registry_audit.py) finds but for the two cases     *)
(* that Sound names, in every state of the store and in every damaged one. *)
(***************************************************************************)
AcceptedStateIsSound == DamagedFilesAreSound /\ Sound(Files)

(* The invariants of the calls, of the past and of the files. *)
CatalogHolds == CatalogInv /\ PastIsCanonical /\ AcceptedStateIsSound
=============================================================================
