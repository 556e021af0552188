------------------------------- MODULE SignalStore -------------------------------
(***************************************************************************)
(* The immutable grouping signals of one class, each a pair of files       *)
(*                                                                         *)
(*     <signal_set_id>.json     <signal_set_id>.json.sha256                *)
(*                                                                         *)
(* as write_grouping_signal and load_grouping_signal create and read them. *)
(* There is no lock: exclusive creation of the JSON file decides who       *)
(* writes, and a call that fails removes what it created.                  *)
(***************************************************************************)
EXTENDS GroupingSignals

CONSTANTS
  Writers,         \* the processes
  Signals,         \* the signals callers write
  ClassRosters,    \* what the rosters may be: the students of each class
  MaxDisturbances, \* bound on failing file operations and crashes together
  None             \* no call

VARIABLES
  json, digest,  \* the files of each ID
  pc,            \* the next file operation of each process
  own,           \* the signal it writes or looks for
  made,          \* the files it created
  mode,          \* why it reads: "load", "existing" or "verify"
  seen,          \* what it has seen of the pair
  outcome,       \* what its last call returned or raised
  disturbances

files == <<json, digest>>
call == <<pc, own, made, mode, seen, outcome>>
vars == <<files, call, disturbances>>

SignalIds == {s.signal_set_id : s \in Signals}
Absent == [status |-> "absent", content |-> None]
Torn == [status |-> "torn", content |-> None]
Complete(signal) == [status |-> "complete", content |-> signal]
Id(w) == own[w].signal_set_id
Empty == [json |-> Absent, digest |-> Absent]

Init ==
  /\ json = [i \in SignalIds |-> Absent]
  /\ digest = [i \in SignalIds |-> Absent]
  /\ pc = [w \in Writers |-> "idle"]
  /\ own = [w \in Writers |-> None]
  /\ made = [w \in Writers |-> {}]
  /\ mode = [w \in Writers |-> "none"]
  /\ seen = [w \in Writers |-> Empty]
  /\ outcome = [w \in Writers |-> "none"]
  /\ disturbances = 0

NoFault == UNCHANGED disturbances
Fault == disturbances < MaxDisturbances /\ disturbances' = disturbances + 1
Goto(w, phase) == pc' = [pc EXCEPT ![w] = phase] /\ UNCHANGED <<own, made, mode, seen, outcome>>

(* own and seen of an idle process are what its last call was about and found. *)
Return(w, kind) ==
  /\ pc' = [pc EXCEPT ![w] = "idle"]
  /\ outcome' = [outcome EXCEPT ![w] = kind]
  /\ made' = [made EXCEPT ![w] = {}]
  /\ mode' = [mode EXCEPT ![w] = "none"]
  /\ UNCHANGED <<own, seen>>

Begin(w, signal, phase, reading) ==
  /\ pc[w] = "idle"
  /\ pc' = [pc EXCEPT ![w] = phase]
  /\ own' = [own EXCEPT ![w] = signal]
  /\ mode' = [mode EXCEPT ![w] = reading]
  /\ seen' = [seen EXCEPT ![w] = Empty]
  /\ outcome' = [outcome EXCEPT ![w] = "none"]
  /\ UNCHANGED <<made, files>> /\ NoFault

(* load_grouping_signal as a part of the call: for a replay, or to verify what was written. *)
StartLoad(w, reading) ==
  /\ pc' = [pc EXCEPT ![w] = "exists_json"]
  /\ mode' = [mode EXCEPT ![w] = reading]
  /\ seen' = [seen EXCEPT ![w] = Empty]
  /\ UNCHANGED <<own, outcome>>

(* An exception inside the try block: first what was created is undone, the digest before the JSON. *)
Raise(w, kind) ==
  IF made[w] = {} THEN Return(w, kind)
  ELSE /\ pc' = [pc EXCEPT ![w] = IF "digest" \in made[w] THEN "undo_digest" ELSE "undo_json"]
       /\ outcome' = [outcome EXCEPT ![w] = kind]
       /\ UNCHANGED <<own, made, mode, seen>>

-----------------------------------------------------------------------------
(* write_grouping_signal *)

Write(w, signal) == ValidSignal(signal) /\ Begin(w, signal, "look_json", "none")

LookJson(w) ==
  /\ pc[w] = "look_json"
  /\ pc' = [pc EXCEPT ![w] = "look_digest"]
  /\ seen' = [seen EXCEPT ![w].json = json[Id(w)]]
  /\ UNCHANGED <<own, made, mode, outcome, files>> /\ NoFault

LookDigest(w) ==
  /\ pc[w] = "look_digest"
  /\ LET one == seen[w].json # Absent
         other == digest[Id(w)] # Absent
     IN CASE one # other -> Return(w, "integrity")
          [] one /\ other -> StartLoad(w, "existing") /\ UNCHANGED made
          [] ~ one /\ ~ other -> Goto(w, "create_json")
  /\ UNCHANGED files /\ NoFault

(* Mutant of CreateJson: a file that is there is taken for one's own. *)
CreateJsonAnyway(w) ==
  /\ pc[w] = "create_json"
  /\ json' = [json EXCEPT ![Id(w)] = Torn] /\ Goto(w, "fill_json")
  /\ UNCHANGED digest /\ NoFault

CreateJson(w) ==
  /\ pc[w] = "create_json"
  /\ \/ json[Id(w)] = Absent /\ json' = [json EXCEPT ![Id(w)] = Torn] /\ Goto(w, "fill_json")
     \/ json[Id(w)] # Absent /\ StartLoad(w, "existing") /\ UNCHANGED <<json, made>>
  /\ UNCHANGED digest /\ NoFault

FillJson(w) ==
  /\ pc[w] = "fill_json"
  /\ json' = [json EXCEPT ![Id(w)] = Complete(own[w])]
  /\ pc' = [pc EXCEPT ![w] = "create_digest"]
  /\ made' = [made EXCEPT ![w] = {"json"}]
  /\ UNCHANGED <<own, mode, seen, outcome, digest>> /\ NoFault

CreateDigest(w) ==
  /\ pc[w] = "create_digest"
  /\ \/ /\ digest[Id(w)] = Absent
        /\ digest' = [digest EXCEPT ![Id(w)] = Torn]
        /\ Goto(w, "fill_digest")
     \/ digest[Id(w)] # Absent /\ UNCHANGED digest /\ Raise(w, "integrity")
  /\ UNCHANGED json /\ NoFault

FillDigest(w) ==
  /\ pc[w] = "fill_digest"
  /\ digest' = [digest EXCEPT ![Id(w)] = Complete(own[w])]
  /\ made' = [made EXCEPT ![w] = @ \cup {"digest"}]
  /\ StartLoad(w, "verify")
  /\ UNCHANGED json /\ NoFault

-----------------------------------------------------------------------------
(* load_grouping_signal *)

Load(w, signal) == Begin(w, signal, "exists_json", "load")

(***************************************************************************)
(* How the call ends when its load raises: a replay turns not-found into   *)
(* an integrity error, a verification turns everything into a write error. *)
(***************************************************************************)
LoadRaises(w, kind) ==
  Raise(w, CASE mode[w] = "verify" -> "write_error"
             [] mode[w] = "existing" /\ kind = "not_found" -> "integrity"
             [] OTHER -> kind)

ExistsJson(w) ==
  /\ pc[w] = "exists_json"
  /\ pc' = [pc EXCEPT ![w] = "exists_digest"]
  /\ seen' = [seen EXCEPT ![w].json = json[Id(w)]]
  /\ UNCHANGED <<own, made, mode, outcome, files>> /\ NoFault

ExistsDigest(w) ==
  /\ pc[w] = "exists_digest"
  /\ LET one == seen[w].json # Absent
         other == digest[Id(w)] # Absent
     IN CASE ~ one /\ ~ other -> LoadRaises(w, "not_found")
          [] one # other -> LoadRaises(w, "integrity")
          [] one /\ other -> Goto(w, "read_json")
  /\ UNCHANGED files /\ NoFault

ReadJson(w) ==
  /\ pc[w] = "read_json"
  /\ IF json[Id(w)] = Absent THEN LoadRaises(w, "read_error")
     ELSE /\ pc' = [pc EXCEPT ![w] = "read_digest"]
          /\ seen' = [seen EXCEPT ![w].json = json[Id(w)]]
          /\ UNCHANGED <<own, made, mode, outcome>>
  /\ UNCHANGED files /\ NoFault

(* A torn digest file has no digest in it; a torn JSON file has another digest. *)
ReadDigest(w) ==
  /\ pc[w] = "read_digest"
  /\ CASE digest[Id(w)].status # "complete" -> LoadRaises(w, "read_error")
       [] digest[Id(w)].status = "complete" /\ digest[Id(w)] # seen[w].json -> LoadRaises(w, "integrity")
       [] digest[Id(w)].status = "complete" /\ digest[Id(w)] = seen[w].json ->
            CASE mode[w] = "load" -> Return(w, "loaded")
              [] mode[w] = "existing" ->
                   Raise(w, IF seen[w].json = Complete(own[w]) THEN "existing" ELSE "conflict")
              [] mode[w] = "verify" ->
                   IF seen[w].json = Complete(own[w]) THEN Return(w, "created") ELSE Raise(w, "write_error")
  /\ UNCHANGED files /\ NoFault

-----------------------------------------------------------------------------
(* _remove_if_exact: a file with the bytes of this call goes, whoever wrote them. *)

UndoDigest(w) ==
  /\ pc[w] = "undo_digest"
  /\ digest' = IF digest[Id(w)] = Complete(own[w]) THEN [digest EXCEPT ![Id(w)] = Absent] ELSE digest
  /\ Goto(w, "undo_json")
  /\ UNCHANGED json /\ NoFault

UndoJson(w) ==
  /\ pc[w] = "undo_json"
  /\ json' = IF json[Id(w)] = Complete(own[w]) THEN [json EXCEPT ![Id(w)] = Absent] ELSE json
  /\ Return(w, outcome[w])
  /\ UNCHANGED digest /\ NoFault

-----------------------------------------------------------------------------
(* File operations that fail, and crashes. *)

Reading == {"look_json", "look_digest", "exists_json", "exists_digest", "read_json", "read_digest"}

(* The checks and reads raise; those before the try block have nothing to undo. *)
ReadFails(w) ==
  /\ pc[w] \in Reading
  /\ LoadRaises(w, "read_error")
  /\ UNCHANGED files /\ Fault

CreateFails(w) ==
  /\ pc[w] \in {"create_json", "create_digest"}
  /\ Raise(w, "write_error")
  /\ UNCHANGED files /\ Fault

(* _remove_if_same_file takes back what was created, unless that fails too. *)
FillFails(w) ==
  /\ \/ /\ pc[w] = "fill_json"
        /\ \/ UNCHANGED json
           \/ json' = [json EXCEPT ![Id(w)] = Absent]
        /\ UNCHANGED digest
     \/ /\ pc[w] = "fill_digest"
        /\ \/ UNCHANGED digest
           \/ digest' = [digest EXCEPT ![Id(w)] = Absent]
        /\ UNCHANGED json
  /\ Raise(w, "write_error")
  /\ Fault

UndoFails(w) ==
  /\ \/ pc[w] = "undo_digest" /\ Goto(w, "undo_json")
     \/ pc[w] = "undo_json" /\ Return(w, outcome[w])
  /\ UNCHANGED files /\ Fault

Crash(w) ==
  /\ pc[w] # "idle"
  /\ Return(w, "crashed")
  /\ UNCHANGED files /\ Fault

Step(w) ==
  \/ LookJson(w) \/ LookDigest(w) \/ CreateJson(w) \/ FillJson(w) \/ CreateDigest(w) \/ FillDigest(w)
  \/ ExistsJson(w) \/ ExistsDigest(w) \/ ReadJson(w) \/ ReadDigest(w) \/ UndoDigest(w) \/ UndoJson(w)

Next ==
  \E w \in Writers :
    \/ \E signal \in Signals : Write(w, signal) \/ Load(w, signal)
    \/ Step(w) \/ ReadFails(w) \/ CreateFails(w) \/ FillFails(w) \/ UndoFails(w) \/ Crash(w)

(* A call that was made runs on; that processes go on calling is not assumed. *)
Spec == Init /\ [][Next]_vars /\ \A w \in Writers : WF_vars(Step(w))

-----------------------------------------------------------------------------
Whole(i) == json[i].status = "complete" /\ digest[i] = json[i]
Quiet == \A w \in Writers : pc[w] = "idle"
Answered(w) == pc[w] = "idle" /\ outcome[w] \in {"created", "existing", "loaded"}

(***************************************************************************)
(* A signal whose creation was reported is stored, whole and unchanged,    *)
(* for good: no other call's error cleanup takes it away, though cleanups  *)
(* go by content. When no file operation failed the same is true of every  *)
(* signal a call returned: concurrent calls' conflicts do not undo it.     *)
(* (After a failure, one reported as existing or loaded may still be taken *)
(* back by its creator, whose own verification failed.)                    *)
(***************************************************************************)
SignalsStay ==
  \A w \in Writers :
    /\ pc[w] = "idle" /\ outcome[w] = "created" => Whole(Id(w)) /\ json[Id(w)] = Complete(own[w])
    /\ disturbances = 0 /\ Answered(w) => Whole(Id(w)) /\ json[Id(w)] = seen[w].json

(***************************************************************************)
(* Without a crash or failing file operation, pairs are all or nothing     *)
(* whenever nobody is writing, whatever errors concurrent calls met.       *)
(***************************************************************************)
QuietPairsAreWhole ==
  Quiet /\ disturbances = 0 =>
    \A i \in SignalIds : Whole(i) \/ (json[i] = Absent /\ digest[i] = Absent)

(* Both: nothing that was promised is taken back, and nothing half-written is left behind. *)
SignalPairsHold == SignalsStay /\ QuietPairsAreWhole

(***************************************************************************)
(* A stored signal can be exported and imported without two signals under  *)
(* one ID, and its diagnosis accounts for every student of the roster and  *)
(* every entry, whatever the rosters of the classes have become.           *)
(***************************************************************************)
StoredSignalsAreUsable ==
  \A i \in SignalIds :
    Whole(i) =>
      LET signal == json[i].content
      IN /\ ValidSignal(signal)
         /\ ImportKeepsIdentity(signal, SignalIds \cup {"another ID"}, {signal.created_at, signal.created_at + 1})
         /\ \A rosters \in ClassRosters, d \in signal.dimensions :
              \A target \in DOMAIN rosters : AddsUp(Diagnose(signal, target, rosters, d))

(***************************************************************************)
(* What keeps the pairs so. Whoever created the JSON file of an ID is its  *)
(* only maker until the call ends, and the makers alone change files. When *)
(* no file operation failed no maker takes anything back, so that a pair   *)
(* that has none is whole or not there at all.                             *)
(***************************************************************************)
Making(w) == pc[w] \in {"fill_json", "create_digest", "fill_digest"} \/ made[w] # {}
Loading == {"exists_json", "exists_digest", "read_json", "read_digest"}
Preparing == {"look_json", "look_digest", "create_json", "fill_json"}
Succeeded == {"created", "existing", "loaded"}
Stored(i) == {Absent, Torn} \cup {Complete(s) : s \in {q \in Signals : q.signal_set_id = i /\ ValidSignal(q)}}

CallFits(w) ==
  /\ own[w] \in Signals \/ (own[w] = None /\ pc[w] = "idle" /\ outcome[w] \notin Succeeded)
  /\ \/ pc[w] = "idle" /\ made[w] = {}
     \/ pc[w] \in Preparing /\ made[w] = {} /\ ValidSignal(own[w]) /\ mode[w] = "none"
     \/ pc[w] \in {"create_digest", "fill_digest"} /\ made[w] = {"json"} /\ ValidSignal(own[w])
     \/ pc[w] \in Loading /\ mode[w] \in {"load", "existing"} /\ made[w] = {}
     \/ /\ pc[w] \in Loading /\ mode[w] = "verify" /\ made[w] = {"json", "digest"} /\ ValidSignal(own[w])
        /\ pc[w] # "exists_json" => seen[w].json = Complete(own[w])
     \/ pc[w] \in {"undo_digest", "undo_json"} /\ made[w] \in {{"json"}, {"json", "digest"}} /\ outcome[w] \notin Succeeded

MakerFits(w) ==
  Making(w) =>
    /\ \A v \in Writers \ {w} : Making(v) => Id(v) # Id(w)
    /\ json[Id(w)] = IF pc[w] = "fill_json" THEN Torn ELSE Complete(own[w])
    /\ disturbances = 0 =>
         /\ pc[w] \notin {"undo_digest", "undo_json"}
         /\ digest[Id(w)] = CASE pc[w] \in {"fill_json", "create_digest"} -> Absent
                             [] pc[w] = "fill_digest" -> Torn
                             [] OTHER -> Complete(own[w])

CreatedFits(w) ==
  pc[w] = "idle" /\ outcome[w] = "created" =>
    /\ Whole(Id(w)) /\ json[Id(w)] = Complete(own[w])
    /\ \A v \in Writers : Making(v) => Id(v) # Id(w)

NothingIsHalf ==
  disturbances = 0 =>
    \A i \in SignalIds :
      (\A w \in Writers : Making(w) => Id(w) # i) => Whole(i) \/ (json[i] = Absent /\ digest[i] = Absent)

SignalInv ==
  /\ DOMAIN json = SignalIds /\ DOMAIN digest = SignalIds
  /\ \A i \in SignalIds : json[i] \in Stored(i) /\ digest[i] \in Stored(i)
  /\ DOMAIN pc = Writers /\ DOMAIN own = Writers /\ DOMAIN made = Writers
  /\ DOMAIN mode = Writers /\ DOMAIN seen = Writers /\ DOMAIN outcome = Writers
  /\ \A w \in Writers : DOMAIN seen[w] = {"json", "digest"}
  /\ disturbances \in 0 .. MaxDisturbances
  /\ \A w \in Writers : CallFits(w) /\ MakerFits(w) /\ CreatedFits(w)
  /\ NothingIsHalf
  /\ SignalPairsHold

(***************************************************************************)
(* Of the calls that write one signal at a time at least one succeeds when *)
(* no file operation fails: a write that was begun leads to a whole pair,  *)
(* or to a conflict or failure that only a disturbance explains.           *)
(***************************************************************************)
Begun(i) == \E w \in Writers : pc[w] = "look_json" /\ Id(w) = i
Settled(i) == Whole(i) \/ disturbances > 0
SomeWriterWins == \A i \in SignalIds : Begun(i) ~> Settled(i)
=============================================================================
