------------------------------- MODULE UsageLedger -------------------------------
(***************************************************************************)
(* The standards usage ledger events.jsonl of one class and school year:   *)
(* appended to line by line, or rewritten as a whole, without a lock.      *)
(*                                                                         *)
(* The file is the sequence of its lines, each the sequence of the pieces  *)
(* written to it: a whole event or a torn one. Only a line that is one     *)
(* whole event can be read.                                                *)
(***************************************************************************)
EXTENDS Integers, Sequences

CONSTANTS
  Writers,      \* the processes
  Events,       \* the usage events
  Rewrites,     \* what callers rewrite the ledger to: sequences of events
  MaxLines,     \* bound on the lines of the ledger
  MaxDisturbances, \* bound on failing and torn writes
  None

VARIABLES
  lines,        \* the ledger, or None
  terminated,   \* whether its last line ends in a newline
  pc,
  appending,    \* the event a process appends
  separator,    \* whether it puts a newline before it
  opened,       \* whether the file it opened is still the ledger
  acknowledged, \* the events whose append returned and that no rewrite dropped
  raced,        \* of the appends now open, those another's failure or rewrite met
  disturbances

vars == <<lines, terminated, pc, appending, separator, opened, acknowledged, raced, disturbances>>

Init ==
  /\ lines = None /\ terminated = TRUE
  /\ pc = [w \in Writers |-> "idle"]
  /\ appending = [w \in Writers |-> None]
  /\ separator = [w \in Writers |-> FALSE]
  /\ opened = [w \in Writers |-> FALSE]
  /\ acknowledged = {} /\ raced = {} /\ disturbances = 0

NoFault == UNCHANGED disturbances
Fault == disturbances < MaxDisturbances /\ disturbances' = disturbances + 1
Goto(w, phase) == pc' = [pc EXCEPT ![w] = phase]

Whole(event) == [event |-> event, torn |-> FALSE]
Torn(event) == [event |-> event, torn |-> TRUE]
Lines == IF lines = None THEN << >> ELSE lines

(* Appends in progress when another process fails or rewrites the file. *)
OthersOpen(w) == {v \in Writers \ {w} : opened[v]}

(* Mutant of Open: the last byte is not looked at. *)
OpenBlindly(w, event) ==
  /\ pc[w] = "idle" /\ Goto(w, "append") /\ Len(Lines) < MaxLines
  /\ event \notin acknowledged /\ \A v \in Writers : appending[v] # event
  /\ lines' = Lines
  /\ appending' = [appending EXCEPT ![w] = event]
  /\ opened' = [opened EXCEPT ![w] = TRUE]
  /\ separator' = [separator EXCEPT ![w] = FALSE]
  /\ raced' = raced \ {w}
  /\ UNCHANGED <<terminated, acknowledged>> /\ NoFault

(* open("ab+") creates the file; its last byte says whether a newline is missing. *)
Open(w, event) ==
  /\ pc[w] = "idle" /\ Goto(w, "append") /\ Len(Lines) < MaxLines
  /\ event \notin acknowledged /\ \A v \in Writers : appending[v] # event
  /\ lines' = Lines
  /\ appending' = [appending EXCEPT ![w] = event]
  /\ opened' = [opened EXCEPT ![w] = TRUE]
  /\ separator' = [separator EXCEPT ![w] = ~ terminated]
  /\ raced' = raced \ {w}
  /\ UNCHANGED <<terminated, acknowledged>> /\ NoFault

(* The bytes go to the end of the file in one write; without a newline before them, to its last line. *)
Extended(w, piece) ==
  IF terminated \/ separator[w] THEN Append(lines, <<piece>>)
  ELSE [lines EXCEPT ![Len(lines)] = Append(@, piece)]

Close(w) ==
  /\ Goto(w, "idle")
  /\ appending' = [appending EXCEPT ![w] = None]
  /\ separator' = [separator EXCEPT ![w] = FALSE]
  /\ opened' = [opened EXCEPT ![w] = FALSE]

(* A file that was replaced since it was opened takes the bytes with it. *)
WriteLine(w) ==
  /\ pc[w] = "append" /\ Close(w) /\ NoFault
  /\ IF opened[w] THEN lines' = Extended(w, Whole(appending[w])) /\ terminated' = TRUE
     ELSE UNCHANGED <<lines, terminated>>
  /\ acknowledged' = IF w \in raced THEN acknowledged ELSE acknowledged \cup {appending[w]}
  /\ raced' = raced \ {w}

(* The write fails or the process crashes: nothing, a part, or all but the newline was written. *)
WriteBreaks(w) ==
  /\ pc[w] = "append" /\ Close(w) /\ Fault
  /\ \/ UNCHANGED <<lines, terminated>>
     \/ /\ opened[w]
        /\ \/ /\ \E piece \in {Torn(appending[w]), Whole(appending[w])} : lines' = Extended(w, piece)
              /\ terminated' = FALSE
           \/ separator[w] /\ UNCHANGED lines /\ terminated' = TRUE
  /\ raced' = (raced \ {w}) \cup OthersOpen(w)
  /\ UNCHANGED acknowledged

(* write_standard_usage_events: os.replace, unless there is a file and no leave to overwrite it. *)
Rewrite(w, events, overwriting) ==
  /\ pc[w] = "idle" /\ (lines = None \/ overwriting)
  /\ lines' = [i \in DOMAIN events |-> <<Whole(events[i])>>]
  /\ terminated' = TRUE
  /\ opened' = [v \in Writers |-> FALSE]
  /\ raced' = raced \cup OthersOpen(w)
  /\ acknowledged' = {events[i] : i \in DOMAIN events}
  /\ UNCHANGED <<pc, appending, separator>> /\ NoFault

Next ==
  \E w \in Writers :
    \/ \E event \in Events : Open(w, event)
    \/ WriteLine(w) \/ WriteBreaks(w)
    \/ \E events \in Rewrites, overwriting \in BOOLEAN : Rewrite(w, events, overwriting)

Spec == Init /\ [][Next]_vars

-----------------------------------------------------------------------------
(***************************************************************************)
(* The events with a line of their own. load_standard_usage_events returns *)
(* them, but refuses the whole ledger while it holds a line that is none.  *)
(***************************************************************************)
StoredEvents == {lines[i][1].event : i \in {j \in DOMAIN Lines : Len(lines[j]) = 1 /\ ~ lines[j][1].torn}}

(***************************************************************************)
(* An event whose append returned is a line of its own until the ledger is *)
(* rewritten without it, also when other writes broke off in the middle of *)
(* a line: none is lost once the torn lines are repaired. The races left   *)
(* lie between one opening and its write.                                  *)
(***************************************************************************)
AcknowledgedEventsStay == acknowledged \subseteq StoredEvents

(***************************************************************************)
(* What keeps it so: such an event is a line that cannot grow any more,    *)
(* and an append that nothing has met since it opened the file either puts *)
(* a newline first or needs none.                                          *)
(***************************************************************************)
Piece == [event : Events, torn : BOOLEAN]
Standing(event) == \E i \in DOMAIN Lines : Lines[i] = <<Whole(event)>> /\ (i = Len(Lines) => terminated)

LedgerInv ==
  /\ lines \in Seq(Seq(Piece)) \cup {None} /\ terminated \in BOOLEAN
  /\ pc \in [Writers -> {"idle", "append"}]
  /\ appending \in [Writers -> Events \cup {None}]
  /\ separator \in [Writers -> BOOLEAN] /\ opened \in [Writers -> BOOLEAN]
  /\ ~ terminated => Lines # << >>
  /\ \A w \in Writers :
       /\ pc[w] = "append" => appending[w] \in Events
       /\ opened[w] => lines # None /\ pc[w] = "append"
       /\ pc[w] = "append" /\ w \notin raced => opened[w] /\ (separator[w] \/ terminated)
  /\ \A event \in acknowledged : event \in Events /\ Standing(event)
  /\ AcknowledgedEventsStay
=============================================================================
