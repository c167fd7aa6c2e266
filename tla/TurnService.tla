---------------------------- MODULE TurnService -----------------------------
(***************************************************************************)
(* What the glasses promise their wearer, without phone or network: each   *)
(* turn takes one picture; it may yield an answer, and after the answer    *)
(* speech, both about that very picture; it always comes to an end; and    *)
(* what has been answered or spoken does not change after the end.         *)
(***************************************************************************)
EXTENDS Integers

CONSTANT Turns     \* bound: turns in a behaviour

VARIABLES
  turn,      \* number of the current or last turn
  phase,     \* "idle" or "running"
  answer,    \* turn whose picture the text given to the wearer is about, or None
  spoken,    \* turn whose picture the speech played is about, or None
  outcome    \* "none", "ok" or "failed"

None == -1

vars == <<turn, phase, answer, spoken, outcome>>

Init ==
  /\ turn = 0
  /\ phase = "idle"
  /\ answer = None
  /\ spoken = None
  /\ outcome = "none"

Begin ==
  /\ phase = "idle"
  /\ turn < Turns
  /\ turn' = turn + 1
  /\ phase' = "running"
  /\ answer' = None
  /\ spoken' = None
  /\ outcome' = "none"

Answer ==
  /\ phase = "running"
  /\ answer' = turn
  /\ UNCHANGED <<turn, phase, spoken, outcome>>

Speak ==
  /\ phase = "running"
  /\ answer = turn
  /\ spoken' = turn
  /\ phase' = "idle"
  /\ outcome' = "ok"
  /\ UNCHANGED <<turn, answer>>

Fail ==
  /\ phase = "running"
  /\ phase' = "idle"
  /\ outcome' = "failed"
  /\ UNCHANGED <<turn, answer, spoken>>

\* Power is lost, and with it all that the turn has produced.
Lose ==
  /\ turn > 0
  /\ phase' = "idle"
  /\ answer' = None
  /\ spoken' = None
  /\ outcome' = "none"
  /\ UNCHANGED turn

End == phase = "running" /\ (Speak \/ Fail \/ Lose)

Next == Begin \/ Answer \/ Speak \/ Fail \/ Lose

Spec == Init /\ [][Next]_vars

\* The turn ends: every wait of the device is bounded.
FairSpec == Spec /\ WF_vars(End)
=============================================================================
