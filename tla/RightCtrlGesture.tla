------------------------- MODULE RightCtrlGesture -------------------------
(***************************************************************************)
(* The gesture recognizer of helpers/rightCtrlGesture.js.  Each method and *)
(* each kind of input is an operator from the fields of the recognizer to  *)
(* its next fields and the calls it makes (start, stop, cancel).           *)
(*                                                                         *)
(* timer is the pending timer (the hold or the double-tap delay), safety   *)
(* the limit on a recording.  Delays are not measured: an armed timer may  *)
(* fire at any time, a cleared one never.                                  *)
(***************************************************************************)
EXTENDS Sequences

Gesture == [state : {"idle", "pending", "tap", "second", "hold", "locked", "external-stop"},
            pressed : BOOLEAN, owns : BOOLEAN, timer : {"none", "hold", "tap"},
            safety : BOOLEAN]

Idle == [state |-> "idle", pressed |-> FALSE, owns |-> FALSE, timer |-> "none",
         safety |-> FALSE]

\* A recognizer and the calls a method makes on the way to it.
Quietly(g) == [next |-> g, calls |-> <<>>]
Calling(g, call) == [next |-> g, calls |-> <<call>>]

\* Mutant: a reset leaves the pending timer armed.
ResetTimerLeft(g) ==
    LET rest == [Idle EXCEPT !.timer = g.timer]
    IN  IF g.owns THEN Calling(rest, "cancel") ELSE Quietly(rest)

Reset(g) == IF g.owns THEN Calling(Idle, "cancel") ELSE Quietly(Idle)

Finish(g) ==
    IF g.owns \/ g.state = "external-stop" THEN Calling(Idle, "stop") ELSE Quietly(Idle)

RecordingEnded(g) == Quietly(Idle)

\* Mutant: the limit is armed for held recordings only.
BeginHoldLimited(g, state, canStart) ==
    IF canStart
      THEN Calling([g EXCEPT !.state = state, !.owns = TRUE, !.safety = (state = "hold")],
                   "start")
      ELSE Reset(g)

Begin(g, state, canStart) ==
    IF canStart
      THEN Calling([g EXCEPT !.state = state, !.owns = TRUE, !.safety = TRUE], "start")
      ELSE Reset(g)

\* Ctrl shortcuts are ordinary typing while hands-free.
Chord(g) == IF g.state = "locked" THEN Quietly([g EXCEPT !.pressed = FALSE]) ELSE Reset(g)

TapReset(g) == IF g.state = "tap" THEN Reset(g) ELSE Quietly(g)

Down(g, recording, canStart) ==
    LET down == [g EXCEPT !.pressed = TRUE]
        first == [down EXCEPT !.state = "pending", !.timer = "hold"]
        again == [down EXCEPT !.state = "second", !.timer = "hold"]
    IN  CASE g.pressed -> Quietly(g)
          [] ~g.pressed /\ g.state = "locked" -> Quietly(down)
          [] ~g.pressed /\ g.state = "idle" /\ recording ->
                 Quietly([down EXCEPT !.state = "external-stop"])
          [] OTHER -> IF ~canStart THEN Reset(down)
                      ELSE Quietly(IF g.state = "tap" THEN again ELSE first)

Up(g, canStart) ==
    LET up == [g EXCEPT !.pressed = FALSE, !.timer = "none"]
    IN  CASE ~g.pressed -> Quietly(g)
          [] g.pressed /\ g.state \in {"hold", "locked", "external-stop"} -> Finish(up)
          [] g.pressed /\ g.state = "second" -> Begin(up, "locked", canStart)
          [] g.pressed /\ g.state = "pending" ->
                 Quietly([up EXCEPT !.state = "tap", !.timer = "tap"])
          [] OTHER -> Quietly(up)

HoldElapsed(g, canStart) ==
    LET due == [g EXCEPT !.timer = "none"]
    IN  IF g.pressed THEN Begin(due, "hold", canStart) ELSE Quietly(due)

TapElapsed(g) == Reset(g)

\* input(event) for the lines of the helper.
Input(g, event, recording, canStart) ==
    CASE event \in {"RESET", "UNAVAILABLE"} -> Reset(g)
      [] event = "TAP_RESET" -> TapReset(g)
      [] event = "CHORD" -> Chord(g)
      [] event = "DOWN" -> Down(g, recording, canStart)
      [] event = "UP" -> Up(g, canStart)
=============================================================================
