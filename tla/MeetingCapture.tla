--------------------------- MODULE MeetingCapture ---------------------------
(* What the main process promises about the capture of meetings, without the *)
(* queue, the flags and the awaits that keep the promise: one session at a   *)
(* time owns the audio helpers and the transcription streams, and a session  *)
(* that has given them up, or was dropped before it had them, never gets     *)
(* them again.  MeetingLifecycle implements it.                              *)
CONSTANTS Session, None

VARIABLES owner,   \* the session that holds the capture, or None
          over     \* the sessions that are done with it

vars == <<owner, over>>

Init ==
    /\ owner = None
    /\ over = {}

Begin(s) ==
    /\ owner = None
    /\ s \notin over
    /\ owner' = s
    /\ UNCHANGED over

End(s) ==
    /\ owner = s
    /\ owner' = None
    /\ over' = over \cup {s}

\* A start that is refused, cancelled or fails before it opened anything.
Drop(s) ==
    /\ owner # s
    /\ over' = over \cup {s}
    /\ UNCHANGED owner

Next == \E s \in Session : Begin(s) \/ End(s) \/ Drop(s)

Spec == Init /\ [][Next]_vars
=============================================================================
