-------------------------- MODULE DictationProofs --------------------------
(***************************************************************************)
(* Four invariants of Dictation, for any number of key presses and faults. *)
(* TimersMatch is about the recognizer alone: each of its methods keeps it,*)
(* and every action leaves the recognizer alone or takes one method of it. *)
(* MicAccounted needs to know what each await of a start finds: MicInv.    *)
(* PressedMeansHeld relates the helper and the recognizer through the lines*)
(* between them: KeyInv.  StatusAgrees relates the renderer and the main   *)
(* process through the commands and the reports between them: ReportInv    *)
(* and LogInv.                                                             *)
(***************************************************************************)
EXTENDS Dictation, TLAPS

\* TimersMatch of a recognizer h.
Match(h) ==
    /\ h.timer = "hold" <=> h.state \in {"pending", "second"}
    /\ h.timer = "tap" <=> h.state = "tap"
    /\ h.owns <=> h.state \in {"hold", "locked"}
    /\ h.safety <=> h.owns

\* What makes it inductive: a pending or held key is a pressed one.
Sound(h) ==
    /\ h \in Gesture
    /\ Match(h)
    /\ h.state \in {"pending", "second", "hold", "external-stop"} => h.pressed
    /\ h.state \in {"idle", "tap"} => ~h.pressed

\* The recognizer after the calls of its methods is Sound: one lemma per method.
LEMMA IdleSound == Sound(Idle)
  BY DEF Sound, Match, Idle, Gesture

LEMMA ResetSound == ASSUME NEW h PROVE Reset(h).next = Idle
  BY DEF Reset, Calling, Quietly

LEMMA FinishSound == ASSUME NEW h PROVE Finish(h).next = Idle
  BY DEF Finish, Calling, Quietly

\* Begin is called with the key's timer already cleared.
LEMMA BeginSound ==
  ASSUME NEW h \in Gesture, NEW can \in BOOLEAN, NEW state \in {"hold", "locked"},
         h.timer = "none", state = "hold" => h.pressed
  PROVE  Sound(Begin(h, state, can).next)
  <1>1. CASE can
    <2>1. Begin(h, state, can).next
            = [h EXCEPT !.state = state, !.owns = TRUE, !.safety = TRUE]
      BY <1>1 DEF Begin, Calling
    <2>2. QED BY <2>1 DEF Sound, Match, Gesture
  <1>2. CASE ~can
    BY <1>2, IdleSound, ResetSound DEF Begin
  <1>3. QED BY <1>1, <1>2

LEMMA DownSound ==
  ASSUME NEW h, Sound(h), NEW rec \in BOOLEAN, NEW can \in BOOLEAN
  PROVE  Sound(Down(h, rec, can).next)
  <1> DEFINE down == [h EXCEPT !.pressed = TRUE]
  <1>1. CASE h.pressed
    BY <1>1 DEF Down, Quietly
  <1>2. CASE ~h.pressed /\ h.state = "locked"
    <2>1. Down(h, rec, can).next = down BY <1>2 DEF Down, Quietly
    <2>2. QED BY <2>1, <1>2 DEF Sound, Match, Gesture
  <1>3. CASE ~h.pressed /\ h.state = "idle" /\ rec
    <2>1. Down(h, rec, can).next = [down EXCEPT !.state = "external-stop"]
      BY <1>3 DEF Down, Quietly
    <2>2. QED BY <2>1, <1>3 DEF Sound, Match, Gesture
  <1>4. CASE ~h.pressed /\ h.state # "locked" /\ ~(h.state = "idle" /\ rec) /\ ~can
    <2>1. Down(h, rec, can) = Reset(down) BY <1>4 DEF Down
    <2>2. QED BY <2>1, ResetSound, IdleSound
  <1>5. CASE ~h.pressed /\ h.state # "locked" /\ ~(h.state = "idle" /\ rec) /\ can
    <2>1. h.state \in {"idle", "tap"} BY <1>5 DEF Sound, Gesture
    <2>2. CASE h.state = "tap"
      <3>1. Down(h, rec, can).next = [down EXCEPT !.state = "second", !.timer = "hold"]
        BY <1>5, <2>2 DEF Down, Quietly
      <3>2. QED BY <3>1, <2>2 DEF Sound, Match, Gesture
    <2>3. CASE h.state = "idle"
      <3>1. Down(h, rec, can).next = [down EXCEPT !.state = "pending", !.timer = "hold"]
        BY <1>5, <2>3 DEF Down, Quietly
      <3>2. QED BY <3>1, <2>3 DEF Sound, Match, Gesture
    <2>4. QED BY <2>1, <2>2, <2>3
  <1>6. QED BY <1>1, <1>2, <1>3, <1>4, <1>5 DEF Sound, Gesture

LEMMA UpSound ==
  ASSUME NEW h, Sound(h), NEW can \in BOOLEAN
  PROVE  Sound(Up(h, can).next)
  <1> DEFINE up == [h EXCEPT !.pressed = FALSE, !.timer = "none"]
  <1>0. up \in Gesture /\ up.timer = "none" BY DEF Sound, Gesture
  <1>1. CASE ~h.pressed
    BY <1>1 DEF Up, Quietly
  <1>2. CASE h.pressed /\ h.state \in {"hold", "locked", "external-stop"}
    <2>1. Up(h, can) = Finish(up) BY <1>2 DEF Up
    <2>2. QED BY <2>1, FinishSound, IdleSound
  <1>3. CASE h.pressed /\ h.state = "second"
    <2>1. Up(h, can) = Begin(up, "locked", can) BY <1>3 DEF Up
    <2> HIDE DEF up
    <2>2. QED BY <2>1, <1>0, BeginSound
  <1>4. CASE h.pressed /\ h.state = "pending"
    <2>1. Up(h, can).next = [up EXCEPT !.state = "tap", !.timer = "tap"]
      BY <1>4 DEF Up, Quietly
    <2>2. QED BY <2>1, <1>4 DEF Sound, Match, Gesture
  <1>5. QED BY <1>1, <1>2, <1>3, <1>4 DEF Sound, Gesture

LEMMA ChordSound ==
  ASSUME NEW h, Sound(h) PROVE Sound(Chord(h).next)
  <1>1. CASE h.state = "locked"
    BY <1>1 DEF Chord, Quietly, Sound, Match, Gesture
  <1>2. CASE h.state # "locked"
    BY <1>2, ResetSound, IdleSound DEF Chord
  <1>3. QED BY <1>1, <1>2

LEMMA TapResetSound ==
  ASSUME NEW h, Sound(h) PROVE Sound(TapReset(h).next)
  BY ResetSound, IdleSound DEF TapReset, Quietly

LEMMA InputSound ==
  ASSUME NEW h, Sound(h), NEW line \in Line \ {"READY"},
         NEW rec \in BOOLEAN, NEW can \in BOOLEAN
  PROVE  Sound(Input(h, line, rec, can).next)
  <1>1. CASE line \in {"RESET", "UNAVAILABLE"}
    BY <1>1, ResetSound, IdleSound DEF Input
  <1>2. CASE line = "TAP_RESET" BY <1>2, TapResetSound DEF Input
  <1>3. CASE line = "CHORD" BY <1>3, ChordSound DEF Input
  <1>4. CASE line = "DOWN" BY <1>4, DownSound DEF Input
  <1>5. CASE line = "UP" BY <1>5, UpSound DEF Input
  <1>6. QED BY <1>1, <1>2, <1>3, <1>4, <1>5 DEF Line

LEMMA HoldSound ==
  ASSUME NEW h, Sound(h), h.timer = "hold", NEW can \in BOOLEAN
  PROVE  Sound(HoldElapsed(h, can).next)
  <1> DEFINE due == [h EXCEPT !.timer = "none"]
  <1>1. h.pressed BY DEF Sound, Match
  <1>2. due \in Gesture /\ due.timer = "none" /\ due.pressed BY <1>1 DEF Sound, Gesture
  <1>3. HoldElapsed(h, can) = Begin(due, "hold", can) BY <1>1 DEF HoldElapsed
  <1> HIDE DEF due
  <1>4. QED BY <1>2, <1>3, BeginSound
-----------------------------------------------------------------------------
\* The recognizer, the lines it may be sent, and what they are decided from.
GestureInv == Sound(g) /\ wire \in Seq(Line)

\* Every line the helper sends is one of Line.
LEMMA FilterTyped ==
  ASSUME wire \in Seq(Line), NEW next, NEW lines \in Seq(Line), Filter(next, lines)
  PROVE  wire' \in Seq(Line)
  <1>1. CASE link = "closed" BY <1>1 DEF Filter
  <1>2. CASE link # "closed" /\ helper.allowed
    <2>1. wire' = wire \o lines BY <1>2 DEF Filter
    <2>2. wire \o lines \in Seq(Line) OBVIOUS
    <2>3. QED BY <2>1, <2>2
  <1>3. CASE link # "closed" /\ ~helper.allowed
    <2>1. "UNAVAILABLE" \in Line BY DEF Line
    <2>2. QED BY <1>3, <2>1 DEF Filter
  <1>4. QED BY <1>1, <1>2, <1>3

LEMMA HelperTyped ==
  ASSUME wire \in Seq(Line),
         CtrlDown \/ CtrlUp \/ OtherDown \/ OtherUp \/ RecentPasses \/ SessionChanges
           \/ InputLost \/ DevicesChange
  PROVE  wire' \in Seq(Line) /\ g' = g
  <1>1. <<>> \in Seq(Line) /\ \A line \in Line : <<line>> \in Seq(Line)
    OBVIOUS
  <1>2. {"DOWN", "UP", "CHORD", "TAP_RESET", "RESET", "READY", "UNAVAILABLE"} \subseteq Line
    BY DEF Line
  <1>3. CASE CtrlDown
    <2> DEFINE lines == IF Hears /\ ~helper.other THEN <<"DOWN">> ELSE <<>>
    <2>1. lines \in Seq(Line) BY <1>1, <1>2
    <2>2. \E next : Filter(next, lines) BY <1>3 DEF CtrlDown
    <2>3. g' = g BY <1>3 DEF CtrlDown, mainVars
    <2> HIDE DEF lines
    <2>4. QED BY <2>1, <2>2, <2>3, FilterTyped
  <1>4. CASE CtrlUp
    <2> DEFINE lines == IF helper.candidate THEN <<"UP">> ELSE <<>>
    <2>1. lines \in Seq(Line) BY <1>1, <1>2
    <2>2. \E next : Filter(next, lines) BY <1>4 DEF CtrlUp
    <2>3. g' = g BY <1>4 DEF CtrlUp, mainVars
    <2> HIDE DEF lines
    <2>4. QED BY <2>1, <2>2, <2>3, FilterTyped
  <1>5. CASE OtherDown
    <2> DEFINE lines == CASE helper.candidate -> <<"CHORD">>
                          [] ~helper.candidate /\ helper.recent -> <<"TAP_RESET">>
                          [] OTHER -> <<>>
    <2>1. lines \in Seq(Line) BY <1>1, <1>2
    <2>2. \E next : Filter(next, lines) BY <1>5 DEF OtherDown
    <2>3. g' = g BY <1>5 DEF OtherDown, mainVars
    <2> HIDE DEF lines
    <2>4. QED BY <2>1, <2>2, <2>3, FilterTyped
  <1>6. CASE OtherUp
    <2>1. \E next : Filter(next, <<>>) BY <1>6 DEF OtherUp
    <2>2. g' = g BY <1>6 DEF OtherUp, mainVars
    <2>3. QED BY <1>1, <2>1, <2>2, FilterTyped
  <1>7. CASE RecentPasses BY <1>7 DEF RecentPasses, mainVars
  <1>8. CASE SessionChanges BY <1>2, <1>8 DEF SessionChanges, mainVars
  <1>9. CASE InputLost BY <1>2, <1>9 DEF InputLost, ResetKeys, mainVars
  <1>10. CASE DevicesChange BY <1>2, <1>10 DEF DevicesChange, ResetKeys, mainVars
  <1>11. QED BY <1>3, <1>4, <1>5, <1>6, <1>7, <1>8, <1>9, <1>10

LEMMA ReceiveSound ==
  ASSUME GestureInv, Receive
  PROVE  GestureInv'
  <1>1. wire' = Tail(wire) /\ wire # <<>> BY DEF Receive
  <1>2. wire' \in Seq(Line) /\ Head(wire) \in Line BY <1>1 DEF GestureInv
  <1>3. CASE Head(wire) = "READY"
    <2>1. Recognize(Reset(g), FALSE) BY <1>3 DEF Receive
    <2>2. QED BY <1>2, <2>1, ResetSound, IdleSound DEF Recognize, GestureInv
  <1>4. CASE Head(wire) # "READY" /\ g' # g
    <2>1. PICK panel, blocked \in Refusals :
             Recognize(Input(g, Head(wire), IsRecording, CanStart(panel)), blocked)
      BY <1>4 DEF Receive
    <2>2. IsRecording \in BOOLEAN /\ CanStart(panel) \in BOOLEAN
      BY DEF IsRecording, CanStart
    <2>3. Head(wire) \in Line \ {"READY"} /\ Sound(g) BY <1>2, <1>4 DEF GestureInv
    <2>4. Sound(Input(g, Head(wire), IsRecording, CanStart(panel)).next)
      BY <2>2, <2>3, InputSound
    <2>5. g' = Input(g, Head(wire), IsRecording, CanStart(panel)).next
      BY <2>1 DEF Recognize
    <2>6. QED BY <1>2, <2>4, <2>5 DEF GestureInv
  <1>5. CASE g' = g BY <1>2, <1>5 DEF GestureInv
  <1>6. QED BY <1>3, <1>4, <1>5

LEMMA HoldTimerSound ==
  ASSUME GestureInv, HoldTimer
  PROVE  GestureInv'
  <1>1. PICK panel, blocked \in Refusals : Recognize(HoldElapsed(g, CanStart(panel)), blocked)
    BY DEF HoldTimer
  <1>2. CanStart(panel) \in BOOLEAN BY DEF CanStart
  <1>3. Sound(HoldElapsed(g, CanStart(panel)).next)
    BY <1>2, HoldSound DEF GestureInv, HoldTimer
  <1>4. g' = HoldElapsed(g, CanStart(panel)).next BY <1>1 DEF Recognize
  <1>5. wire' = wire BY DEF HoldTimer, helperVars
  <1>6. QED BY <1>3, <1>4, <1>5 DEF GestureInv

\* Every other step of the recognizer resets it.
LEMMA ResettingSound ==
  ASSUME GestureInv, TapTimer \/ SafetyTimer \/ SocketCloses \/ Report
  PROVE  GestureInv'
  <1>1. wire' \in Seq(Line)
    <2>1. wire' = wire \/ wire' = <<>>
      BY DEF TapTimer, SafetyTimer, SocketCloses, Report, helperVars
    <2>2. <<>> \in Seq(Line) OBVIOUS
    <2>3. QED BY <2>1, <2>2 DEF GestureInv
  <1>2. g' = Idle \/ g' = g
    BY ResetSound, FinishSound
       DEF TapTimer, SafetyTimer, SocketCloses, Report, Recognize, TapElapsed,
           RecordingEnded, Quietly
  <1>3. QED BY <1>1, <1>2, IdleSound DEF GestureInv

\* The steps that are not the recognizer's.
LEMMA ElsewhereSound ==
  ASSUME GestureInv,
         \/ Connect \/ ListeningMode \/ ListeningEnds \/ Toggle \/ Escape
         \/ MicFails \/ Renderer
  PROVE  GestureInv'
  <1>1. CASE Connect
    <2>1. {"READY", "UNAVAILABLE"} \subseteq Line BY DEF Line
    <2>2. QED BY <1>1, <2>1 DEF Connect, GestureInv
  <1>2. CASE ListeningMode \/ ListeningEnds
    BY <1>2 DEF ListeningMode, ListeningEnds, GestureInv, helperVars
  <1>3. CASE Toggle \/ Escape
    BY <1>3 DEF Toggle, Escape, GestureInv, helperVars, mainVars
  <1>4. CASE MicFails BY <1>4 DEF MicFails, GestureInv, helperVars, mainVars
  <1>5. CASE Renderer
    BY <1>5 DEF Renderer, Handle, StartSettles, StopSettles, FramesPass, TargetCaptured,
                MicOpens, Armed, StopFrames, RecorderStops, Settle, Render, GestureInv,
                Others, helperVars, mainVars
  <1>6. QED BY <1>1, <1>2, <1>3, <1>4, <1>5

\* GestureInv holds in every state, one case per kind of step.
LEMMA GestureInit == Init => GestureInv
  <1>1. "READY" \in Line BY DEF Line
  <1>2. QED BY <1>1, IdleSound DEF Init, GestureInv

LEMMA GestureStep == GestureInv /\ [Next]_vars => GestureInv'
  <1> SUFFICES ASSUME GestureInv, [Next]_vars PROVE GestureInv'
    OBVIOUS
  <1>1. CASE UNCHANGED vars BY <1>1 DEF GestureInv, vars
  <1>2. CASE Receive BY <1>2, ReceiveSound
  <1>3. CASE HoldTimer BY <1>3, HoldTimerSound
  <1>4. CASE TapTimer \/ SafetyTimer \/ SocketCloses \/ Report BY <1>4, ResettingSound
  <1>5. CASE CtrlDown \/ CtrlUp \/ OtherDown \/ OtherUp \/ RecentPasses \/ SessionChanges
               \/ InputLost \/ DevicesChange
    BY <1>5, HelperTyped DEF GestureInv
  <1>6. CASE Connect \/ ListeningMode \/ ListeningEnds \/ Toggle \/ Escape
               \/ MicFails \/ Renderer
    BY <1>6, ElsewhereSound
  <1>7. QED BY <1>1, <1>2, <1>3, <1>4, <1>5, <1>6 DEF Next, User, Faulty, Main

\* The timers armed are those of the recognizer's state, whatever the keys, the
\* helper, the shortcuts and the renderer's reports do.
THEOREM TimersAlwaysMatch == Spec => []TimersMatch
  <1>1. GestureInv => TimersMatch BY DEF GestureInv, Sound, Match, TimersMatch
  <1>2. QED BY <1>1, GestureInit, GestureStep, PTL DEF Spec
-----------------------------------------------------------------------------
\* What makes MicAccounted inductive: until its microphone opens a start finds no
\* recorder and no transcription, only the end of a start hands a recorder over to
\* be stopped, and a recorder is never stopped while another recording transcribes.
MicFacts(m) ==
    /\ m.recorder = "live" => m.isRecording
    /\ m.isProcessing => m.recorder = "none" /\ ~m.isRecording
    /\ m.start \in {"frames", "target", "opening"} =>
           m.recorder = "none" /\ ~m.isRecording /\ ~m.isProcessing
    /\ m.start = "arming" => m.recorder # "closing" /\ ~m.isProcessing
    /\ m.isRecording => m.recorder # "none"
    /\ m.stopping => m.start \in {"none", "frames"}

MicInv == mic \in Mic /\ MicFacts(mic)

\* The two ways a step of the renderer leaves mic: as next, or as next with the
\* state it reported.
LEMMA QuietKeeps ==
  ASSUME NEW next \in Mic, MicFacts(next), Quiet(next)
  PROVE  MicInv'
  BY DEF Quiet, MicInv, MicFacts

LEMMA ReportingKeeps ==
  ASSUME NEW next \in Mic, MicFacts(next), NEW state \in Lifecycle, Reporting(next, state)
  PROVE  MicInv'
  BY DEF Reporting, MicInv, MicFacts, Mic

LEMMA StartFailsKeeps ==
  ASSUME NEW next \in Mic, MicFacts(next), StartFails(next)
  PROVE  MicInv'
  <1> DEFINE rest == [next EXCEPT !.start = "none", !.stopAsked = FALSE]
  <1>1. rest \in Mic /\ MicFacts(rest) BY DEF Mic, MicFacts
  <1>2. Reporting(rest, "idle") \/ Quiet(rest) BY DEF StartFails
  <1>3. "idle" \in Lifecycle BY DEF Lifecycle
  <1> HIDE DEF rest
  <1>4. QED BY <1>1, <1>2, <1>3, QuietKeeps, ReportingKeeps

\* A recorder about to deliver its stop event to no recording lets no start pass.
LEMMA PerformStartKeeps ==
  ASSUME MicInv, ~StopEventDue, PerformStart
  PROVE  MicInv'
  <1>1. CASE UNCHANGED mic BY <1>1 DEF MicInv
  <1>2. CASE CanStartDictation
             /\ Quiet([mic EXCEPT !.start = "frames", !.stale = FALSE, !.stopAsked = FALSE])
    <2> DEFINE next == [mic EXCEPT !.start = "frames", !.stale = FALSE, !.stopAsked = FALSE]
    <2>1. next \in Mic /\ MicFacts(next)
      BY <1>2 DEF MicInv, MicFacts, Mic, CanStartDictation, StopEventDue
    <2>2. Quiet(next) BY <1>2
    <2> HIDE DEF next
    <2>3. QED BY <2>1, <2>2, QuietKeeps
  <1>3. CASE StartFails(mic) BY <1>3, StartFailsKeeps DEF MicInv
  <1>4. QED BY <1>1, <1>2, <1>3 DEF PerformStart

LEMMA PerformStopKeeps ==
  ASSUME MicInv, PerformStop
  PROVE  MicInv'
  <1> DEFINE asked == [mic EXCEPT !.stopAsked = TRUE]
             stops == [mic EXCEPT !.stopping = TRUE]
  <1>1. asked \in Mic /\ MicFacts(asked) BY DEF MicInv, MicFacts, Mic
  <1>2. mic.start = "none" => stops \in Mic /\ MicFacts(stops)
    BY DEF MicInv, MicFacts, Mic
  <1>3. mic \in Mic /\ MicFacts(mic) BY DEF MicInv
  <1>4. Quiet(asked) \/ Quiet(mic) \/ (mic.start = "none" /\ Quiet(stops))
    BY DEF PerformStop
  <1> HIDE DEF asked, stops
  <1>5. QED BY <1>1, <1>2, <1>3, <1>4, QuietKeeps

\* Cancelling needs a case of its own: the recorder it stops itself is gone, one
\* stopped before still delivers its event.
LEMMA CancelKeeps ==
  ASSUME MicInv, CancelRecording
  PROVE  MicInv'
  <1> DEFINE stale == [mic EXCEPT !.stale = TRUE]
             over == [stale EXCEPT !.isRecording = FALSE, !.isProcessing = FALSE,
                                   !.recorder = IF @ = "live" THEN "none" ELSE @]
  <1>1. stale \in Mic /\ MicFacts(stale) BY DEF MicInv, MicFacts, Mic
  <1>2. over \in Mic /\ MicFacts(over) BY DEF MicInv, MicFacts, Mic
  <1>3. Reporting(over, "idle") \/ Quiet(stale) BY DEF CancelRecording, Detach
  <1>4. "idle" \in Lifecycle BY DEF Lifecycle
  <1> HIDE DEF stale, over
  <1>5. QED BY <1>1, <1>2, <1>3, <1>4, QuietKeeps, ReportingKeeps

LEMMA PreparationKeeps ==
  ASSUME MicInv, CancelPreparation \/ Prepare
  PROVE  MicInv'
  <1> DEFINE stale == [mic EXCEPT !.stale = TRUE]
  <1>1. stale \in Mic /\ MicFacts(stale) BY DEF MicInv, MicFacts, Mic
  <1>2. mic \in Mic /\ MicFacts(mic) BY DEF MicInv
  <1>3. Reporting(stale, "idle") \/ Reporting(stale, "preparing") \/ Quiet(stale) \/ Quiet(mic)
    BY DEF CancelPreparation, Prepare
  <1>4. {"idle", "preparing"} \subseteq Lifecycle BY DEF Lifecycle
  <1> HIDE DEF stale
  <1>5. QED BY <1>1, <1>2, <1>3, <1>4, QuietKeeps, ReportingKeeps

LEMMA HandleKeeps ==
  ASSUME MicInv, Handle
  PROVE  MicInv'
  <1>1. ~StopEventDue BY DEF Handle
  <1>2. \/ PerformStart \/ PerformStop \/ CancelRecording \/ Quiet(mic)
        \/ CancelPreparation \/ Prepare \/ UNCHANGED mic
    BY DEF Handle
  <1>3. mic \in Mic /\ MicFacts(mic) BY DEF MicInv
  <1>4. CASE UNCHANGED mic BY <1>4 DEF MicInv
  <1>5. QED BY <1>1, <1>2, <1>3, <1>4, PerformStartKeeps, PerformStopKeeps, CancelKeeps,
               PreparationKeeps, QuietKeeps

\* The awaits of a start.
LEMMA StartSettlesKeeps ==
  ASSUME MicInv, StartSettles \/ MicFails
  PROVE  MicInv'
  <1>0. mic \in Mic /\ MicFacts(mic) BY DEF MicInv
  <1>1. CASE FramesPass
    <2> DEFINE next == [mic EXCEPT !.start = "target"]
    <2>1. next \in Mic /\ MicFacts(next) BY <1>1 DEF FramesPass, MicInv, MicFacts, Mic
    <2>2. StartFails(mic) \/ Quiet(next) BY <1>1 DEF FramesPass
    <2> HIDE DEF next
    <2>3. QED BY <1>0, <2>1, <2>2, StartFailsKeeps, QuietKeeps
  <1>2. CASE TargetCaptured
    <2> DEFINE next == [mic EXCEPT !.start = "opening"]
    <2>1. next \in Mic /\ MicFacts(next) BY <1>2 DEF TargetCaptured, MicInv, MicFacts, Mic
    <2>2. Reporting(next, "preparing") BY <1>2 DEF TargetCaptured
    <2>3. "preparing" \in Lifecycle BY DEF Lifecycle
    <2> HIDE DEF next
    <2>4. QED BY <2>1, <2>2, <2>3, ReportingKeeps
  <1>3. CASE MicOpens
    <2> DEFINE next == [mic EXCEPT !.start = "arming", !.isRecording = TRUE,
                                   !.recorder = "live"]
    <2>1. next \in Mic /\ MicFacts(next) BY <1>3 DEF MicOpens, MicInv, MicFacts, Mic
    <2>2. Reporting(next, "recording") BY <1>3 DEF MicOpens
    <2>3. "recording" \in Lifecycle BY DEF Lifecycle
    <2> HIDE DEF next
    <2>4. QED BY <2>1, <2>2, <2>3, ReportingKeeps
  <1>4. CASE MicFails BY <1>0, <1>4, StartFailsKeeps DEF MicFails
  <1>5. CASE Armed
    <2> DEFINE done == [mic EXCEPT !.start = "none", !.stopAsked = FALSE]
    <2>1. done \in Mic /\ MicFacts(done) BY <1>5 DEF Armed, MicInv, MicFacts, Mic
    <2>2. Close(done) \in Mic /\ MicFacts(Close(done))
      BY <1>5 DEF Armed, Close, MicInv, MicFacts, Mic
    <2>3. Quiet(done) \/ Quiet(Close(done)) BY <1>5 DEF Armed
    <2> HIDE DEF done
    <2>4. QED BY <2>1, <2>2, <2>3, QuietKeeps
  <1>6. QED BY <1>1, <1>2, <1>3, <1>4, <1>5 DEF StartSettles

\* The awaits of a stop, the end of the transcription, and React.
LEMMA StopSettlesKeeps ==
  ASSUME MicInv, StopSettles \/ Settle \/ Render
  PROVE  MicInv'
  <1>1. CASE StopFrames
    <2> DEFINE next == [mic EXCEPT !.stopping = FALSE]
    <2>1. Close(next) \in Mic /\ MicFacts(Close(next))
      BY <1>1 DEF StopFrames, Close, MicInv, MicFacts, Mic
    <2>2. Quiet(Close(next)) BY <1>1 DEF StopFrames
    <2> HIDE DEF next
    <2>3. QED BY <2>1, <2>2, QuietKeeps
  <1>2. CASE RecorderStops
    <2> DEFINE next == [mic EXCEPT !.recorder = "none", !.isRecording = FALSE,
                                   !.isProcessing = TRUE]
    <2>1. next \in Mic /\ MicFacts(next) BY <1>2 DEF RecorderStops, MicInv, MicFacts, Mic
    <2>2. Reporting(next, "processing") BY <1>2 DEF RecorderStops
    <2>3. "processing" \in Lifecycle BY DEF Lifecycle
    <2> HIDE DEF next
    <2>4. QED BY <2>1, <2>2, <2>3, ReportingKeeps
  <1>3. CASE Settle
    <2> DEFINE next == [mic EXCEPT !.isProcessing = FALSE]
    <2>1. next \in Mic /\ MicFacts(next) BY DEF MicInv, MicFacts, Mic
    <2>2. Reporting(next, "idle") BY <1>3 DEF Settle
    <2>3. "idle" \in Lifecycle BY DEF Lifecycle
    <2> HIDE DEF next
    <2>4. QED BY <2>1, <2>2, <2>3, ReportingKeeps
  <1>4. CASE Render
    <2> DEFINE next == [mic EXCEPT !.shown = mic.isRecording]
    <2>1. next \in Mic /\ MicFacts(next) BY DEF MicInv, MicFacts, Mic
    <2>2. Quiet(next) BY <1>4 DEF Render
    <2> HIDE DEF next
    <2>3. QED BY <2>1, <2>2, QuietKeeps
  <1>5. QED BY <1>1, <1>2, <1>3, <1>4 DEF StopSettles

\* The other processes do not touch the renderer's state.
LEMMA ElsewhereKeeps ==
  ASSUME MicInv,
         User \/ SessionChanges \/ InputLost \/ DevicesChange \/ SocketCloses \/ ListeningMode
           \/ Main \/ RecentPasses \/ Connect \/ ListeningEnds
  PROVE  MicInv'
  <1>1. mic' = mic
    BY DEF User, CtrlDown, CtrlUp, OtherDown, OtherUp, Toggle, Escape, SessionChanges,
           InputLost, DevicesChange, SocketCloses, ListeningMode, Main, Receive, HoldTimer,
           TapTimer, SafetyTimer, Report, RecentPasses, Connect, ListeningEnds, rendererVars
  <1>2. QED BY <1>1 DEF MicInv

\* MicInv holds in every state.
LEMMA MicInit == Init => MicInv
  BY DEF Init, MicInv, MicFacts, Mic, Lifecycle

LEMMA MicStep == MicInv /\ [Next]_vars => MicInv'
  <1> SUFFICES ASSUME MicInv, [Next]_vars PROVE MicInv'
    OBVIOUS
  <1>1. CASE UNCHANGED vars BY <1>1 DEF MicInv, vars
  <1>2. CASE Handle BY <1>2, HandleKeeps
  <1>3. CASE StartSettles \/ MicFails BY <1>3, StartSettlesKeeps
  <1>4. CASE StopSettles \/ Settle \/ Render BY <1>4, StopSettlesKeeps
  <1>5. CASE User \/ SessionChanges \/ InputLost \/ DevicesChange \/ SocketCloses
               \/ ListeningMode \/ Main \/ RecentPasses \/ Connect \/ ListeningEnds
    BY <1>5, ElsewhereKeeps
  <1>6. QED BY <1>1, <1>2, <1>3, <1>4, <1>5 DEF Next, Faulty, Renderer

\* A live recorder always belongs to the recording the manager knows of, and never
\* runs beside the transcription of an earlier one.
THEOREM MicAlwaysAccounted == Spec => []MicAccounted
  <1>1. MicInv => MicAccounted BY DEF MicInv, MicFacts, MicAccounted
  <1>2. QED BY <1>1, MicInit, MicStep, PTL DEF Spec
-----------------------------------------------------------------------------
\* A line after which the recognizer holds no key.
Clears(line) == line \in {"READY", "RESET", "UNAVAILABLE", "UP", "CHORD"}

\* What makes PressedMeansHeld inductive.  A recognizer that reads no keys holds
\* none; and while the helper follows no key, one the recognizer holds, or is about
\* to be told of, has its release or its reset behind it on the wire.
KeyInv ==
    /\ link # "ready" => ~g.pressed
    /\ link # "closed" /\ ~helper.candidate =>
           /\ g.pressed => \E k \in DOMAIN wire : Clears(wire[k])
           /\ \A k \in DOMAIN wire : wire[k] = "DOWN" =>
                  \E m \in DOMAIN wire : m > k /\ Clears(wire[m])

\* The recognizer lets go of the key when it resets or finishes.
LEMMA IdleReleased == ~Idle.pressed /\ \A h : Reset(h).next = Idle /\ Finish(h).next = Idle
  BY ResetSound, FinishSound DEF Idle

\* Only "DOWN" presses the key, and every clearing line releases it.
LEMMA InputReleases ==
  ASSUME NEW h \in Gesture, NEW line \in Line \ {"READY"}, NEW rec \in BOOLEAN,
         NEW can \in BOOLEAN
  PROVE  LET next == Input(h, line, rec, can).next
         IN  /\ line # "DOWN" /\ next.pressed => h.pressed
             /\ Clears(line) => ~next.pressed
  <1> DEFINE next == Input(h, line, rec, can).next
             up == [h EXCEPT !.pressed = FALSE, !.timer = "none"]
  <1>1. CASE line \in {"RESET", "UNAVAILABLE"}
    BY <1>1, IdleReleased DEF Input
  <1>2. CASE line = "TAP_RESET"
    <2>1. next = Idle \/ next = h BY <1>2, IdleReleased DEF Input, TapReset, Quietly
    <2>2. QED BY <1>2, <2>1, IdleReleased DEF Clears
  <1>3. CASE line = "CHORD"
    <2>1. next = Idle \/ next = [h EXCEPT !.pressed = FALSE]
      BY <1>3, IdleReleased DEF Input, Chord, Quietly
    <2>2. ~next.pressed BY <2>1, IdleReleased DEF Gesture
    <2>3. QED BY <2>2
  <1>4. CASE line = "DOWN" BY <1>4 DEF Clears
  <1>5. CASE line = "UP"
    <2>1. next = Up(h, can).next BY <1>5 DEF Input
    <2>2. ~up.pressed BY DEF Gesture
    <2>3. ~Begin(up, "locked", can).next.pressed
      <3>1. \/ Begin(up, "locked", can).next
                 = [up EXCEPT !.state = "locked", !.owns = TRUE, !.safety = TRUE]
            \/ Begin(up, "locked", can).next = Idle
        BY IdleReleased DEF Begin, Calling
      <3>2. QED BY <3>1, IdleReleased DEF Gesture
    <2>4. ~[up EXCEPT !.state = "tap", !.timer = "tap"].pressed BY DEF Gesture
    <2> HIDE DEF up
    <2>5. ~Up(h, can).next.pressed
      <3>1. \/ Up(h, can).next = h /\ ~h.pressed
            \/ Up(h, can) = Finish(up) \/ Up(h, can) = Begin(up, "locked", can)
            \/ Up(h, can).next = [up EXCEPT !.state = "tap", !.timer = "tap"]
            \/ Up(h, can).next = up
        BY DEF Up, Quietly, up
      <3>2. QED BY <2>2, <2>3, <2>4, <3>1, IdleReleased
    <2>6. QED BY <2>1, <2>5
  <1>6. QED BY <1>1, <1>2, <1>3, <1>4, <1>5 DEF Line

\* The hold timer presses no key.
LEMMA HoldReleases ==
  ASSUME NEW h \in Gesture, NEW can \in BOOLEAN, HoldElapsed(h, can).next.pressed
  PROVE  h.pressed
  <1> DEFINE due == [h EXCEPT !.timer = "none"]
  <1>1. ASSUME ~h.pressed PROVE FALSE
    <2>1. HoldElapsed(h, can).next = due BY <1>1 DEF HoldElapsed, Quietly
    <2>2. QED BY <1>1, <2>1 DEF Gesture
  <1>2. QED BY <1>1 DEF Gesture

\* What a step of the helper may append while it follows no key: a clearing line,
\* or, when it followed none before, anything but "DOWN".
LEMMA KeyAppends ==
  ASSUME KeyInv, wire \in Seq(Line), g' = g, link' = link,
         \/ link = "closed"
         \/ helper'.candidate
         \/ ~helper.candidate /\ wire' = wire
         \/ \E line \in Line : /\ wire' = Append(wire, line)
                               /\ Clears(line) \/ (~helper.candidate /\ line # "DOWN")
  PROVE  KeyInv'
  <1>1. CASE link = "closed" \/ helper'.candidate BY <1>1 DEF KeyInv
  <1>2. CASE ~helper.candidate /\ wire' = wire BY <1>2 DEF KeyInv
  <1>3. ASSUME link # "closed", NEW line \in Line, wire' = Append(wire, line),
               Clears(line) \/ (~helper.candidate /\ line # "DOWN")
        PROVE  KeyInv'
    <2> DEFINE n == Len(wire)
    <2>1. /\ n \in Nat /\ DOMAIN wire = 1..n /\ DOMAIN wire' = 1..(n + 1)
          /\ wire'[n + 1] = line
          /\ \A k \in 1..n : wire'[k] = wire[k]
      BY <1>3
    <2>2. CASE Clears(line)
      <3>1. n + 1 \in DOMAIN wire' /\ \A k \in DOMAIN wire' : wire'[k] = "DOWN" => n + 1 > k
        BY <2>1, <2>2 DEF Clears
      <3>2. QED BY <2>1, <2>2, <3>1 DEF KeyInv
    <2>3. CASE ~helper.candidate /\ line # "DOWN"
      <3>1. DOMAIN wire \subseteq DOMAIN wire' BY <2>1
      <3>2. g.pressed => \E k \in DOMAIN wire' : Clears(wire'[k])
        BY <1>3, <2>1, <2>3, <3>1 DEF KeyInv
      <3>3. ASSUME NEW k \in DOMAIN wire', wire'[k] = "DOWN"
            PROVE  \E m \in DOMAIN wire' : m > k /\ Clears(wire'[m])
        <4>1. k \in DOMAIN wire /\ wire[k] = "DOWN" BY <2>1, <2>3, <3>3
        <4>2. PICK m \in DOMAIN wire : m > k /\ Clears(wire[m])
          BY <1>3, <2>3, <4>1 DEF KeyInv
        <4>3. QED BY <2>1, <3>1, <4>2
      <3>4. QED BY <3>2, <3>3 DEF KeyInv
    <2>4. QED BY <1>3, <2>2, <2>3
  <1>4. QED BY <1>1, <1>2, <1>3

\* The same of filter_key, also when it finds the session locked.
LEMMA KeyFiltered ==
  ASSUME KeyInv, wire \in Seq(Line), g' = g, link' = link, NEW next, NEW line \in Line,
         Filter(next, <<>>) \/ Filter(next, <<line>>),
         next.candidate \in BOOLEAN,
         \/ next.candidate
         \/ ~helper.candidate /\ Filter(next, <<>>)
         \/ (Clears(line) \/ (~helper.candidate /\ line # "DOWN")) /\ Filter(next, <<line>>)
  PROVE  KeyInv'
  <1>1. CASE link = "closed" BY <1>1, KeyAppends
  <1>2. CASE link # "closed" /\ ~helper.allowed
    <2>1. "UNAVAILABLE" \in Line /\ Clears("UNAVAILABLE") BY DEF Line, Clears
    <2>2. wire' = Append(wire, "UNAVAILABLE") BY <1>2 DEF Filter
    <2>3. QED BY <2>1, <2>2, KeyAppends
  <1>3. CASE link # "closed" /\ helper.allowed
    <2>1. helper' = next BY <1>3 DEF Filter
    <2>2. Filter(next, <<>>) => wire' = wire BY <1>3 DEF Filter
    <2>3. Filter(next, <<line>>) => wire' = Append(wire, line) BY <1>3 DEF Filter
    <2>4. QED BY <2>1, <2>2, <2>3, KeyAppends
  <1>4. QED BY <1>1, <1>2, <1>3

\* The steps of the helper: each line that ends a candidate clears.
LEMMA HelperKeeps ==
  ASSUME KeyInv, wire \in Seq(Line), helper \in Helper,
         CtrlDown \/ CtrlUp \/ OtherDown \/ OtherUp \/ RecentPasses \/ SessionChanges
           \/ InputLost \/ DevicesChange
  PROVE  KeyInv'
  <1>0. {"DOWN", "UP", "CHORD", "TAP_RESET", "RESET", "READY", "UNAVAILABLE"} \subseteq Line
        /\ Clears("UP") /\ Clears("CHORD") /\ Clears("RESET") /\ Clears("READY")
        /\ Clears("UNAVAILABLE")
    BY DEF Line, Clears
  <1>1. g' = g /\ link' = link
    BY DEF CtrlDown, CtrlUp, OtherDown, OtherUp, RecentPasses, SessionChanges, InputLost,
           DevicesChange, mainVars
  <1>2. CASE CtrlDown
    <2> DEFINE clean == Hears /\ ~helper.other
               next == [helper EXCEPT !.ctrl = TRUE, !.candidate = @ \/ clean,
                                      !.recent = @ /\ ~clean]
    <2>1. next.candidate = (helper.candidate \/ clean) BY DEF Helper
    <2>2. Filter(next, IF clean THEN <<"DOWN">> ELSE <<>>) BY <1>2 DEF CtrlDown
    <2>3. helper.candidate \in BOOLEAN /\ clean \in BOOLEAN BY DEF Helper, Hears
    <2> HIDE DEF next, clean
    <2>4. QED BY <1>0, <1>1, <2>1, <2>2, <2>3, KeyFiltered
  <1>3. CASE CtrlUp
    <2> DEFINE next == [helper EXCEPT !.ctrl = FALSE, !.candidate = FALSE,
                                      !.recent = @ \/ helper.candidate]
    <2>1. next.candidate = FALSE BY DEF Helper
    <2>2. Filter(next, IF helper.candidate THEN <<"UP">> ELSE <<>>) BY <1>3 DEF CtrlUp
    <2> HIDE DEF next
    <2>3. QED BY <1>0, <1>1, <2>1, <2>2, KeyFiltered
  <1>4. CASE OtherDown
    <2> DEFINE next == [helper EXCEPT !.other = TRUE, !.candidate = FALSE, !.recent = FALSE]
    <2>1. next.candidate = FALSE BY DEF Helper
    <2>2. \/ helper.candidate /\ Filter(next, <<"CHORD">>)
          \/ ~helper.candidate /\ (Filter(next, <<"TAP_RESET">>) \/ Filter(next, <<>>))
      BY <1>4 DEF OtherDown
    <2> HIDE DEF next
    <2>3. QED BY <1>0, <1>1, <2>1, <2>2, KeyFiltered
  <1>5. CASE OtherUp
    <2> DEFINE next == [helper EXCEPT !.other = FALSE]
    <2>1. next.candidate = helper.candidate /\ helper.candidate \in BOOLEAN BY DEF Helper
    <2>2. Filter(next, <<>>) BY <1>5 DEF OtherUp
    <2> HIDE DEF next
    <2>3. QED BY <1>0, <1>1, <2>1, <2>2, KeyFiltered
  <1>6. CASE RecentPasses
    <2>1. helper'.candidate = helper.candidate /\ wire' = wire
      BY <1>6 DEF RecentPasses, Helper
    <2>2. helper.candidate \in BOOLEAN BY DEF Helper
    <2>3. QED BY <1>1, <2>1, <2>2, KeyAppends
  <1>7. CASE SessionChanges
    <2>1. \/ link = "closed"
          \/ wire' = Append(wire, "UNAVAILABLE") \/ wire' = Append(wire, "READY")
      BY <1>7 DEF SessionChanges
    <2>2. QED BY <1>0, <1>1, <2>1, KeyAppends
  <1>8. CASE InputLost \/ DevicesChange
    <2>1. wire' = Append(wire, "RESET") \/ wire' = Append(wire, "READY")
      BY <1>8 DEF InputLost, DevicesChange, ResetKeys
    <2>2. QED BY <1>0, <1>1, <2>1, KeyAppends
  <1>9. QED BY <1>2, <1>3, <1>4, <1>5, <1>6, <1>7, <1>8

\* The helper's state has its type in every state.
LEMMA HelperStaysTyped ==
  ASSUME helper \in Helper, [Next]_vars
  PROVE  helper' \in Helper
  <1>1. ASSUME NEW next \in Helper, NEW lines, Filter(next, lines)
        PROVE  helper' \in Helper
    BY <1>1 DEF Filter, Helper
  <1>2. CASE CtrlDown
    <2> DEFINE clean == Hears /\ ~helper.other
    <2>0. clean \in BOOLEAN BY DEF Hears
    <2> HIDE DEF clean
    <2> DEFINE next == [helper EXCEPT !.ctrl = TRUE, !.candidate = @ \/ clean,
                                      !.recent = @ /\ ~clean]
    <2>1. next \in Helper BY <2>0 DEF Helper
    <2>2. \E lines : Filter(next, lines) BY <1>2 DEF CtrlDown, clean
    <2> HIDE DEF next
    <2>3. QED BY <1>1, <2>1, <2>2
  <1>3. CASE CtrlUp
    <2> DEFINE next == [helper EXCEPT !.ctrl = FALSE, !.candidate = FALSE,
                                      !.recent = @ \/ helper.candidate]
    <2>1. next \in Helper BY DEF Helper
    <2>2. \E lines : Filter(next, lines) BY <1>3 DEF CtrlUp
    <2> HIDE DEF next
    <2>3. QED BY <1>1, <2>1, <2>2
  <1>4. CASE OtherDown
    <2> DEFINE next == [helper EXCEPT !.other = TRUE, !.candidate = FALSE, !.recent = FALSE]
    <2>1. next \in Helper BY DEF Helper
    <2>2. \E lines : Filter(next, lines) BY <1>4 DEF OtherDown
    <2> HIDE DEF next
    <2>3. QED BY <1>1, <2>1, <2>2
  <1>5. CASE OtherUp
    <2> DEFINE next == [helper EXCEPT !.other = FALSE]
    <2>1. next \in Helper BY DEF Helper
    <2>2. \E lines : Filter(next, lines) BY <1>5 DEF OtherUp
    <2> HIDE DEF next
    <2>3. QED BY <1>1, <2>1, <2>2
  <1>6. CASE RecentPasses \/ SessionChanges \/ InputLost \/ DevicesChange \/ SocketCloses
    BY <1>6 DEF RecentPasses, SessionChanges, InputLost, DevicesChange, SocketCloses,
                ResetKeys, Helper
  <1>7. CASE UNCHANGED helper BY <1>7
  <1>8. CASE Main \/ Connect \/ ListeningMode \/ ListeningEnds
    BY <1>7, <1>8 DEF Main, Receive, HoldTimer, TapTimer, SafetyTimer, Report, Connect,
                      ListeningMode, ListeningEnds, helperVars
  <1>9. CASE Toggle \/ Escape \/ MicFails
    BY <1>7, <1>9 DEF Toggle, Escape, MicFails, helperVars
  <1>10. CASE Renderer
    <2>1. UNCHANGED helperVars
      BY <1>10 DEF Renderer, Handle, StartSettles, StopSettles, FramesPass, TargetCaptured,
                   MicOpens, Armed, StopFrames, RecorderStops, Settle, Render, Others
    <2>2. QED BY <1>7, <2>1 DEF helperVars
  <1>11. CASE UNCHANGED vars BY <1>7, <1>11 DEF vars
  <1>12. QED
    BY <1>2, <1>3, <1>4, <1>5, <1>6, <1>8, <1>9, <1>10, <1>11 DEF Next, User, Faulty

\* A line is read: the one that clears it, when it is needed, is still to come.
LEMMA ReceiveKeeps ==
  ASSUME GestureInv, KeyInv, Receive
  PROVE  KeyInv'
  <1> DEFINE n == Len(wire)
             line == Head(wire)
  <1>0. /\ wire \in Seq(Line) /\ wire # <<>> /\ g \in Gesture
        /\ wire' = Tail(wire) /\ helper' = helper
    BY DEF GestureInv, Sound, Receive
  <1>1. /\ n \in Nat /\ n > 0 /\ DOMAIN wire = 1..n /\ DOMAIN wire' = 1..(n - 1)
        /\ \A k \in 1..(n - 1) : wire'[k] = wire[k + 1]
        /\ line = wire[1] /\ line \in Line
    BY <1>0
  <1>2. ASSUME link # "closed", ~helper.candidate, NEW k \in DOMAIN wire', wire'[k] = "DOWN"
        PROVE  \E m \in DOMAIN wire' : m > k /\ Clears(wire'[m])
    <2>1. k + 1 \in DOMAIN wire /\ wire[k + 1] = "DOWN" BY <1>1, <1>2
    <2>2. PICK m \in DOMAIN wire : m > k + 1 /\ Clears(wire[m])
      BY <1>2, <2>1 DEF KeyInv
    <2>3. m - 1 \in DOMAIN wire' /\ wire'[m - 1] = wire[m] /\ m - 1 > k
      BY <1>1, <1>2, <2>1, <2>2
    <2>4. QED BY <2>2, <2>3
  <1>3. ASSUME NEW k \in DOMAIN wire, k > 1, Clears(wire[k])
        PROVE  \E m \in DOMAIN wire' : Clears(wire'[m])
    <2>1. k - 1 \in DOMAIN wire' /\ wire'[k - 1] = wire[k] BY <1>1, <1>3
    <2>2. QED BY <1>3, <2>1
  <1>4. link # "closed" BY DEF Receive
  <1>5. CASE ~g'.pressed BY <1>0, <1>2, <1>4, <1>5 DEF KeyInv
  <1>6. CASE line = "READY"
    <2>1. g' = Idle BY <1>6, IdleReleased DEF Receive, Recognize
    <2>2. QED BY <1>5, <2>1, IdleReleased
  <1>7. ASSUME line # "READY", NEW panel \in Refusals, NEW blocked \in Refusals,
               Recognize(Input(g, line, IsRecording, CanStart(panel)), blocked),
               g'.pressed
        PROVE  KeyInv'
    <2>1. IsRecording \in BOOLEAN /\ CanStart(panel) \in BOOLEAN
      BY DEF IsRecording, CanStart
    <2>2. /\ line # "DOWN" => g.pressed
          /\ ~Clears(line)
      <3>1. g' = Input(g, line, IsRecording, CanStart(panel)).next
        BY <1>7 DEF Recognize
      <3>2. QED BY <1>0, <1>1, <1>7, <2>1, <3>1, InputReleases
    <2>3. line \notin {"UNAVAILABLE", "RESET"} BY <2>2 DEF Clears
    <2>4. link = "ready" /\ link' = "ready"
      <3>1. \/ link = "ready" /\ link' = "ready"
            \/ link # "ready" /\ g' = g
        BY <1>7, <2>3 DEF Receive
      <3>2. QED BY <1>7, <3>1 DEF KeyInv
    <2>5. ASSUME ~helper.candidate
          PROVE  \E m \in DOMAIN wire' : Clears(wire'[m])
      <3>1. CASE line = "DOWN"
        <4>1. 1 \in DOMAIN wire /\ wire[1] = "DOWN" BY <1>1, <3>1
        <4>2. PICK m \in DOMAIN wire : m > 1 /\ Clears(wire[m])
          BY <1>4, <2>5, <4>1 DEF KeyInv
        <4>3. QED BY <1>3, <4>2
      <3>2. CASE line # "DOWN"
        <4>1. PICK m \in DOMAIN wire : Clears(wire[m])
          BY <1>4, <2>2, <2>5, <3>2 DEF KeyInv
        <4>2. m # 1 BY <1>1, <2>2, <4>1
        <4>3. QED BY <1>1, <1>3, <4>1, <4>2
      <3>3. QED BY <3>1, <3>2
    <2>6. QED BY <1>0, <1>2, <2>4, <2>5 DEF KeyInv
  <1>8. CASE /\ line \notin {"READY", "UNAVAILABLE", "RESET"} /\ link # "ready"
             /\ UNCHANGED g
    BY <1>5, <1>8 DEF KeyInv
  <1>9. QED
    <2>1. CASE line = "READY" BY <1>6, <2>1
    <2>2. CASE \E panel, blocked \in Refusals :
                 /\ line # "READY"
                 /\ Recognize(Input(g, line, IsRecording, CanStart(panel)), blocked)
      BY <1>5, <1>7, <2>2
    <2>3. QED BY <1>8, <2>1, <2>2 DEF Receive

\* The steps that send no line press no key; a closed socket resets the recognizer
\* and a new one opens with no key held.
LEMMA KeyElsewhere ==
  ASSUME GestureInv, KeyInv, helper \in Helper,
         \/ HoldTimer \/ TapTimer \/ SafetyTimer \/ Report \/ SocketCloses \/ Connect
         \/ ListeningMode \/ ListeningEnds \/ Toggle \/ Escape \/ MicFails \/ Renderer
         \/ UNCHANGED vars
  PROVE  KeyInv'
  <1>0. g \in Gesture BY DEF GestureInv, Sound
  <1>1. ASSUME UNCHANGED <<helper, wire, link>>, g'.pressed => g.pressed
        PROVE  KeyInv'
    BY <1>1 DEF KeyInv
  <1>2. CASE HoldTimer
    <2>1. PICK panel, blocked \in Refusals :
             Recognize(HoldElapsed(g, CanStart(panel)), blocked)
      BY <1>2 DEF HoldTimer
    <2>2. CanStart(panel) \in BOOLEAN BY DEF CanStart
    <2>3. g'.pressed => g.pressed
      BY <1>0, <2>1, <2>2, HoldReleases DEF Recognize
    <2>4. QED BY <1>1, <1>2, <2>3 DEF HoldTimer, helperVars
  <1>3. CASE TapTimer \/ SafetyTimer \/ Report
    <2>1. g' = Idle \/ g' = g
      BY <1>3, IdleReleased DEF TapTimer, SafetyTimer, Report, Recognize, TapElapsed,
                                RecordingEnded, Quietly
    <2>2. QED
      BY <1>1, <1>3, <2>1, IdleReleased DEF TapTimer, SafetyTimer, Report, helperVars
  <1>4. CASE SocketCloses
    <2>1. g' = Idle /\ link' = "closed"
      BY <1>4, IdleReleased DEF SocketCloses, Recognize
    <2>2. QED BY <2>1, IdleReleased DEF KeyInv
  <1>5. CASE Connect
    <2>1. g' = g /\ link = "closed" /\ link' = "connected" BY <1>5 DEF Connect
    <2>2. wire' = <<"READY">> \/ wire' = <<"UNAVAILABLE">> BY <1>5 DEF Connect
    <2>3. \A k \in DOMAIN wire' : wire'[k] # "DOWN" BY <2>2
    <2>4. QED BY <2>1, <2>3 DEF KeyInv
  <1>6. CASE ListeningMode \/ ListeningEnds
    BY <1>1, <1>6 DEF ListeningMode, ListeningEnds, helperVars
  <1>7. CASE Toggle \/ Escape \/ MicFails
    BY <1>1, <1>7 DEF Toggle, Escape, MicFails, helperVars, mainVars
  <1>8. CASE Renderer
    <2>1. UNCHANGED <<helperVars, mainVars>>
      BY <1>8 DEF Renderer, Handle, StartSettles, StopSettles, FramesPass, TargetCaptured,
                  MicOpens, Armed, StopFrames, RecorderStops, Settle, Render, Others
    <2>2. QED BY <1>1, <2>1 DEF helperVars, mainVars
  <1>9. CASE UNCHANGED vars BY <1>1, <1>9 DEF vars
  <1>10. QED BY <1>2, <1>3, <1>4, <1>5, <1>6, <1>7, <1>8, <1>9

\* Once every line is read, a key the recognizer takes for held is one the helper
\* follows and will report the release of, whatever resets, locked sessions, lost
\* helpers and new connections came in between.
THEOREM HeldKeysAreFollowed == Spec => []PressedMeansHeld
  <1> DEFINE Inv == GestureInv /\ helper \in Helper /\ KeyInv
  <1>1. Init => Inv
    <2>1. Init => helper \in Helper /\ KeyInv
      BY IdleReleased DEF Init, Helper, KeyInv
    <2>2. QED BY <2>1, GestureInit
  <1>2. Inv /\ [Next]_vars => Inv'
    <2> SUFFICES ASSUME Inv, [Next]_vars PROVE Inv'
      OBVIOUS
    <2>1. GestureInv' /\ helper' \in Helper BY GestureStep, HelperStaysTyped
    <2>2. KeyInv'
      <3>1. CASE CtrlDown \/ CtrlUp \/ OtherDown \/ OtherUp \/ RecentPasses \/ SessionChanges
                   \/ InputLost \/ DevicesChange
        BY <3>1, HelperKeeps DEF GestureInv
      <3>2. CASE Receive BY <3>2, ReceiveKeeps
      <3>3. CASE \/ HoldTimer \/ TapTimer \/ SafetyTimer \/ Report \/ SocketCloses \/ Connect
                 \/ ListeningMode \/ ListeningEnds \/ Toggle \/ Escape \/ MicFails \/ Renderer
                 \/ UNCHANGED vars
        BY <3>3, KeyElsewhere
      <3>4. QED BY <3>1, <3>2, <3>3 DEF Next, User, Faulty, Main
    <2>3. QED BY <2>1, <2>2
  <1>3. Inv => PressedMeansHeld
    <2> SUFFICES ASSUME Inv, g.pressed, wire = <<>>, link # "closed" PROVE helper.candidate
      BY DEF PressedMeansHeld
    <2>1. DOMAIN wire = {} OBVIOUS
    <2>2. QED BY <2>1 DEF KeyInv
  <1>4. QED BY <1>1, <1>2, <1>3, PTL DEF Spec

-----------------------------------------------------------------------------
\* What the renderer last reported is its lifecycle, but for a "preparing" ahead of
\* a start; a start past its microphone has reported the recording.
ReportFacts(m) ==
    /\ m.isRecording => m.reported = "recording"
    /\ m.isProcessing => m.reported = "processing"
    /\ ~m.isRecording /\ ~m.isProcessing => m.reported \in {"idle", "preparing"}
    /\ m.start = "arming" => m.reported # "preparing"

\* "preparing" was reported and no start runs: the toggle behind "prepare" is awaited.
Waits(m) == m.reported = "preparing" /\ m.start = "none"

\* The step's report, if it makes one, is the last on the way to the main process.
Logged == \/ toMain' = toMain /\ mic'.reported = mic.reported
          \/ toMain' = Append(toMain, mic'.reported)

\* A step that keeps ReportFacts and leaves nothing newly awaited.
Steady == ReportFacts(mic') /\ Logged /\ (Waits(mic') => Waits(mic))

\* Quiet and Reporting, the two ways a step leaves mic: the first keeps what was
\* reported, the second makes its state the one reported.
LEMMA QuietLogs ==
  ASSUME NEW next, Quiet(next), next.reported = mic.reported
  PROVE  mic' = next /\ Logged
  BY DEF Quiet, Logged

LEMMA ReportingLogs ==
  ASSUME NEW next \in Mic, NEW state \in Lifecycle, Reporting(next, state)
  PROVE  mic' = [next EXCEPT !.reported = state] /\ mic'.reported = state /\ Logged
  <1>1. mic' = [next EXCEPT !.reported = state] BY DEF Reporting
  <1>2. mic'.reported = state BY <1>1 DEF Mic
  <1>3. Logged BY <1>2 DEF Reporting, Logged
  <1>4. QED BY <1>1, <1>2, <1>3

\* A start that fails before its microphone opened takes a "preparing" back.
LEMMA StartFailsSteady ==
  ASSUME MicInv, ReportFacts(mic), StartFails(mic), mic.start # "arming"
  PROVE  Steady /\ ~Waits(mic')
  <1> DEFINE rest == [mic EXCEPT !.start = "none", !.stopAsked = FALSE]
  <1>1. /\ rest \in Mic /\ rest.reported = mic.reported /\ rest.start = "none"
        /\ rest.isRecording = mic.isRecording /\ rest.isProcessing = mic.isProcessing
    BY DEF MicInv, Mic
  <1>2. IF mic.reported = "preparing" THEN Reporting(rest, "idle") ELSE Quiet(rest)
    BY DEF StartFails
  <1>3. "idle" \in Lifecycle BY DEF Lifecycle
  <1> HIDE DEF rest
  <1>4. CASE mic.reported = "preparing"
    <2>1. mic' = [rest EXCEPT !.reported = "idle"] /\ mic'.reported = "idle" /\ Logged
      BY <1>1, <1>2, <1>3, <1>4, ReportingLogs
    <2>2. /\ mic'.isRecording = mic.isRecording /\ mic'.isProcessing = mic.isProcessing
          /\ mic'.start = "none"
      BY <1>1, <2>1 DEF Mic
    <2>3. QED BY <1>4, <2>1, <2>2 DEF ReportFacts, Steady, Waits
  <1>5. CASE mic.reported # "preparing"
    <2>1. mic' = rest /\ Logged BY <1>1, <1>2, <1>5, QuietLogs
    <2>2. QED BY <1>1, <1>5, <2>1 DEF ReportFacts, Steady, Waits
  <1>6. QED BY <1>4, <1>5

\* mic but for fields no report is about, and a start that goes on or is armed.
Alike(next) ==
    /\ next.reported = mic.reported
    /\ next.isRecording = mic.isRecording /\ next.isProcessing = mic.isProcessing
    /\ \/ next.start = mic.start \/ next.start \in {"frames", "target"}
       \/ mic.start = "arming" /\ next.start = "none"

\* Such a change, and one reported as what it makes of the lifecycle, are Steady.
LEMMA QuietSteady ==
  ASSUME ReportFacts(mic), NEW next, Quiet(next), Alike(next)
  PROVE  Steady
  <1>1. next.reported = mic.reported BY DEF Alike
  <1>2. mic' = next /\ Logged BY <1>1, QuietLogs
  <1>3. QED BY <1>2 DEF Alike, ReportFacts, Steady, Waits

LEMMA ReportingSteady ==
  ASSUME ReportFacts(mic), NEW next \in Mic, NEW state \in Lifecycle, Reporting(next, state),
         next.isRecording => state = "recording",
         next.isProcessing => state = "processing",
         ~next.isRecording /\ ~next.isProcessing => state \in {"idle", "preparing"},
         state = "preparing" => next.start \notin {"none", "arming"}
  PROVE  Steady /\ ~Waits(mic')
  <1>1. mic' = [next EXCEPT !.reported = state] /\ mic'.reported = state /\ Logged
    BY ReportingLogs
  <1>2. /\ mic'.isRecording = next.isRecording /\ mic'.isProcessing = next.isProcessing
        /\ mic'.start = next.start
    BY <1>1 DEF Mic
  <1>3. QED BY <1>1, <1>2 DEF ReportFacts, Steady, Waits

\* A start from "none" is under way afterwards or has failed: nothing is awaited.
LEMMA PerformStartSteady ==
  ASSUME MicInv, ReportFacts(mic), PerformStart
  PROVE  Steady /\ (mic.start = "none" => ~Waits(mic'))
  <1>1. CASE mic.start # "none" /\ UNCHANGED <<mic, toMain>>
    BY <1>1 DEF Steady, Logged, Waits
  <1>2. CASE mic.start = "none"
             /\ Quiet([mic EXCEPT !.start = "frames", !.stale = FALSE, !.stopAsked = FALSE])
    <2> DEFINE next == [mic EXCEPT !.start = "frames", !.stale = FALSE, !.stopAsked = FALSE]
    <2>1. Alike(next) /\ next.start = "frames" BY DEF Alike, MicInv, Mic
    <2>2. Quiet(next) BY <1>2
    <2> HIDE DEF next
    <2>3. Steady BY <2>1, <2>2, QuietSteady
    <2>4. mic' = next BY <2>2 DEF Quiet
    <2>5. QED BY <2>1, <2>3, <2>4 DEF Waits
  <1>3. CASE mic.start = "none" /\ StartFails(mic) BY <1>3, StartFailsSteady
  <1>4. QED BY <1>1, <1>2, <1>3 DEF PerformStart

\* A stop and a cancel, whatever they find.
LEMMA PerformStopSteady ==
  ASSUME MicInv, ReportFacts(mic), PerformStop
  PROVE  Steady
  <1> DEFINE asked == [mic EXCEPT !.stopAsked = TRUE]
             stops == [mic EXCEPT !.stopping = TRUE]
  <1>1. Alike(asked) /\ Alike(stops) /\ Alike(mic) BY DEF Alike, MicInv, Mic
  <1>2. Quiet(asked) \/ Quiet(mic) \/ Quiet(stops) BY DEF PerformStop
  <1> HIDE DEF asked, stops
  <1>3. QED BY <1>1, <1>2, QuietSteady

LEMMA CancelSteady ==
  ASSUME MicInv, ReportFacts(mic), CancelRecording \/ CancelPreparation
  PROVE  Steady
  <1> DEFINE stale == [mic EXCEPT !.stale = TRUE]
             over == [stale EXCEPT !.isRecording = FALSE, !.isProcessing = FALSE,
                                   !.recorder = IF @ = "live" THEN "none" ELSE @]
  <1>1. /\ stale \in Mic /\ Alike(stale) /\ stale.isRecording = mic.isRecording
        /\ stale.isProcessing = mic.isProcessing
    BY DEF Alike, MicInv, Mic
  <1>2. over \in Mic /\ ~over.isRecording /\ ~over.isProcessing
    BY <1>1 DEF Mic
  <1>3. "idle" \in Lifecycle BY DEF Lifecycle
  <1>4. CASE CancelRecording
    <2>1. Reporting(over, "idle") \/ Quiet(stale) BY <1>4 DEF CancelRecording, Detach
    <2> HIDE DEF stale, over
    <2>2. QED BY <1>1, <1>2, <1>3, <2>1, QuietSteady, ReportingSteady
  <1>5. CASE CancelPreparation
    <2>1. \/ mic.reported = "preparing" /\ Reporting(stale, "idle")
          \/ Quiet(stale)
      BY <1>5 DEF CancelPreparation
    <2>2. mic.reported = "preparing" => ~stale.isRecording /\ ~stale.isProcessing
      BY <1>1 DEF ReportFacts
    <2> HIDE DEF stale
    <2>3. QED BY <1>1, <1>3, <2>1, <2>2, QuietSteady, ReportingSteady
  <1>6. QED BY <1>4, <1>5

\* "prepare" is the one command that may leave a toggle awaited.
LEMMA PrepareLogs ==
  ASSUME MicInv, ReportFacts(mic), Prepare
  PROVE  ReportFacts(mic') /\ Logged
  <1> DEFINE stale == [mic EXCEPT !.stale = TRUE]
  <1>1. /\ stale \in Mic /\ stale.reported = mic.reported /\ stale.start = mic.start
        /\ stale.isRecording = mic.isRecording /\ stale.isProcessing = mic.isProcessing
    BY DEF MicInv, Mic
  <1>2. CASE mic.start # "none" \/ ~CanStartDictation
    BY <1>2, QuietLogs DEF Prepare
  <1>3. CASE mic.start = "none" /\ CanStartDictation
    <2>1. Reporting(stale, "preparing") /\ "preparing" \in Lifecycle
      BY <1>3 DEF Prepare, Lifecycle
    <2> HIDE DEF stale
    <2>2. mic' = [stale EXCEPT !.reported = "preparing"] /\ mic'.reported = "preparing"
          /\ Logged
      BY <1>1, <2>1, ReportingLogs
    <2>3. /\ mic'.isRecording = mic.isRecording /\ mic'.isProcessing = mic.isProcessing
          /\ mic'.start = "none"
      BY <1>1, <1>3, <2>2 DEF Mic
    <2>4. QED BY <1>3, <2>2, <2>3 DEF ReportFacts, CanStartDictation
  <1>4. QED BY <1>2, <1>3

\* The awaits of a start and of a stop, the end of the transcription, and React.
LEMMA AwaitsSteady ==
  ASSUME MicInv, ReportFacts(mic), StartSettles \/ MicFails \/ StopSettles \/ Settle \/ Render
  PROVE  Steady
  <1>0. {"idle", "preparing", "recording", "processing"} \subseteq Lifecycle
    BY DEF Lifecycle
  <1>1. CASE FramesPass
    <2> DEFINE next == [mic EXCEPT !.start = "target"]
    <2>1. Alike(next) BY DEF Alike, MicInv, Mic
    <2>2. mic.start = "frames" /\ (StartFails(mic) \/ Quiet(next)) BY <1>1 DEF FramesPass
    <2> HIDE DEF next
    <2>3. QED BY <2>1, <2>2, StartFailsSteady, QuietSteady
  <1>2. CASE TargetCaptured
    <2> DEFINE next == [mic EXCEPT !.start = "opening"]
    <2>1. /\ next \in Mic /\ ~next.isRecording /\ ~next.isProcessing /\ next.start = "opening"
      BY <1>2 DEF TargetCaptured, MicInv, MicFacts, Mic
    <2>2. Reporting(next, "preparing") BY <1>2 DEF TargetCaptured
    <2> HIDE DEF next
    <2>3. QED BY <1>0, <2>1, <2>2, ReportingSteady
  <1>3. CASE MicOpens
    <2> DEFINE next == [mic EXCEPT !.start = "arming", !.isRecording = TRUE,
                                   !.recorder = "live"]
    <2>1. next \in Mic /\ next.isRecording /\ ~next.isProcessing
      BY <1>3 DEF MicOpens, MicInv, MicFacts, Mic
    <2>2. Reporting(next, "recording") BY <1>3 DEF MicOpens
    <2> HIDE DEF next
    <2>3. QED BY <1>0, <2>1, <2>2, ReportingSteady
  <1>4. CASE MicFails BY <1>4, StartFailsSteady DEF MicFails
  <1>5. CASE Armed
    <2> DEFINE done == [mic EXCEPT !.start = "none", !.stopAsked = FALSE]
    <2>1. Alike(done) /\ Alike(Close(done)) BY <1>5 DEF Armed, Alike, Close, MicInv, Mic
    <2>2. Quiet(done) \/ Quiet(Close(done)) BY <1>5 DEF Armed
    <2> HIDE DEF done
    <2>3. QED BY <2>1, <2>2, QuietSteady
  <1>6. CASE StopFrames
    <2> DEFINE next == Close([mic EXCEPT !.stopping = FALSE])
    <2>1. Alike(next) BY DEF Alike, Close, MicInv, Mic
    <2>2. Quiet(next) BY <1>6 DEF StopFrames
    <2> HIDE DEF next
    <2>3. QED BY <2>1, <2>2, QuietSteady
  <1>7. CASE RecorderStops
    <2> DEFINE next == [mic EXCEPT !.recorder = "none", !.isRecording = FALSE,
                                   !.isProcessing = TRUE]
    <2>1. next \in Mic /\ ~next.isRecording /\ next.isProcessing BY DEF MicInv, Mic
    <2>2. Reporting(next, "processing") BY <1>7 DEF RecorderStops
    <2> HIDE DEF next
    <2>3. QED BY <1>0, <2>1, <2>2, ReportingSteady
  <1>8. CASE Settle
    <2> DEFINE next == [mic EXCEPT !.isProcessing = FALSE]
    <2>1. next \in Mic /\ ~next.isRecording /\ ~next.isProcessing
      BY <1>8 DEF Settle, MicInv, MicFacts, Mic
    <2>2. Reporting(next, "idle") BY <1>8 DEF Settle
    <2> HIDE DEF next
    <2>3. QED BY <1>0, <2>1, <2>2, ReportingSteady
  <1>9. CASE Render
    <2> DEFINE next == [mic EXCEPT !.shown = mic.isRecording]
    <2>1. Alike(next) BY DEF Alike, MicInv, Mic
    <2>2. Quiet(next) BY <1>9 DEF Render
    <2> HIDE DEF next
    <2>3. QED BY <2>1, <2>2, QuietSteady
  <1>10. QED BY <1>1, <1>2, <1>3, <1>4, <1>5, <1>6, <1>7, <1>8, <1>9 DEF StartSettles, StopSettles
-----------------------------------------------------------------------------
\* sendToggleDictation sends "prepare" and "toggle" together.
Paired(q) == \A k \in DOMAIN q : q[k] = "prepare" => k + 1 \in DOMAIN q /\ q[k + 1] = "toggle"

\* What commands may be on their way to the renderer.
Tame(q) == q \in Seq(Command) /\ Paired(q)

\* The awaited toggle is the next command: nothing comes between it and "prepare".
Awaited == Waits(mic) => toRenderer # <<>> /\ Head(toRenderer) = "toggle"

\* What makes StatusAgrees inductive, with MicInv and LogInv.
ReportInv == ReportFacts(mic) /\ Tame(toRenderer) /\ Awaited

\* The main process will have read what the renderer reported last.
LogInv ==
    /\ toMain \in Seq(Lifecycle)
    /\ mic.reported = IF toMain = <<>> THEN status ELSE toMain[Len(toMain)]

\* A command is handled: "prepare" uncovers its toggle, and an awaited toggle finds
\* no recording and starts or fails; the others find nothing awaited.
LEMMA HandleReports ==
  ASSUME MicInv, ReportInv, Handle
  PROVE  ReportInv' /\ Logged
  <1> DEFINE q == toRenderer
             n == Len(q)
  <1>0. q \in Seq(Command) /\ q # <<>> /\ q' = Tail(q) /\ Paired(q) /\ ReportFacts(mic)
    BY DEF Handle, ReportInv, Tame
  <1>1. /\ n \in Nat /\ n > 0 /\ DOMAIN q = 1..n /\ DOMAIN q' = 1..(n - 1)
        /\ \A k \in 1..(n - 1) : q'[k] = q[k + 1]
        /\ Head(q) = q[1] /\ q' \in Seq(Command)
        /\ n > 1 => q' # <<>> /\ Head(q') = q[2]
    <2>1. n \in Nat /\ n > 0 /\ DOMAIN q = 1..n /\ Head(q) = q[1] BY <1>0
    <2>2. q' \in Seq(Command) /\ Len(q') = n - 1 BY <1>0, <2>1
    <2>3. DOMAIN q' = 1..(n - 1) /\ \A k \in 1..(n - 1) : q'[k] = q[k + 1]
      BY <1>0, <2>1, <2>2
    <2>4. n > 1 => q' # <<>> /\ Head(q') = q[2] BY <2>1, <2>2, <2>3
    <2>5. QED BY <2>1, <2>2, <2>3, <2>4
  <1>2. Paired(q')
    <2>1. ASSUME NEW k \in DOMAIN q', q'[k] = "prepare"
          PROVE  k + 1 \in DOMAIN q' /\ q'[k + 1] = "toggle"
      <3>1. k + 1 \in DOMAIN q /\ q[k + 1] = "prepare" BY <1>1, <2>1
      <3>2. (k + 1) + 1 \in DOMAIN q /\ q[(k + 1) + 1] = "toggle" BY <1>0, <3>1 DEF Paired
      <3>3. QED BY <1>1, <2>1, <3>1, <3>2
    <2>2. QED BY <2>1 DEF Paired
  <1>3. CASE Head(q) = "prepare" /\ Prepare
    <2>1. ReportFacts(mic') /\ Logged BY <1>0, <1>3, PrepareLogs
    <2>2. 2 \in DOMAIN q /\ q[2] = "toggle"
      <3>1. 1 \in DOMAIN q /\ q[1] = "prepare" BY <1>1, <1>3
      <3>2. 1 + 1 \in DOMAIN q /\ q[1 + 1] = "toggle" BY <1>0, <3>1 DEF Paired
      <3>3. QED BY <3>2
    <2>3. Awaited' BY <1>1, <2>2 DEF Awaited
    <2>4. QED BY <1>1, <1>2, <2>1, <2>3 DEF ReportInv, Tame
  <1>4. CASE Steady /\ ~Waits(mic')
    BY <1>1, <1>2, <1>4 DEF ReportInv, Tame, Awaited, Steady
  <1>5. CASE Head(q) # "toggle" /\ Steady
    <2>1. ~Waits(mic) BY <1>5 DEF ReportInv, Awaited
    <2>2. QED BY <1>4, <1>5, <2>1 DEF Steady
  <1>7. CASE PerformStart /\ mic.start = "none"
    BY <1>0, <1>4, <1>7, PerformStartSteady
  <1>8. CASE Head(q) \in {"start", "stop", "cancel-preparation", "cancel-hotkey"}
    <2>1. PerformStart \/ PerformStop \/ CancelPreparation \/ CancelRecording \/ Quiet(mic)
      BY <1>8 DEF Handle
    <2>2. Alike(mic) BY DEF Alike
    <2>3. Steady
      BY <1>0, <2>1, <2>2, PerformStartSteady, PerformStopSteady, CancelSteady, QuietSteady
    <2>4. QED BY <1>5, <1>8, <2>3
  <1>9. CASE Head(q) = "toggle"
    <2>1. CASE mic.start # "none" \/ mic.isRecording
      <3>1. PerformStop BY <1>9, <2>1 DEF Handle
      <3>2. Steady BY <1>0, <3>1, PerformStopSteady
      <3>3. ~Waits(mic) BY <1>0, <2>1 DEF Waits, ReportFacts
      <3>4. QED BY <1>4, <3>2, <3>3 DEF Steady
    <2>2. CASE mic.start = "none" /\ ~mic.isRecording /\ CanStartDictation
      <3>1. PerformStart BY <1>9, <2>2 DEF Handle
      <3>2. QED BY <1>7, <2>2, <3>1
    <2>3. CASE mic.start = "none" /\ ~mic.isRecording /\ ~CanStartDictation
      <3>1. UNCHANGED <<mic, toMain>> BY <1>9, <2>3 DEF Handle
      <3>2. ~Waits(mic) BY <1>0, <2>3 DEF Waits, ReportFacts, CanStartDictation
      <3>3. Steady BY <1>0, <3>1 DEF Steady, Logged
      <3>4. QED BY <1>4, <3>2, <3>3 DEF Steady
    <2>4. QED BY <2>1, <2>2, <2>3
  <1>10. Head(q) = "prepare" => Prepare BY DEF Handle
  <1>11. QED BY <1>0, <1>1, <1>3, <1>8, <1>9, <1>10 DEF Command

\* The renderer's other steps leave the commands alone.
LEMMA AwaitsReport ==
  ASSUME MicInv, ReportInv, StartSettles \/ MicFails \/ StopSettles \/ Settle \/ Render
  PROVE  ReportInv' /\ Logged
  <1>1. Steady BY AwaitsSteady DEF ReportInv
  <1>2. toRenderer' = toRenderer
    BY DEF StartSettles, StopSettles, FramesPass, TargetCaptured, MicOpens, Armed, MicFails,
           StopFrames, RecorderStops, Settle, Render
  <1>3. QED BY <1>1, <1>2 DEF ReportInv, Tame, Awaited, Steady

\* Commands are added behind those on their way.
LEMMA QueueGrows ==
  ASSUME ReportInv, mic' = mic, NEW more, Tame(more), toRenderer' = toRenderer \o more
  PROVE  ReportInv'
  <1> DEFINE q == toRenderer
             n == Len(q)
             m == Len(more)
  <1>0. q \in Seq(Command) /\ Paired(q) /\ more \in Seq(Command) /\ Paired(more)
    BY DEF ReportInv, Tame
  <1>1. /\ n \in Nat /\ m \in Nat /\ DOMAIN q = 1..n /\ DOMAIN more = 1..m
        /\ q' \in Seq(Command) /\ DOMAIN q' = 1..(n + m)
        /\ \A k \in 1..(n + m) : q'[k] = IF k \leq n THEN q[k] ELSE more[k - n]
    BY <1>0
  <1>2. ASSUME NEW k \in DOMAIN q', q'[k] = "prepare"
        PROVE  k + 1 \in DOMAIN q' /\ q'[k + 1] = "toggle"
    <2>1. CASE k \leq n
      <3>1. k + 1 \in DOMAIN q /\ q[k + 1] = "toggle" BY <1>0, <1>1, <1>2, <2>1 DEF Paired
      <3>2. QED BY <1>1, <3>1
    <2>2. CASE k > n
      <3>1. k - n \in DOMAIN more /\ more[k - n] = "prepare" BY <1>1, <1>2, <2>2
      <3>2. (k - n) + 1 \in DOMAIN more /\ more[(k - n) + 1] = "toggle"
        BY <1>0, <3>1 DEF Paired
      <3>3. QED BY <1>1, <1>2, <2>2, <3>2
    <2>3. QED BY <1>1, <2>1, <2>2
  <1>3. Tame(q') BY <1>1, <1>2 DEF Tame, Paired
  <1>4. q # <<>> => q' # <<>> /\ Head(q') = Head(q) BY <1>0, <1>1
  <1>5. QED BY <1>3, <1>4 DEF ReportInv, Awaited

\* The calls a recognizer's method may make.
Makes(step) == step.calls = <<>> \/ step.calls[1] \in {"start", "stop", "cancel"}

\* Every method of the recognizer makes at most one of the three calls.
LEMMA CallsMade ==
  /\ \A h : Makes(Quietly(h)) /\ Makes(Reset(h)) /\ Makes(Finish(h)) /\ Makes(TapReset(h))
            /\ Makes(Chord(h)) /\ Makes(TapElapsed(h)) /\ Makes(RecordingEnded(h))
  /\ \A h, state, can : Makes(Begin(h, state, can))
  <1>1. \A h : /\ Makes(Quietly(h)) /\ Makes(Calling(h, "start"))
               /\ Makes(Calling(h, "stop")) /\ Makes(Calling(h, "cancel"))
    BY DEF Makes, Quietly, Calling
  <1>2. \A h : Makes(Reset(h)) /\ Makes(Finish(h)) BY <1>1 DEF Reset, Finish
  <1>3. QED
    BY <1>1, <1>2 DEF TapReset, Chord, TapElapsed, RecordingEnded, Begin

LEMMA InputCalls ==
  ASSUME NEW h, NEW line \in Line \ {"READY"}, NEW rec, NEW can
  PROVE  Makes(Input(h, line, rec, can)) /\ Makes(HoldElapsed(h, can))
  <1>1. Makes(Down(h, rec, can))
    <2>1. (\E k : Down(h, rec, can) = Quietly(k)) \/ (\E k : Down(h, rec, can) = Reset(k))
      BY DEF Down
    <2>2. QED BY <2>1, CallsMade
  <1>2. Makes(Up(h, can))
    <2>1. \/ \E k : Up(h, can) = Quietly(k) \/ Up(h, can) = Finish(k)
          \/ \E k, state : Up(h, can) = Begin(k, state, can)
      BY DEF Up
    <2>2. QED BY <2>1, CallsMade
  <1>3. Makes(HoldElapsed(h, can)) BY CallsMade DEF HoldElapsed
  <1>4. QED BY <1>1, <1>2, <1>3, CallsMade DEF Input, Line

\* A call becomes no command or whole commands, whatever is refused.
LEMMA CommandsTame ==
  ASSUME NEW call \in {"start", "stop", "cancel"}, NEW blocked
  PROVE  Tame(Commands(call, blocked))
  <1>1. Commands(call, blocked)
          \in {<<>>, <<"start">>, <<"stop">>, <<"cancel-preparation", "cancel-hotkey">>}
    BY DEF Commands
  <1>2. /\ <<>> \in Seq(Command) /\ <<"start">> \in Seq(Command) /\ <<"stop">> \in Seq(Command)
        /\ Paired(<<>>) /\ Paired(<<"start">>) /\ Paired(<<"stop">>)
    BY DEF Paired, Command
  <1>3. <<"cancel-preparation", "cancel-hotkey">> \in Seq(Command)
        /\ Paired(<<"cancel-preparation", "cancel-hotkey">>)
    BY DEF Paired, Command
  <1>4. QED BY <1>1, <1>2, <1>3 DEF Tame

\* A step of the recognizer.
LEMMA RecognizeReports ==
  ASSUME ReportInv, mic' = mic, NEW step, NEW blocked, Makes(step), Recognize(step, blocked)
  PROVE  ReportInv'
  <1>1. CASE toRenderer' = toRenderer BY <1>1 DEF ReportInv, Awaited
  <1>2. CASE step.calls # <<>>
    <2>1. Tame(Commands(step.calls[1], blocked)) BY <1>2, CommandsTame DEF Makes
    <2>2. toRenderer' = toRenderer \o Commands(step.calls[1], blocked)
      BY <1>2 DEF Recognize
    <2>3. QED BY <2>1, <2>2, QueueGrows
  <1>3. QED BY <1>1, <1>2 DEF Recognize

\* The steps of the main process, and those that send the renderer nothing or a
\* toggle or a cancel.
LEMMA MainReports ==
  ASSUME GestureInv, ReportInv,
         Receive \/ HoldTimer \/ TapTimer \/ SafetyTimer \/ SocketCloses \/ Report
  PROVE  ReportInv'
  <1>1. mic' = mic
    BY DEF Receive, HoldTimer, TapTimer, SafetyTimer, SocketCloses, Report, rendererVars
  <1>2. CASE Receive
    <2>1. CASE toRenderer' = toRenderer BY <1>1, <2>1 DEF ReportInv, Awaited
    <2>2. CASE Recognize(Reset(g), FALSE) BY <1>1, <2>2, CallsMade, RecognizeReports
    <2>3. ASSUME Head(wire) # "READY", NEW panel, NEW blocked,
                 Recognize(Input(g, Head(wire), IsRecording, CanStart(panel)), blocked)
          PROVE  ReportInv'
      <3>1. Head(wire) \in Line \ {"READY"} BY <1>2, <2>3 DEF Receive, GestureInv
      <3>2. Makes(Input(g, Head(wire), IsRecording, CanStart(panel)))
        BY <3>1, InputCalls
      <3>3. QED BY <1>1, <2>3, <3>2, RecognizeReports
    <2>4. QED BY <1>2, <2>1, <2>2, <2>3 DEF Receive
  <1>3. CASE HoldTimer
    <2>1. PICK panel, blocked \in Refusals :
             Recognize(HoldElapsed(g, CanStart(panel)), blocked)
      BY <1>3 DEF HoldTimer
    <2>2. "UP" \in Line \ {"READY"} BY DEF Line
    <2>3. Makes(HoldElapsed(g, CanStart(panel))) BY <2>2, InputCalls
    <2>4. QED BY <1>1, <2>1, <2>3, RecognizeReports
  <1>4. CASE TapTimer \/ SafetyTimer \/ SocketCloses
    <2>1. Recognize(TapElapsed(g), FALSE) \/ Recognize(Finish(g), FALSE)
            \/ Recognize(Reset(g), FALSE)
      BY <1>4 DEF TapTimer, SafetyTimer, SocketCloses
    <2>2. QED BY <1>1, <2>1, CallsMade, RecognizeReports
  <1>5. CASE Report
    <2>1. toRenderer' = toRenderer
      BY <1>5 DEF Report, Recognize, RecordingEnded, Quietly
    <2>2. QED BY <1>1, <2>1 DEF ReportInv, Awaited
  <1>6. QED BY <1>2, <1>3, <1>4, <1>5

LEMMA RestReports ==
  ASSUME ReportInv,
         \/ User \/ SessionChanges \/ InputLost \/ DevicesChange \/ ListeningMode
         \/ RecentPasses \/ Connect \/ ListeningEnds
  PROVE  ReportInv'
  <1>1. mic' = mic
    BY DEF User, CtrlDown, CtrlUp, OtherDown, OtherUp, Toggle, Escape, SessionChanges,
           InputLost, DevicesChange, ListeningMode, RecentPasses, Connect, ListeningEnds,
           rendererVars
  <1>2. ASSUME NEW more \in {<<"toggle">>, <<"prepare", "toggle">>, <<"cancel-hotkey">>},
               toRenderer' = toRenderer \o more
        PROVE  ReportInv'
    <2>1. /\ <<"toggle">> \in Seq(Command) /\ <<"prepare", "toggle">> \in Seq(Command)
          /\ <<"cancel-hotkey">> \in Seq(Command)
          /\ Paired(<<"toggle">>) /\ Paired(<<"cancel-hotkey">>)
      BY DEF Paired, Command
    <2>2. Paired(<<"prepare", "toggle">>) BY DEF Paired
    <2>3. QED BY <1>1, <1>2, <2>1, <2>2, QueueGrows DEF Tame
  <1>3. CASE Toggle BY <1>2, <1>3 DEF Toggle
  <1>4. CASE Escape
    <2>1. toRenderer' = toRenderer \o <<"cancel-hotkey">>
      BY <1>4 DEF Escape, ReportInv, Tame
    <2>2. QED BY <1>2, <2>1
  <1>5. CASE \/ CtrlDown \/ CtrlUp \/ OtherDown \/ OtherUp \/ SessionChanges \/ InputLost
             \/ DevicesChange \/ ListeningMode \/ RecentPasses \/ Connect \/ ListeningEnds
    <2>1. toRenderer' = toRenderer
      BY <1>5 DEF CtrlDown, CtrlUp, OtherDown, OtherUp, SessionChanges, InputLost,
                  DevicesChange, ListeningMode, RecentPasses, Connect, ListeningEnds
    <2>2. QED BY <1>1, <2>1 DEF ReportInv, Awaited
  <1>6. QED BY <1>3, <1>4, <1>5 DEF User

\* A report is made, or read.
LEMMA LogGrows ==
  ASSUME LogInv, Logged, status' = status, mic' \in Mic
  PROVE  LogInv'
  <1>1. mic'.reported \in Lifecycle BY DEF Mic
  <1>2. CASE toMain' = toMain /\ mic'.reported = mic.reported BY <1>2 DEF LogInv
  <1>3. CASE toMain' = Append(toMain, mic'.reported) BY <1>1, <1>3 DEF LogInv
  <1>4. QED BY <1>2, <1>3 DEF Logged

LEMMA ReportDrains ==
  ASSUME LogInv, Report
  PROVE  LogInv'
  <1> DEFINE n == Len(toMain)
  <1>1. /\ toMain \in Seq(Lifecycle) /\ toMain # <<>> /\ toMain' = Tail(toMain)
        /\ status' = Head(toMain) /\ mic' = mic
    BY DEF LogInv, Report
  <1>2. /\ n \in Nat /\ n > 0 /\ toMain' \in Seq(Lifecycle) /\ Len(toMain') = n - 1
        /\ \A k \in 1..(n - 1) : toMain'[k] = toMain[k + 1]
        /\ Head(toMain) = toMain[1]
    BY <1>1
  <1>3. mic.reported = toMain[n] BY <1>1 DEF LogInv
  <1>4. CASE n = 1
    <2>1. toMain' = <<>> BY <1>2, <1>4
    <2>2. QED BY <1>1, <1>2, <1>3, <1>4, <2>1 DEF LogInv
  <1>5. CASE n > 1
    <2>1. toMain' # <<>> /\ toMain'[n - 1] = toMain[n] BY <1>2, <1>5
    <2>2. QED BY <1>1, <1>2, <1>3, <2>1 DEF LogInv
  <1>6. QED BY <1>2, <1>4, <1>5

\* The invariant of all three processes together.
DictationInv == GestureInv /\ MicInv /\ ReportInv /\ LogInv

LEMMA DictationInit == Init => DictationInv
  <1> SUFFICES ASSUME Init PROVE DictationInv
    OBVIOUS
  <1>1. MicInv BY MicInit
  <1>2. Tame(toRenderer) BY DEF Init, Tame, Paired
  <1>3. ReportInv BY <1>2 DEF Init, ReportInv, ReportFacts, Awaited, Waits
  <1>4. LogInv BY DEF Init, LogInv
  <1>5. QED BY <1>1, <1>3, <1>4, GestureInit DEF DictationInv

LEMMA DictationStep == DictationInv /\ [Next]_vars => DictationInv'
  <1> SUFFICES ASSUME GestureInv, MicInv, ReportInv, LogInv, [Next]_vars
               PROVE  GestureInv' /\ MicInv' /\ ReportInv' /\ LogInv'
    BY DEF DictationInv
  <1>1. GestureInv' /\ MicInv' BY GestureStep, MicStep
  <1>2. CASE Renderer \/ MicFails
    <2>1. ReportInv' /\ Logged
      BY <1>2, HandleReports, AwaitsReport DEF Renderer
    <2>2. status' = status
      BY <1>2 DEF Renderer, Handle, StartSettles, StopSettles, FramesPass, TargetCaptured,
                  MicOpens, Armed, MicFails, StopFrames, RecorderStops, Settle, Render,
                  Others, mainVars
    <2>3. LogInv' BY <1>1, <2>1, <2>2, LogGrows DEF MicInv
    <2>4. QED BY <1>1, <2>1, <2>3
  <1>3. CASE Report BY <1>1, <1>3, MainReports, ReportDrains
  <1>4. CASE \/ Receive \/ HoldTimer \/ TapTimer \/ SafetyTimer \/ SocketCloses
             \/ User \/ SessionChanges \/ InputLost \/ DevicesChange \/ ListeningMode
             \/ RecentPasses \/ Connect \/ ListeningEnds
    <2>1. ReportInv' BY <1>4, MainReports, RestReports
    <2>2. UNCHANGED <<mic, toMain, status>>
      BY <1>4 DEF Receive, HoldTimer, TapTimer, SafetyTimer, SocketCloses, User, CtrlDown,
                  CtrlUp, OtherDown, OtherUp, Toggle, Escape, SessionChanges, InputLost,
                  DevicesChange, ListeningMode, RecentPasses, Connect, ListeningEnds,
                  rendererVars, mainVars
    <2>3. LogInv' BY <2>2 DEF LogInv
    <2>4. QED BY <1>1, <2>1, <2>3
  <1>5. CASE UNCHANGED vars
    BY <1>1, <1>5 DEF ReportInv, Awaited, LogInv, vars
  <1>6. QED BY <1>2, <1>3, <1>4, <1>5 DEF Next, Faulty, Main

\* When nothing is in flight and no start is under way, the main process holds the
\* renderer's lifecycle: no refused, failed or cancelled start, at whichever await,
\* leaves it at "preparing".
THEOREM StatusAlwaysAgrees == Spec => []StatusAgrees
  <1>1. DictationInv => StatusAgrees
    <2> SUFFICES ASSUME DictationInv, toMain = <<>>, toRenderer = <<>>, mic.start = "none"
                 PROVE  status = Actual
      BY DEF StatusAgrees
    <2>1. mic.reported = status BY DEF DictationInv, LogInv
    <2>2. mic.reported # "preparing" BY DEF DictationInv, ReportInv, Awaited, Waits
    <2>3. QED BY <2>1, <2>2 DEF DictationInv, ReportInv, ReportFacts, Actual
  <1>2. QED BY <1>1, DictationInit, DictationStep, PTL DEF Spec

\* What GestureInv, MicInv, ReportInv and LogInv do not type.
Scalars ==
    /\ link \in {"closed", "connected", "ready"}
    /\ status \in Lifecycle
    /\ listening \in BOOLEAN
    /\ abandoned \in BOOLEAN

LEMMA ScalarsStep ==
  ASSUME Scalars, DictationInv, [Next]_vars
  PROVE  Scalars'
  <1>1. CASE Handle
    <2>1. Underway \in BOOLEAN BY DEF Underway, DictationInv, MicInv, Mic
    <2>2. abandoned' \in {abandoned, FALSE, abandoned \/ Underway}
      BY <1>1 DEF Handle, PerformStart
    <2>3. QED BY <1>1, <2>1, <2>2 DEF Scalars, Handle, mainVars
  <1>2. CASE Report
    <2>1. status' \in Lifecycle BY <1>2 DEF Report, DictationInv, LogInv
    <2>2. QED BY <1>2, <2>1 DEF Scalars, Report
  <1>3. CASE UNCHANGED <<link, status, listening, abandoned>> BY <1>3 DEF Scalars
  <1>4. CASE StartSettles \/ MicFails \/ StopSettles \/ Settle \/ Render
    BY <1>3, <1>4 DEF StartSettles, StopSettles, FramesPass, TargetCaptured, MicOpens, Armed,
                      MicFails, StopFrames, RecorderStops, Settle, Render, Others, mainVars
  <1>5. CASE User \/ SessionChanges \/ InputLost \/ DevicesChange \/ RecentPasses
    BY <1>3, <1>5 DEF User, CtrlDown, CtrlUp, OtherDown, OtherUp, Toggle, Escape,
                      SessionChanges, InputLost, DevicesChange, RecentPasses, mainVars,
                      rendererVars
  <1>6. CASE Receive \/ HoldTimer \/ TapTimer \/ SafetyTimer \/ SocketCloses \/ Connect
             \/ ListeningMode \/ ListeningEnds
    BY <1>6 DEF Scalars, Receive, HoldTimer, TapTimer, SafetyTimer, SocketCloses, Connect,
                ListeningMode, ListeningEnds, rendererVars
  <1>7. CASE UNCHANGED vars BY <1>3, <1>7 DEF vars
  <1>8. QED BY <1>1, <1>2, <1>4, <1>5, <1>6, <1>7 DEF Next, Faulty, Main, Renderer

\* Every process stays in its states and every queue holds only messages that are
\* sent, whatever is lost, refused or cancelled.
THEOREM DictationTypes == Spec => []TypeOK
  <1> DEFINE Inv == DictationInv /\ helper \in Helper /\ Scalars
  <1>1. Init => Inv
    <2>1. Init => helper \in Helper BY DEF Init, Helper
    <2>2. Init => Scalars BY DEF Init, Scalars, Lifecycle
    <2>3. QED BY <2>1, <2>2, DictationInit
  <1>2. Inv /\ [Next]_vars => Inv'
    BY DictationStep, HelperStaysTyped, ScalarsStep
  <1>3. Inv => TypeOK
    <2> SUFFICES ASSUME Inv PROVE TypeOK
      OBVIOUS
    <2>1. g \in Gesture /\ wire \in Seq(Line) BY DEF DictationInv, GestureInv, Sound
    <2>2. toRenderer \in Seq(Command) BY DEF DictationInv, ReportInv, Tame
    <2>3. mic \in Mic /\ toMain \in Seq(Lifecycle) BY DEF DictationInv, MicInv, LogInv
    <2>4. QED BY <2>1, <2>2, <2>3 DEF Scalars, TypeOK
  <1>4. QED BY <1>1, <1>2, <1>3, PTL DEF Spec
=============================================================================
