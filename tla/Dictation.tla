----------------------------- MODULE Dictation -----------------------------
(***************************************************************************)
(* Right-Ctrl dictation from the key to the microphone: the input helper   *)
(* (resources/cosmic-right-ctrl.c) sends lines over a socket to the gesture*)
(* recognizer in the main process (helpers/cosmicGestureManager.js and     *)
(* RightCtrlGesture), which sends commands to the dictation renderer       *)
(* (hooks/useAudioRecording.js, helpers/audioManager.js), which reports its*)
(* lifecycle back (windowManager.setDictationLifecycleState).  The three   *)
(* processes share nothing: every arrow is a queue.                        *)
(*                                                                         *)
(* The ordinary shortcut and Escape are other sources of commands.  Only   *)
(* batch recording is modelled; recovery of a microphone that dies while   *)
(* recording and the contents of the audio are not.                        *)
(***************************************************************************)
EXTENDS RightCtrlGesture, Integers

CONSTANTS MaxActs,      \* presses of Right Ctrl and what MaxOthers bounds
          MaxOthers,    \* other keys, shortcuts, Escape
          MaxFaults     \* lost helpers, lost input, session changes, refusals, ...

ASSUME BoundsAssumption == {MaxActs, MaxOthers, MaxFaults} \subseteq Nat

VARIABLES
    helper,     \* keys held and the state of filter_key
    wire,       \* lines on their way to the main process
    link,       \* the manager's socket: closed, connected, or ready
    g,          \* the recognizer
    status,     \* _dictationLifecycleState
    listening,  \* a hotkey is being captured in the settings
    toRenderer, \* commands on their way to the renderer
    toMain,     \* reports on their way to the main process
    mic,        \* the renderer's recording state
    abandoned,  \* the user's cancel reached the renderer during this dictation
    keys, others, faults

helperVars == <<helper, wire>>
mainVars == <<link, g, status, listening>>
rendererVars == <<mic, toMain, abandoned>>
budget == <<keys, others, faults>>
vars == <<helper, wire, link, g, status, listening, toRenderer, toMain, mic,
          abandoned, keys, others, faults>>

Line == {"READY", "UNAVAILABLE", "RESET", "DOWN", "UP", "CHORD", "TAP_RESET"}
Lifecycle == {"idle", "preparing", "recording", "processing"}
Command == {"start", "stop", "cancel-preparation", "cancel-hotkey", "prepare", "toggle"}
Helper == [ctrl : BOOLEAN, other : BOOLEAN, candidate : BOOLEAN, recent : BOOLEAN,
           allowed : BOOLEAN]
Mic == [start : {"none", "frames", "target", "opening", "arming"},
        stale : BOOLEAN,        \* preparationGeneration moved on since the start
        stopAsked : BOOLEAN, stopping : BOOLEAN,
        isRecording : BOOLEAN, isProcessing : BOOLEAN,
        shown : BOOLEAN,        \* isRecordingRef, set when React commits
        recorder : {"none", "live", "closing"},
        reported : Lifecycle]

Init ==
    /\ helper = [ctrl |-> FALSE, other |-> FALSE, candidate |-> FALSE,
                 recent |-> FALSE, allowed |-> TRUE]
    /\ wire = <<"READY">>
    /\ link = "connected"
    /\ g = Idle
    /\ status = "idle"
    /\ listening = FALSE
    /\ toRenderer = <<>>
    /\ toMain = <<>>
    /\ mic = [start |-> "none", stale |-> FALSE, stopAsked |-> FALSE, stopping |-> FALSE,
              isRecording |-> FALSE, isProcessing |-> FALSE, shown |-> FALSE,
              recorder |-> "none", reported |-> "idle"]
    /\ abandoned = FALSE
    /\ keys = 0 /\ others = 0 /\ faults = 0

OtherAct ==
    /\ others < MaxOthers /\ keys + others < MaxActs
    /\ others' = others + 1
    /\ UNCHANGED <<keys, faults>>
Fault ==
    /\ faults < MaxFaults
    /\ faults' = faults + 1
    /\ UNCHANGED <<keys, others>>
-----------------------------------------------------------------------------
(* The helper. *)

\* Mutant: nothing is said.
ResetKeysSilent(line) ==
    /\ helper' = [helper EXCEPT !.candidate = FALSE, !.recent = FALSE]
    /\ UNCHANGED wire

\* The helper forgets the gesture under way, re-reads the keys and says so.
ResetKeys(line) ==
    /\ helper' = [helper EXCEPT !.candidate = FALSE, !.recent = FALSE]
    /\ wire' = Append(wire, line)

\* What filter_key makes of a key, and the line it returns.
Filter(next, lines) ==
    IF link = "closed" THEN helper' = next /\ UNCHANGED wire
    ELSE IF helper.allowed THEN helper' = next /\ wire' = wire \o lines
    ELSE /\ helper' = [next EXCEPT !.candidate = FALSE, !.recent = FALSE]
         /\ wire' = Append(wire, "UNAVAILABLE")

Hears == link # "closed" /\ helper.allowed

CtrlDown ==
    /\ ~helper.ctrl /\ keys + others < MaxActs
    /\ keys' = keys + 1
    /\ LET clean == Hears /\ ~helper.other
       IN  Filter([helper EXCEPT !.ctrl = TRUE, !.candidate = @ \/ clean,
                                 !.recent = @ /\ ~clean],
                  IF clean THEN <<"DOWN">> ELSE <<>>)
    /\ UNCHANGED <<mainVars, toRenderer, rendererVars, others, faults>>

CtrlUp ==
    /\ helper.ctrl
    /\ LET up == helper.candidate
       IN  Filter([helper EXCEPT !.ctrl = FALSE, !.candidate = FALSE, !.recent = @ \/ up],
                  IF up THEN <<"UP">> ELSE <<>>)
    /\ UNCHANGED <<mainVars, toRenderer, rendererVars, budget>>

OtherDown ==
    /\ ~helper.other /\ OtherAct
    /\ LET lines == CASE helper.candidate -> <<"CHORD">>
                      [] ~helper.candidate /\ helper.recent -> <<"TAP_RESET">>
                      [] OTHER -> <<>>
       IN  Filter([helper EXCEPT !.other = TRUE, !.candidate = FALSE, !.recent = FALSE],
                  lines)
    /\ UNCHANGED <<mainVars, toRenderer, rendererVars>>

OtherUp ==
    /\ helper.other
    /\ Filter([helper EXCEPT !.other = FALSE], <<>>)
    /\ UNCHANGED <<mainVars, toRenderer, rendererVars, budget>>

\* 350 ms after the tap.
RecentPasses ==
    /\ helper.recent
    /\ helper' = [helper EXCEPT !.recent = FALSE]
    /\ UNCHANGED <<wire, mainVars, toRenderer, rendererVars, budget>>

\* The session is locked, or unlocked: noticed by the loop.
SessionChanges ==
    /\ Fault
    /\ helper' = [helper EXCEPT !.allowed = ~@, !.candidate = FALSE, !.recent = FALSE]
    /\ wire' = IF link = "closed" THEN wire
               ELSE Append(wire, IF helper.allowed THEN "UNAVAILABLE" ELSE "READY")
    /\ UNCHANGED <<mainVars, toRenderer, rendererVars>>

\* The kernel dropped events, or a keyboard went away.
InputLost ==
    /\ Fault /\ Hears
    /\ ResetKeys("RESET")
    /\ UNCHANGED <<mainVars, toRenderer, rendererVars>>

\* A keyboard was plugged in: the loop announces itself again.
DevicesChange ==
    /\ Fault /\ Hears
    /\ ResetKeys("READY")
    /\ UNCHANGED <<mainVars, toRenderer, rendererVars>>
-----------------------------------------------------------------------------
(* The main process. *)

CanStart(panel) == ~panel /\ ~listening /\ status \notin {"processing", "recording"}
IsRecording == status = "recording" /\ ~listening

\* sendStartDictation, sendStopDictation, sendCancelDictation.
Commands(call, blocked) ==
    CASE listening -> <<>>
      [] ~listening /\ call = "start" ->
             IF blocked \/ status = "processing" THEN <<>> ELSE <<"start">>
      [] ~listening /\ call = "stop" -> <<"stop">>
      [] ~listening /\ call = "cancel" -> <<"cancel-preparation", "cancel-hotkey">>

\* The recognizer makes a step and its calls become commands.
Recognize(step, blocked) ==
    /\ g' = step.next
    /\ toRenderer' = IF step.calls = <<>> THEN toRenderer
                     ELSE toRenderer \o Commands(step.calls[1], blocked)

\* A start may be refused by gates this model does not follow (onboarding, the
\* assistant panel), before the recognizer decides or after.
Refusals == {FALSE, faults < MaxFaults}

MayRefuse(refused) ==
    /\ faults' = IF refused THEN faults + 1 ELSE faults
    /\ UNCHANGED <<keys, others>>

Receive ==
    /\ wire # <<>> /\ link # "closed"
    /\ wire' = Tail(wire)
    /\ LET line == Head(wire)
       IN  \/ /\ line = "READY"
              /\ Recognize(Reset(g), FALSE)
              /\ link' = "ready"
              /\ UNCHANGED budget
           \/ /\ line # "READY"
              /\ link = "ready" \/ line \in {"UNAVAILABLE", "RESET"}
              /\ link' = IF line = "UNAVAILABLE" THEN "connected" ELSE link
              /\ \E panel, blocked \in Refusals :
                     /\ ~(panel /\ blocked)
                     /\ Recognize(Input(g, line, IsRecording, CanStart(panel)), blocked)
                     /\ MayRefuse(panel \/ blocked)
           \/ /\ line \notin {"READY", "UNAVAILABLE", "RESET"} /\ link # "ready"
              /\ UNCHANGED <<link, g, toRenderer, budget>>
    /\ UNCHANGED <<helper, status, listening, rendererVars>>

HoldTimer ==
    /\ g.timer = "hold"
    /\ \E panel, blocked \in Refusals :
           /\ ~(panel /\ blocked)
           /\ Recognize(HoldElapsed(g, CanStart(panel)), blocked)
           /\ MayRefuse(panel \/ blocked)
    /\ UNCHANGED <<helperVars, link, status, listening, rendererVars>>

TapTimer ==
    /\ g.timer = "tap"
    /\ Recognize(TapElapsed(g), FALSE)
    /\ UNCHANGED <<helperVars, link, status, listening, rendererVars, budget>>

\* Five minutes of recording.
SafetyTimer ==
    /\ g.safety
    /\ Recognize(Finish(g), FALSE)
    /\ UNCHANGED <<helperVars, link, status, listening, rendererVars, budget>>

\* The helper dies, or the control is turned off: the socket closes.
SocketCloses ==
    /\ Fault /\ link # "closed"
    /\ link' = "closed"
    /\ wire' = <<>>
    /\ helper' = [helper EXCEPT !.candidate = FALSE, !.recent = FALSE]
    /\ Recognize(Reset(g), FALSE)
    /\ UNCHANGED <<status, listening, rendererVars>>

\* Connected again to a new helper process.
Connect ==
    /\ link = "closed"
    /\ link' = "connected"
    /\ wire' = <<IF helper.allowed THEN "READY" ELSE "UNAVAILABLE">>
    /\ UNCHANGED <<helper, g, status, listening, toRenderer, rendererVars, budget>>

ListeningMode ==
    /\ Fault
    /\ listening' = TRUE
    /\ UNCHANGED <<helperVars, link, g, status, toRenderer, rendererVars>>

ListeningEnds ==
    /\ listening
    /\ listening' = FALSE
    /\ UNCHANGED <<helperVars, link, g, status, toRenderer, rendererVars, budget>>

\* The ordinary shortcut: sendToggleDictation.
Toggle ==
    /\ OtherAct
    /\ ~listening /\ status # "processing"
    /\ toRenderer' = toRenderer \o IF status = "recording" THEN <<"toggle">>
                                   ELSE <<"prepare", "toggle">>
    /\ UNCHANGED <<helperVars, mainVars, rendererVars>>

\* Registered as a shortcut while the renderer records.
Escape ==
    /\ OtherAct
    /\ mic.isRecording /\ mic.start = "none" /\ ~mic.stopping /\ ~mic.stopAsked
    /\ toRenderer' = Append(toRenderer, "cancel-hotkey")
    /\ UNCHANGED <<helperVars, mainVars, rendererVars>>

\* setDictationLifecycleState.
Report ==
    /\ toMain # <<>>
    /\ toMain' = Tail(toMain)
    /\ status' = Head(toMain)
    /\ IF status' # status /\ status' \in {"idle", "processing"}
         THEN Recognize(RecordingEnded(g), FALSE)
         ELSE UNCHANGED <<g, toRenderer>>
    /\ UNCHANGED <<helperVars, link, listening, mic, abandoned, budget>>
-----------------------------------------------------------------------------
(* The renderer. *)

\* reportLifecycle after the change to next: a state is reported once.
Reporting(next, state) ==
    /\ mic' = [next EXCEPT !.reported = state]
    /\ toMain' = IF state = mic.reported THEN toMain ELSE Append(toMain, state)

Quiet(next) == mic' = next /\ UNCHANGED toMain

Others == <<helperVars, mainVars, budget>>

\* Mutant: the failure is not reported.
StartFailsSilent(next) == Quiet([next EXCEPT !.start = "none", !.stopAsked = FALSE])

\* A start that records nothing: the finally of performStartRecording.
StartFails(next) ==
    LET rest == [next EXCEPT !.start = "none", !.stopAsked = FALSE]
    IN  IF mic.reported = "preparing" THEN Reporting(rest, "idle") ELSE Quiet(rest)

CanStartDictation == ~mic.isRecording /\ ~mic.isProcessing

\* performStartRecording up to its first await.  The workspace policy may refuse.
PerformStart ==
    \/ /\ mic.start # "none"
       /\ UNCHANGED <<mic, toMain, abandoned, faults>>
    \/ /\ mic.start = "none" /\ CanStartDictation
       /\ Quiet([mic EXCEPT !.start = "frames", !.stale = FALSE, !.stopAsked = FALSE])
       /\ abandoned' = FALSE
       /\ UNCHANGED faults
    \/ /\ mic.start = "none"
       /\ \/ CanStartDictation /\ faults < MaxFaults /\ faults' = faults + 1
          \/ ~CanStartDictation /\ UNCHANGED faults
       /\ StartFails(mic)
       /\ UNCHANGED abandoned

\* Mutant: a stop during the start is dropped.
PerformStopEarly ==
    IF mic.start # "none" THEN Quiet(mic)
    ELSE IF mic.stopping \/ ~mic.isRecording THEN Quiet(mic)
    ELSE Quiet([mic EXCEPT !.stopping = TRUE])

\* performStopRecording up to its await.
PerformStop ==
    IF mic.start # "none" THEN Quiet([mic EXCEPT !.stopAsked = TRUE])
    ELSE IF mic.stopping \/ ~mic.isRecording THEN Quiet(mic)
    ELSE Quiet([mic EXCEPT !.stopping = TRUE])

\* Mutant: the recording ends and its recorder is left running.
DetachKeepingRecorder(next) == Reporting([next EXCEPT !.isRecording = FALSE], "idle")

\* resetDiscardedBatchRecordingState: the recording is over for the manager.  A
\* recorder already stopped still delivers its stop event.
Detach(next) ==
    Reporting([next EXCEPT !.isRecording = FALSE, !.isProcessing = FALSE,
                           !.recorder = IF @ = "live" THEN "none" ELSE @], "idle")

\* cancelRecording of the hook and of the audio manager.
CancelRecording ==
    LET stale == [mic EXCEPT !.stale = TRUE]
    IN  IF mic.recorder = "live" \/ mic.isRecording THEN Detach(stale) ELSE Quiet(stale)

Underway == mic.start # "none" \/ mic.isRecording

\* onCancelDictationPreparation.
CancelPreparation ==
    LET stale == [mic EXCEPT !.stale = TRUE]
    IN  IF mic.reported = "preparing" THEN Reporting(stale, "idle") ELSE Quiet(stale)

\* onPrepareDictation; the capture it opens ahead of the start is not modelled.
Prepare ==
    IF mic.start # "none" \/ ~CanStartDictation THEN Quiet(mic)
    ELSE Reporting([mic EXCEPT !.stale = TRUE], "preparing")

\* A recorder whose stopped recording was cancelled: its stop event, due within
\* milliseconds, is taken to come before the next command.
StopEventDue == mic.recorder = "closing" /\ ~mic.isRecording

\* The renderer handles a command.
Handle ==
    /\ toRenderer # <<>> /\ ~StopEventDue
    /\ toRenderer' = Tail(toRenderer)
    /\ LET command == Head(toRenderer)
           toggleStops == mic.start # "none" \/ mic.isRecording
       IN  \/ command = "start" /\ PerformStart
           \/ command = "stop" /\ PerformStop /\ UNCHANGED <<abandoned, faults>>
           \/ /\ command = "cancel-preparation"
              /\ CancelPreparation
              /\ abandoned' = (abandoned \/ Underway)
              /\ UNCHANGED faults
           \/ /\ command = "cancel-hotkey"
              /\ IF mic.shown THEN CancelRecording ELSE Quiet(mic)
              /\ UNCHANGED <<abandoned, faults>>
           \/ command = "prepare" /\ Prepare /\ UNCHANGED <<abandoned, faults>>
           \/ /\ command = "toggle" /\ toggleStops
              /\ PerformStop /\ UNCHANGED <<abandoned, faults>>
           \/ /\ command = "toggle" /\ ~toggleStops
              /\ IF CanStartDictation THEN PerformStart
                 ELSE UNCHANGED <<mic, toMain, abandoned, faults>>
    /\ UNCHANGED <<helperVars, mainVars, keys, others>>

\* Two frames, waited for after the frames of an earlier stop.
FramesPass ==
    /\ mic.start = "frames" /\ ~mic.stopping
    /\ IF mic.stale THEN StartFails(mic) ELSE Quiet([mic EXCEPT !.start = "target"])
    /\ UNCHANGED <<Others, toRenderer, abandoned>>

\* captureDictationTarget settled; the start goes on whatever was cancelled.
TargetCaptured ==
    /\ mic.start = "target"
    /\ Reporting([mic EXCEPT !.start = "opening"], "preparing")
    /\ UNCHANGED <<Others, toRenderer, abandoned>>

\* The microphone is open: startRecording until its last await.
MicOpens ==
    /\ mic.start = "opening"
    /\ Reporting([mic EXCEPT !.start = "arming", !.isRecording = TRUE,
                             !.recorder = "live"], "recording")
    /\ UNCHANGED <<Others, toRenderer, abandoned>>

\* No device, no permission, or the policy changed.
MicFails ==
    /\ Fault
    /\ mic.start = "opening"
    /\ StartFails(mic)
    /\ UNCHANGED <<helperVars, mainVars, toRenderer, abandoned>>

\* mediaRecorder.stop(), if it is recording.
Close(next) == [next EXCEPT !.recorder = IF @ = "live" THEN "closing" ELSE @]

\* startRecording returned true: a stop asked for meanwhile is honoured now.
Armed ==
    /\ mic.start = "arming"
    /\ LET done == [mic EXCEPT !.start = "none", !.stopAsked = FALSE]
       IN  Quiet(IF mic.stopAsked THEN Close(done) ELSE done)
    /\ UNCHANGED <<Others, toRenderer, abandoned>>

StopFrames ==
    /\ mic.stopping
    /\ Quiet(Close([mic EXCEPT !.stopping = FALSE]))
    /\ UNCHANGED <<Others, toRenderer, abandoned>>

\* The recorder's stop event: finalizeBatchRecording.
RecorderStops ==
    /\ mic.recorder = "closing"
    /\ Reporting([mic EXCEPT !.recorder = "none", !.isRecording = FALSE,
                             !.isProcessing = TRUE], "processing")
    /\ UNCHANGED <<Others, toRenderer, abandoned>>

\* The transcript is delivered or abandoned: _settleProcessingPipeline.
Settle ==
    /\ mic.isProcessing
    /\ Reporting([mic EXCEPT !.isProcessing = FALSE], "idle")
    /\ UNCHANGED <<Others, toRenderer, abandoned>>

Render ==
    /\ mic.shown # mic.isRecording
    /\ Quiet([mic EXCEPT !.shown = mic.isRecording])
    /\ UNCHANGED <<Others, toRenderer, abandoned>>
-----------------------------------------------------------------------------
\* The awaits of a start settle, and so do those of a stop.
StartSettles == FramesPass \/ TargetCaptured \/ MicOpens \/ Armed
StopSettles == StopFrames \/ RecorderStops

User == CtrlDown \/ CtrlUp \/ OtherDown \/ OtherUp \/ Toggle \/ Escape
Faulty == SessionChanges \/ InputLost \/ DevicesChange \/ SocketCloses \/ ListeningMode \/ MicFails
Main == Receive \/ HoldTimer \/ TapTimer \/ SafetyTimer \/ Report
Renderer == Handle \/ StartSettles \/ StopSettles \/ Settle \/ Render

Next == User \/ Faulty \/ Main \/ Renderer \/ RecentPasses \/ Connect \/ ListeningEnds

Spec == Init /\ [][Next]_vars

\* Commands are handled, the limit fires, and no await of the renderer lasts forever.
Fairness == WF_vars(Handle) /\ WF_vars(SafetyTimer)
              /\ WF_vars(StartSettles) /\ WF_vars(StopSettles)

FairSpec == Spec /\ Fairness
-----------------------------------------------------------------------------
(* Properties.                                                             *)

\* The one type invariant: the queues hold only the messages the processes send.
TypeOK ==
    /\ helper \in Helper
    /\ \A i \in DOMAIN wire : wire[i] \in Line
    /\ link \in {"closed", "connected", "ready"}
    /\ g \in Gesture
    /\ status \in Lifecycle
    /\ listening \in BOOLEAN
    /\ \A i \in DOMAIN toRenderer : toRenderer[i] \in Command
    /\ \A i \in DOMAIN toMain : toMain[i] \in Lifecycle
    /\ mic \in Mic
    /\ abandoned \in BOOLEAN

\* The timers armed are those of the recognizer's state: no late timer can start
\* or drop a gesture it does not belong to, and a recording the gesture owns is
\* always under the five-minute limit (rightCtrlGesture.js).
TimersMatch ==
    /\ g.timer = "hold" <=> g.state \in {"pending", "second"}
    /\ g.timer = "tap" <=> g.state = "tap"
    /\ g.owns <=> g.state \in {"hold", "locked"}
    /\ g.safety <=> g.owns

\* Once every line is read, a key the recognizer takes for held is one the helper
\* follows and will report the release of: no reset, locked session or lost helper
\* leaves the recognizer holding a key (cosmic-right-ctrl.c, cosmicGestureManager.js).
PressedMeansHeld == g.pressed /\ wire = <<>> /\ link # "closed" => helper.candidate

Actual == IF mic.isRecording THEN "recording"
          ELSE IF mic.isProcessing THEN "processing" ELSE "idle"

\* When nothing is in flight and no start is under way, the main process holds the
\* renderer's lifecycle: whatever start failed or was cancelled, at whichever
\* await, it is not left at "preparing" (useAudioRecording.js).
StatusAgrees ==
    toMain = <<>> /\ toRenderer = <<>> /\ mic.start = "none" => status = Actual

\* A microphone that records belongs to the recording the manager knows of, and
\* never runs beside the transcription of an earlier one (audioManager.js).
MicAccounted == mic.recorder = "live" => mic.isRecording /\ ~mic.isProcessing

\* A dictation the gesture cancelled is neither recorded nor transcribed, but for
\* the time the second half of the cancel is on its way.
CancelledIsOver ==
    abandoned => /\ ~mic.isProcessing
                 /\ mic.isRecording => \E i \in DOMAIN toRenderer : toRenderer[i] = "cancel-hotkey"

\* A gesture that started a recording lets go of it: by the release, the second
\* tap, a report, a reset or the limit (rightCtrlGesture.js).
GestureEnds == g.owns ~> ~g.owns

StopSent == \E i \in DOMAIN toRenderer : toRenderer[i] = "stop"

\* A stop ends the dictation it finds, also one whose microphone is still opening
\* (stopRequestedDuringStartRef in useAudioRecording.js).
StopIsHonoured ==
    StopSent /\ (mic.isRecording \/ mic.start # "none")
        ~> ~mic.isRecording /\ mic.start = "none"
=============================================================================
