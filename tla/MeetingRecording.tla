-------------------------- MODULE MeetingRecording --------------------------
(* Recording a meeting: the recording store of the renderer                  *)
(* (stores/meetingRecordingStore.ts) with its start coordinator and its stop *)
(* barrier (helpers/meetingRecordingSession.ts), over the main process of    *)
(* MeetingLifecycle, with the automatic end of a recording and the card that *)
(* offers to restart it (MeetingRecordingMount.tsx and the pending auto-end  *)
(* of meetingDetectionEngine.js).                                            *)
(*                                                                           *)
(* An action runs from one await to the next.  Waits that only microtasks    *)
(* separate (a barrier that is free, the next queued start) are one step,    *)
(* and so are an invoke of the renderer and the handler's synchronous part.  *)
EXTENDS MeetingLifecycle, Sequences

CONSTANTS MaxCrashes   \* how often the renderer may be lost

ASSUME CrashBound == MaxCrashes \in Nat

VARIABLES recording,   \* isStartingFlag and isRecordingFlag
          active,      \* activeRecordingSessionId
          start,       \* activeStart of the coordinator and where it stands
          queue,       \* pendingStarts of the coordinator
          barrier,     \* the operation that holds the stop barrier
          setupMic,    \* the start that holds an open stream, setupMicResult
          storeMic,    \* the session that the store's micStream was opened for
          used,        \* ids drawn by createMeetingRecordingSessionId
          armed,       \* the session whose end the auto-end controller watches
          card,        \* _pendingAutoEnd; offered once its restart window runs
          msgs,        \* auto-end messages from main to the renderer
          resume,      \* pendingAutoEndRestart, and a restart reading its note
          crashes

mics == <<setupMic, storeMic>>
storeVars == <<recording, active, start, queue, barrier, mics, used>>
autoEndVars == <<armed, card, msgs, resume>>
vars == <<mainVars, storeVars, autoEndVars, crashes>>

NoStart == [id |-> None, pc |-> "none", canceled |-> FALSE, mic |-> FALSE]
NoBarrier == [op |-> "free", id |-> None, pc |-> "none", auto |-> FALSE]
NoCard == [id |-> None, offered |-> FALSE]

StartSteps == {"waiting", "preparing", "opening", "sharing", "wiring", "confirming",
               "failed", "tearing"}

\* Types of the whole state.
TypeOK ==
    /\ MainTypeOK
    /\ recording \in {"off", "starting", "on"}
    /\ active \in Session \cup {None}
    /\ start \in [id: Session, pc: StartSteps, canceled: BOOLEAN, mic: BOOLEAN] \cup {NoStart}
    /\ queue \in Seq(Session)
    /\ barrier \in [op: {"stop", "teardown"}, id: Session, pc: {"cleaning", "main"},
                    auto: BOOLEAN] \cup {NoBarrier}
    /\ setupMic \in Session \cup {None}
    /\ storeMic \in Session \cup {None}
    /\ used \subseteq Session
    /\ armed \in Session \cup {None}
    /\ card \in [id: Session, offered: BOOLEAN] \cup {NoCard}
    /\ msgs \subseteq [k: {"end", "restart"}, id: Session]
    /\ resume \in [ctx: Session \cup {None}, reading: BOOLEAN]
    /\ crashes \in 0..MaxCrashes

Init ==
    /\ MainInit
    /\ recording = "off"
    /\ active = None
    /\ start = NoStart
    /\ queue = <<>>
    /\ barrier = NoBarrier
    /\ setupMic = None
    /\ storeMic = None
    /\ used = {}
    /\ armed = None
    /\ card = NoCard
    /\ msgs = {}
    /\ resume = [ctx |-> None, reading |-> FALSE]
    /\ crashes = 0

-----------------------------------------------------------------------------
(* Starting: from the call to the commit. *)

\* The queued function of a start after its wait for a pending stop: flags and
\* active session are set at once.
Proceeds(s) ==
    /\ start' = [id |-> s, pc |-> "preparing", canceled |-> FALSE, mic |-> FALSE]
    /\ active' = s
    /\ recording' = "starting"

Waits(s) ==
    /\ start' = [id |-> s, pc |-> "waiting", canceled |-> FALSE, mic |-> FALSE]
    /\ UNCHANGED <<active, recording>>

\* Mutant: a start does not wait for a pending stop.
RunsAtOnce(s) == Proceeds(s)

Runs(s) == IF barrier'.op = "free" THEN Proceeds(s) ELSE Waits(s)

\* startRecording, and runStart of the coordinator.
Call(s) ==
    /\ s \notin used
    /\ recording = "off"
    /\ used' = used \cup {s}
    /\ UNCHANGED <<barrier, mics>>
    /\ IF start.id # None
       THEN /\ queue' = Append(queue, s)
            /\ UNCHANGED <<start, active, recording>>
       ELSE Runs(s) /\ UNCHANGED queue

\* The effect on isRecording: a recording forgets the note to restart.
Forgets(r) == IF recording' # "off" THEN [r EXCEPT !.ctx = None] ELSE r

StartRecording(s) ==
    /\ Call(s)
    /\ resume' = Forgets(resume)
    /\ UNCHANGED <<mainVars, armed, card, msgs, crashes>>

\* isCurrentStart
Current(s) == ~start.canceled /\ active = s

\* Mutant: the tracks of the setup are left open.
TeardownKeepsMic(s) ==
    /\ start' = [start EXCEPT !.pc = "tearing"]
    /\ recording' = "off"
    /\ barrier' = IF barrier.op = "free"
                  THEN [op |-> "teardown", id |-> s, pc |-> "cleaning", auto |-> FALSE]
                  ELSE barrier
    /\ UNCHANGED <<active, queue, mics, used>>

\* teardownStart: the tracks opened by the setup stop and the flags fall at
\* once; the rest runs in the barrier, or is shared with a stop that holds it.
Teardown(s) ==
    /\ start' = [start EXCEPT !.pc = "tearing"]
    /\ setupMic' = None
    /\ recording' = "off"
    /\ barrier' = IF barrier.op = "free"
                  THEN [op |-> "teardown", id |-> s, pc |-> "cleaning", auto |-> FALSE]
                  ELSE barrier
    /\ UNCHANGED <<active, queue, storeMic, used>>

\* Main is asked to start while the microphone is being opened.
Asks(s) ==
    /\ start.id = s
    /\ start.pc = "preparing"
    /\ IF Current(s) /\ Accepts(s)
       THEN /\ StartSession(s)
            /\ start' = [start EXCEPT !.pc = "opening"]
            /\ UNCHANGED <<recording, active, queue, barrier, mics, used>>
       ELSE Teardown(s) /\ UNCHANGED mainVars
    /\ UNCHANGED <<autoEndVars, crashes>>

\* getUserMedia answers; it may deny.
MicSettles(s) ==
    /\ start.id = s
    /\ start.pc = "opening"
    /\ ~start.mic
    /\ start' = [start EXCEPT !.mic = TRUE]
    /\ setupMic' \in {None, s}
    /\ UNCHANGED <<mainVars, recording, active, queue, barrier, storeMic, used,
                   autoEndVars, crashes>>

\* Mutant: the answer is not looked at.
MainAnswered(s) == TRUE

\* The answer of main says success.
MainStarted(s) == sess[s].started

\* Both answers are there.  A start that main refused or failed is cleaned up
\* here; one that was stopped meanwhile is torn down.
Opened(s) ==
    /\ start.id = s
    /\ start.pc = "opening"
    /\ start.mic
    /\ sess[s].startAt <= served
    /\ \/ ~Current(s) /\ Teardown(s)
       \/ /\ Current(s)
          /\ ~MainStarted(s)
          /\ start' = [start EXCEPT !.pc = "failed"]
          /\ setupMic' = None
          /\ recording' = "off"
          /\ UNCHANGED <<active, queue, barrier, storeMic, used>>
       \/ /\ Current(s)
          /\ MainStarted(s)
          /\ start' = [start EXCEPT !.pc = "sharing"]
          /\ UNCHANGED <<recording, active, queue, barrier, mics, used>>
    /\ UNCHANGED <<mainVars, autoEndVars, crashes>>

\* The system audio is settled and the store takes the microphone over.  There
\* may be no source of audio, and the await may throw.
Shared(s) ==
    /\ start.id = s
    /\ start.pc = "sharing"
    /\ \/ Teardown(s)
       \/ /\ Current(s)
          /\ start' = [start EXCEPT !.pc = "wiring"]
          /\ setupMic' = None
          /\ storeMic' = IF setupMic = s THEN s ELSE storeMic
          /\ UNCHANGED <<recording, active, queue, barrier, used>>
    /\ UNCHANGED <<mainVars, autoEndVars, crashes>>

\* The pipelines are built; any of them may throw.
Wired(s) ==
    /\ start.id = s
    /\ start.pc = "wiring"
    /\ \/ /\ Current(s)
          /\ start' = [start EXCEPT !.pc = "confirming"]
          /\ armed' \in {armed} \cup (IF engine = s THEN {s} ELSE {})
          /\ UNCHANGED <<recording, active, queue, barrier, mics, used>>
       \/ Teardown(s) /\ UNCHANGED armed
    /\ UNCHANGED <<mainVars, card, msgs, resume, crashes>>

\* markCommitted; the starts still queued find a recording and return.
Commits(s) ==
    /\ start.id = s
    /\ start.pc = "confirming"
    /\ Current(s)
    /\ recording' = "on"
    /\ start' = NoStart
    /\ queue' = <<>>
    /\ UNCHANGED <<mainVars, active, barrier, mics, used, autoEndVars, crashes>>

Aborts(s) ==
    /\ start.id = s
    /\ start.pc = "confirming"
    /\ ~Current(s)
    /\ Teardown(s)
    /\ UNCHANGED <<mainVars, autoEndVars, crashes>>

\* A settled start that did not commit: the next one runs, if there is one.
Settles ==
    IF queue = <<>>
    THEN start' = NoStart /\ active' = None /\ recording' = "off" /\ UNCHANGED queue
    ELSE Runs(Head(queue)) /\ queue' = Tail(queue)

\* The cleanup of a start that main failed, outside the barrier.
FailedCleans(s) ==
    /\ start.id = s
    /\ start.pc = "failed"
    /\ storeMic' = None
    /\ UNCHANGED <<barrier, setupMic>>
    /\ Settles
    /\ resume' = Forgets(resume)
    /\ UNCHANGED <<mainVars, used, armed, card, msgs, crashes>>

-----------------------------------------------------------------------------
(* Stopping. *)

\* cancelActiveStart, when a start that has not committed is the one to stop.
Cancels ==
    /\ start' = [start EXCEPT !.canceled = TRUE]
    /\ recording' = "off"
    /\ UNCHANGED <<active, queue, barrier, mics, used>>

\* runStop on the active session; callers of a held barrier share its result.
RunsStop(auto) ==
    /\ barrier' = IF barrier.op = "free"
                  THEN [op |-> "stop", id |-> active, pc |-> "cleaning", auto |-> auto]
                  ELSE barrier
    /\ active' = None
    /\ recording' = "off"
    /\ UNCHANGED <<start, queue, mics, used>>

\* stopRecording by the user, or for a fatal error of the connection.
StopRecording ==
    /\ recording # "off"
    /\ IF start.id # None THEN Cancels ELSE RunsStop(FALSE)
    /\ UNCHANGED <<mainVars, autoEndVars, crashes>>

\* Mutant: main is not told.
BarrierCleansAlone(s) ==
    /\ barrier.id = s
    /\ barrier.pc = "cleaning"
    /\ storeMic' = None
    /\ recording' = "off"
    /\ barrier' = [barrier EXCEPT !.pc = "main"]
    /\ UNCHANGED <<mainVars, active, start, queue, setupMic, used, autoEndVars, crashes>>

\* cleanup of whatever is open, then main is asked to stop the session.
BarrierCleans(s) ==
    /\ barrier.id = s
    /\ barrier.pc = "cleaning"
    /\ storeMic' = None
    /\ recording' = "off"
    /\ barrier' = [barrier EXCEPT !.pc = "main"]
    /\ IF CanStop(s) THEN StopSession(s) ELSE UNCHANGED mainVars
    /\ UNCHANGED <<active, start, queue, setupMic, used, autoEndVars, crashes>>

MainIsDone(s) == ~Registered(s)

\* A torn-down start releases its session and settles.
TornDown(s) ==
    /\ barrier.op = "teardown"
    /\ barrier.pc = "main"
    /\ barrier.id = s
    /\ MainIsDone(s)
    /\ barrier' = NoBarrier
    /\ Settles
    /\ resume' = Forgets(resume)
    /\ UNCHANGED <<mainVars, mics, used, armed, card, msgs, crashes>>

\* completeAutoEndSession: the card is offered once, for the session that main
\* asked to end, and while nothing records.
Offerable(s) == card = [id |-> s, offered |-> FALSE] /\ engine = None

\* A stop settles: a start that waited for it proceeds, and the renderer of an
\* automatic stop asks for the card, which may fail to appear.  Either may be
\* first to write the note to restart.
Stopped(s) ==
    /\ barrier.op = "stop"
    /\ barrier.pc = "main"
    /\ barrier.id = s
    /\ MainIsDone(s)
    /\ barrier' = NoBarrier
    /\ IF start.pc = "waiting" THEN Proceeds(start.id) ELSE UNCHANGED <<start, active, recording>>
    /\ UNCHANGED <<mainVars, queue, mics, used, armed, msgs, crashes>>
    /\ \/ /\ barrier.auto
          /\ Offerable(s)
          /\ card' = [id |-> s, offered |-> TRUE]
          /\ resume' \in {[resume EXCEPT !.ctx = s], Forgets([resume EXCEPT !.ctx = s])}
       \/ /\ barrier.auto
          /\ card' = IF Offerable(s) THEN NoCard ELSE card
          /\ resume' = [resume EXCEPT !.ctx = None]
       \/ ~barrier.auto /\ resume' = Forgets(resume) /\ UNCHANGED card

-----------------------------------------------------------------------------
(* The automatic end and the restart. *)

\* _requestRecordingStop, once for each session.
AutoEnds(s) ==
    /\ armed = s
    /\ engine = s
    /\ armed' = None
    /\ card' = [id |-> s, offered |-> FALSE]
    /\ msgs' = msgs \cup {[k |-> "end", id |-> s]}
    /\ UNCHANGED <<mainVars, storeVars, resume, crashes>>

\* A request for a session that is not the active one is dropped.
EndReceived(s) ==
    /\ [k |-> "end", id |-> s] \in msgs
    /\ msgs' = msgs \ {[k |-> "end", id |-> s]}
    /\ IF active # s THEN UNCHANGED storeVars
       ELSE IF start.id = s THEN Cancels ELSE RunsStop(TRUE)
    /\ UNCHANGED <<mainVars, armed, card, resume, crashes>>

\* The window expires, or the user dismisses the card.
CardGone ==
    /\ card.offered
    /\ card' = NoCard
    /\ UNCHANGED <<mainVars, storeVars, armed, msgs, resume, crashes>>

CardRestarts(s) ==
    /\ card = [id |-> s, offered |-> TRUE]
    /\ engine = None
    /\ card' = NoCard
    /\ msgs' = msgs \cup {[k |-> "restart", id |-> s]}
    /\ UNCHANGED <<mainVars, storeVars, armed, resume, crashes>>

\* runMeetingAutoEndRestart up to the read of the note.
RestartReceived(s) ==
    /\ [k |-> "restart", id |-> s] \in msgs
    /\ msgs' = msgs \ {[k |-> "restart", id |-> s]}
    /\ resume' = [ctx |-> None, reading |-> resume.ctx = s /\ active = None]
    /\ UNCHANGED <<mainVars, storeVars, armed, card, crashes>>

\* The note is there, and still nothing records: a new session starts.
RestartReads(s) ==
    /\ resume.reading
    /\ active = None
    /\ Call(s)
    /\ resume' = [ctx |-> None, reading |-> FALSE]
    /\ UNCHANGED <<mainVars, armed, card, msgs, crashes>>

\* The note is gone, or a recording has begun since.
RestartAborts ==
    /\ resume.reading
    /\ resume' = [resume EXCEPT !.reading = FALSE]
    /\ UNCHANGED <<mainVars, storeVars, armed, card, msgs, crashes>>

-----------------------------------------------------------------------------
(* Main, and the loss of the renderer. *)

\* beginRecordingSession also takes back a card.
Main(s) ==
    /\ MainStep(s)
    /\ card' = IF engine' = s /\ engine # s THEN NoCard ELSE card
    /\ UNCHANGED <<storeVars, armed, msgs, resume, crashes>>

Dictation(now) == Dictates(now) /\ UNCHANGED <<storeVars, autoEndVars, crashes>>

\* Mutant: main does not notice that the owner is gone.
RendererLostUnnoticed ==
    /\ crashes < MaxCrashes
    /\ crashes' = crashes + 1
    /\ recording' = "off"
    /\ active' = None
    /\ start' = NoStart
    /\ queue' = <<>>
    /\ barrier' = NoBarrier
    /\ setupMic' = None
    /\ storeMic' = None
    /\ msgs' = {}
    /\ resume' = [ctx |-> None, reading |-> FALSE]
    /\ UNCHANGED <<mainVars, used, armed, card>>

\* The owner of the sessions is gone: main stops those not being stopped, and
\* another renderer starts from nothing.
RendererLost ==
    /\ crashes < MaxCrashes
    /\ crashes' = crashes + 1
    /\ IF \E s \in Session : CanStop(s)
       THEN \E s \in Session : StopSession(s)
       ELSE UNCHANGED mainVars
    /\ recording' = "off"
    /\ active' = None
    /\ start' = NoStart
    /\ queue' = <<>>
    /\ barrier' = NoBarrier
    /\ setupMic' = None
    /\ storeMic' = None
    /\ msgs' = {}
    /\ resume' = [ctx |-> None, reading |-> FALSE]
    /\ UNCHANGED <<used, armed, card>>

-----------------------------------------------------------------------------
(* The specification. *)

StoreStep(s) ==
    \/ Asks(s) \/ MicSettles(s) \/ Opened(s) \/ Shared(s) \/ Wired(s) \/ Commits(s) \/ Aborts(s)
    \/ FailedCleans(s) \/ BarrierCleans(s) \/ TornDown(s) \/ Stopped(s)

AutoEndStep(s) ==
    AutoEnds(s) \/ EndReceived(s) \/ CardRestarts(s) \/ RestartReceived(s) \/ RestartReads(s)

Next ==
    \/ \E s \in Session : StartRecording(s) \/ Main(s) \/ StoreStep(s) \/ AutoEndStep(s)
    \/ StopRecording
    \/ CardGone
    \/ RestartAborts
    \/ RendererLost
    \/ \E now \in BOOLEAN : Dictation(now)

\* The main process runs its queue, awaits of the renderer settle, and the
\* user answers the question for the microphone.
Fairness ==
    \A s \in Session : WF_vars(Main(s)) /\ WF_vars(StoreStep(s))

Spec == Init /\ [][Next]_vars /\ Fairness

-----------------------------------------------------------------------------
(* Properties. *)

\* No capture is left behind: what main has open belongs to the recording of
\* the renderer, or to a stop that main has been asked for, or to an operation
\* of the barrier that will ask.  Every start that is cancelled, fails in the
\* middle, or loses its renderer has to see to it
\* (stopMainOnce, handleOwnerLoss, rollbackMeetingTranscriptionStart).
NoOrphanCapture ==
    capture # None =>
        \/ active = capture
        \/ sess[capture].stopAt # 0
        \/ barrier.id = capture

\* There is one microphone stream at a time: a start holds it while it is set
\* up, then the store for the active session or for one that the barrier is
\* cleaning up, so that the cleanup of the store's globals finds it and never
\* closes that of the next recording (teardownStart, waitForPendingStop).
MicAccounted ==
    /\ setupMic # None => setupMic = active /\ storeMic = None
    /\ storeMic # None => storeMic = active \/ storeMic = barrier.id

\* While the user sees a committed recording, main captures for it, the engine
\* tracks it, and nobody has asked to stop it.
RecordingIsLive ==
    recording = "on" =>
        /\ active # None
        /\ capture = active
        /\ engine = active
        /\ sess[active].stopAt = 0

\* Main never refuses a start that the renderer lets through ("Operation in
\* progress"): the barrier and the coordinator have the last one stopped first.
StartIsAccepted ==
    \A s \in Session : start.id = s /\ start.pc = "preparing" /\ Current(s) => Accepts(s)

\* Whatever happens, there comes a time again at which a session holds neither
\* the capture nor a microphone unless its recording goes on: however it ended,
\* what is given up is released; and at which it is not being started: every
\* start settles, so that the queued ones have their turn.
Released ==
    \A s \in Session :
        /\ []<>(s \in {capture, setupMic, storeMic} => active = s)
        /\ []<>(start.id # s)
=============================================================================
