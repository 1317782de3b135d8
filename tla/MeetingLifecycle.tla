-------------------------- MODULE MeetingLifecycle --------------------------
(* Meeting transcription in the main process: the queue of starts and stops  *)
(* (meetingTranscriptionLifecycle.js), the two operations it runs            *)
(* (startMeetingTranscription and stopMeetingTranscription of                *)
(* ipcHandlers.js), and the session that the detection engine tracks         *)
(* (meetingDetectionEngine.js).                                              *)
(*                                                                           *)
(* The promise chain operationTail is a ticket queue: enqueue draws the next *)
(* ticket, and the operation whose ticket is served + 1 runs.                *)
EXTENDS Naturals

CONSTANTS Session,   \* recording session ids; a recorder never uses one twice
          None

ASSUME NoneIsNoSession == None \notin Session

VARIABLES sess,           \* the sessions map, with the tickets of both operations
          tail,           \* tickets drawn
          served,         \* operations settled
          phase,          \* the await at which the running operation stands
          capture,        \* the session for which helpers and streams are open
          engine,         \* _recordingSession of the detection engine
          userRecording,  \* _userRecording: meeting detection is muted
          dictating       \* _isDictatingToggle: a dictation records

mainVars == <<sess, tail, served, phase, capture, engine, userRecording, dictating>>

SessionStates == {"new", "queued", "starting", "active", "stopping", "done"}
Phases == {"idle", "opening", "beginning", "arming", "rollback", "closing"}

\* Types of the main process's state.
MainTypeOK ==
    /\ sess \in [Session -> [state: SessionStates, started: BOOLEAN,
                             startAt: Nat, stopAt: Nat]]
    /\ tail \in Nat
    /\ served \in Nat
    /\ phase \in Phases
    /\ capture \in Session \cup {None}
    /\ engine \in Session \cup {None}
    /\ userRecording \in BOOLEAN
    /\ dictating \in BOOLEAN

MainInit ==
    /\ sess = [s \in Session |-> [state |-> "new", started |-> FALSE,
                                  startAt |-> 0, stopAt |-> 0]]
    /\ tail = 0
    /\ served = 0
    /\ phase = "idle"
    /\ capture = None
    /\ engine = None
    /\ userRecording = FALSE
    /\ dictating = FALSE

\* The session is in the map.
Registered(s) == sess[s].state \notin {"new", "done"}

\* Mutant: an operation does not wait for the one before it.
TurnUnordered(t) == t > served

\* The operation that drew ticket t runs now.
Turn(t) == t = served + 1

-----------------------------------------------------------------------------
(* Requests. *)

\* Mutant: a session that is being stopped still blocks the next one.
AcceptsWhenEmpty(s) == sess[s].state = "new" /\ \A t \in Session : ~Registered(t)

\* startSession refuses while a session in the map is not being stopped.
Accepts(s) ==
    /\ sess[s].state = "new"
    /\ \A t \in Session : Registered(t) => sess[t].state = "stopping"

StartSession(s) ==
    /\ Accepts(s)
    /\ sess' = [sess EXCEPT ![s].state = "queued", ![s].startAt = tail + 1]
    /\ tail' = tail + 1
    /\ UNCHANGED <<served, phase, capture, engine, userRecording, dictating>>

\* stopSession draws a ticket once for each session; a later call shares it.
CanStop(s) == Registered(s) /\ sess[s].stopAt = 0

StopSession(s) ==
    /\ CanStop(s)
    /\ sess' = [sess EXCEPT ![s].state = "stopping", ![s].stopAt = tail + 1]
    /\ tail' = tail + 1
    /\ UNCHANGED <<served, phase, capture, engine, userRecording, dictating>>

-----------------------------------------------------------------------------
(* The operation of a start. *)

Removed(s) == [sess EXCEPT ![s].state = "done"]

\* The stop came before the turn of the start.
StartCanceled(s) ==
    /\ phase = "idle"
    /\ Turn(sess[s].startAt)
    /\ sess[s].stopAt # 0
    /\ sess' = Removed(s)
    /\ served' = served + 1
    /\ UNCHANGED <<tail, phase, capture, engine, userRecording, dictating>>

\* The provider is not allowed: an answer without any effect.
StartRefused(s) ==
    /\ phase = "idle"
    /\ Turn(sess[s].startAt)
    /\ sess[s].stopAt = 0
    /\ sess' = Removed(s)
    /\ served' = served + 1
    /\ UNCHANGED <<tail, phase, capture, engine, userRecording, dictating>>

\* The engine's session, whoever owns it, is ended and detection is muted.
StartEnters(s) ==
    /\ phase = "idle"
    /\ Turn(sess[s].startAt)
    /\ sess[s].stopAt = 0
    /\ sess' = [sess EXCEPT ![s].state = "starting"]
    /\ phase' = "opening"
    /\ engine' = None
    /\ userRecording' = TRUE
    /\ UNCHANGED <<tail, served, capture, dictating>>

\* Streams, echo cancellation, speaker identification and system audio are up.
StartOpens(s) ==
    /\ phase = "opening"
    /\ Turn(sess[s].startAt)
    /\ capture' = s
    /\ phase' = "beginning"
    /\ UNCHANGED <<sess, tail, served, engine, userRecording, dictating>>

\* completeStart: beginRecordingSession, then the await of its detector.
StartBegins(s) ==
    /\ phase = "beginning"
    /\ Turn(sess[s].startAt)
    /\ engine' = s
    /\ phase' = "arming"
    /\ UNCHANGED <<sess, tail, served, capture, userRecording, dictating>>

StartSucceeds(s) ==
    /\ phase = "arming"
    /\ Turn(sess[s].startAt)
    /\ sess' = [sess EXCEPT ![s].started = TRUE,
                            ![s].state = IF sess[s].stopAt # 0 THEN "stopping" ELSE "active"]
    /\ served' = served + 1
    /\ phase' = "idle"
    /\ UNCHANGED <<tail, capture, engine, userRecording, dictating>>

\* Any await of the start may throw; the rollback closes what was opened.
StartThrows(s) ==
    /\ phase \in {"opening", "beginning", "arming"}
    /\ Turn(sess[s].startAt)
    /\ phase' = "rollback"
    /\ UNCHANGED <<sess, tail, served, capture, engine, userRecording, dictating>>

\* endRecordingSession(expected) of the engine: nothing if another one is live.
Ended(s) == IF engine = s THEN None ELSE engine

\* Mutant: detection stays muted.
RolledBackMuted(s) ==
    /\ phase = "rollback"
    /\ Turn(sess[s].startAt)
    /\ sess' = Removed(s)
    /\ capture' = None
    /\ engine' = Ended(s)
    /\ served' = served + 1
    /\ phase' = "idle"
    /\ UNCHANGED <<tail, userRecording, dictating>>

RolledBack(s) ==
    /\ phase = "rollback"
    /\ Turn(sess[s].startAt)
    /\ sess' = Removed(s)
    /\ capture' = None
    /\ engine' = Ended(s)
    /\ userRecording' = FALSE
    /\ served' = served + 1
    /\ phase' = "idle"
    /\ UNCHANGED <<tail, dictating>>

-----------------------------------------------------------------------------
(* The operation of a stop. *)

\* Nothing was started: the session only leaves the map.
StopNothing(s) ==
    /\ phase = "idle"
    /\ Turn(sess[s].stopAt)
    /\ ~sess[s].started
    /\ sess' = Removed(s)
    /\ served' = served + 1
    /\ UNCHANGED <<tail, phase, capture, engine, userRecording, dictating>>

\* A different live session blocks the teardown ("stale-session").
StopEnters(s) ==
    /\ phase = "idle"
    /\ Turn(sess[s].stopAt)
    /\ sess[s].started
    /\ UNCHANGED <<tail, capture, dictating>>
    /\ IF engine \in {s, None}
       THEN /\ engine' = None
            /\ userRecording' = FALSE
            /\ phase' = "closing"
            /\ UNCHANGED <<sess, served>>
       ELSE /\ sess' = Removed(s)
            /\ served' = served + 1
            /\ UNCHANGED <<phase, engine, userRecording>>

\* Everything is closed: the managers' stops never reject or are caught one by
\* one, so that the outer catch is left to exceptions of the code between them.
StopCloses(s) ==
    /\ phase = "closing"
    /\ Turn(sess[s].stopAt)
    /\ capture' = None
    /\ sess' = Removed(s)
    /\ served' = served + 1
    /\ phase' = "idle"
    /\ UNCHANGED <<tail, engine, userRecording, dictating>>

MainStep(s) ==
    \/ StartCanceled(s)
    \/ StartRefused(s)
    \/ StartEnters(s)
    \/ StartOpens(s)
    \/ StartBegins(s)
    \/ StartSucceeds(s)
    \/ StartThrows(s)
    \/ RolledBack(s)
    \/ StopNothing(s)
    \/ StopEnters(s)
    \/ StopCloses(s)

-----------------------------------------------------------------------------
(* Dictation. *)

\* setDictationLifecycleState: every change of a dictation writes the engine's
\* flag too, and clears it whenever the new state is not recording.
Dictates(now) ==
    /\ dictating' = now
    /\ userRecording' = now
    /\ UNCHANGED <<sess, tail, served, phase, capture, engine>>

MainNext ==
    \/ \E s \in Session : StartSession(s) \/ StopSession(s) \/ MainStep(s)
    \/ \E now \in BOOLEAN : Dictates(now)

\* The main process under any recorder.
MainSpec == MainInit /\ [][MainNext]_mainVars

\* Between the operations of main, the engine tracks the session whose capture
\* is open, so that no dictation that ends meanwhile unmutes the detection of
\* other meetings; and the flag is never left set by a start that failed or was
\* stopped: only a capture or a dictation holds it
\* (handleDetection, startMeetingTranscription, stopMeetingTranscription).
DetectionGated ==
    phase = "idle" =>
        /\ engine = capture
        /\ userRecording => capture # None \/ dictating

-----------------------------------------------------------------------------
\* The queue implements MeetingCapture: helpers and streams are never opened
\* for a session while those of another one are still open, nor twice for one.
Promise == INSTANCE MeetingCapture
           WITH owner <- capture, over <- {s \in Session : sess[s].state = "done"}

SingleCapture == Promise!Spec
=============================================================================
