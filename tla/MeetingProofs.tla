---------------------------- MODULE MeetingProofs ----------------------------
(* The main process of a meeting recording, whatever the recorder asks of it: *)
(* captures never overlap and never come back, the engine tracks the open one   *)
(* and nothing leaves detection muted, however dictations cross.  The recording *)
(* store only drives it by its two requests.                                    *)
(* Then the two together: RecordingInv ties the starts, the stop barrier and  *)
(* the microphones of the store to the sessions that main has.                *)
EXTENDS MeetingRecording, TLAPS

\* The tickets of one session.
Tickets(s) ==
    /\ sess[s].startAt <= tail
    /\ sess[s].stopAt <= tail
    /\ sess[s].state = "new" <=> sess[s].startAt = 0
    /\ sess[s].startAt = 0 => ~sess[s].started /\ sess[s].stopAt = 0
    /\ sess[s].stopAt # 0 => sess[s].startAt < sess[s].stopAt
    /\ sess[s].started => sess[s].startAt <= served
    /\ sess[s].state \in {"queued", "starting", "active"} => sess[s].stopAt = 0
    /\ sess[s].state = "stopping" => sess[s].stopAt # 0
    /\ sess[s].state = "done" => sess[s].startAt <= served
    /\ sess[s].state = "done" /\ sess[s].started => sess[s].stopAt # 0

\* Two sessions: no ticket is drawn twice, and the later one was let in after
\* the earlier one had been asked to stop, or had failed.
Ordered(s, t) ==
    /\ sess[s].startAt # 0 => sess[s].startAt # sess[t].startAt
    /\ sess[s].stopAt # 0 => sess[s].stopAt # sess[t].stopAt
    /\ sess[s].startAt # 0 => sess[s].startAt # sess[t].stopAt
    /\ sess[s].startAt # 0 /\ sess[s].startAt < sess[t].startAt =>
          \/ sess[s].stopAt # 0 /\ sess[s].stopAt < sess[t].startAt
          \/ sess[s].state = "done" /\ ~sess[s].started

\* The capture belongs to the start that runs, or to a session that started and
\* whose stop is yet to run.
Captured(s) ==
    /\ sess[s].state # "done"
    /\ \/ sess[s].startAt = served + 1 /\ phase \in {"beginning", "arming", "rollback"}
       \/ sess[s].started /\ (sess[s].stopAt = 0 \/ sess[s].stopAt > served)

\* The await at which the operation of s stands.
Running(s) ==
    /\ phase \in {"beginning", "arming"} /\ sess[s].startAt = served + 1 => capture = s
    /\ phase = "closing" /\ sess[s].stopAt = served + 1 => sess[s].started

\* The engine follows the capture; the mute does not outlive it, but for dictation.
Tracked ==
    /\ served <= tail
    /\ phase # "idle" => served < tail
    /\ engine # None => engine = capture
    /\ phase \in {"idle", "arming"} => engine = capture
    /\ phase \in {"opening", "beginning", "closing"} => engine = None
    /\ phase = "idle" /\ userRecording => capture # None \/ dictating
    /\ phase = "closing" /\ userRecording => dictating

MainInv ==
    /\ MainTypeOK
    /\ \A s \in Session : Tickets(s)
    /\ \A s, t \in Session : s # t => Ordered(s, t)
    /\ capture # None => Captured(capture)
    /\ \A s \in Session : Running(s)
    /\ Tracked

-----------------------------------------------------------------------------
\* The operation whose turn it is finds no capture but its own: any other
\* session with one would have had to be stopped before.
LEMMA OwnerRuns ==
  ASSUME MainInv, NEW s \in Session, capture # None,
         \/ sess[s].startAt = served + 1
         \/ sess[s].stopAt = served + 1 /\ sess[s].started
  PROVE  capture = s
  <1> SUFFICES ASSUME capture # s PROVE FALSE
    OBVIOUS
  <1>1. capture \in Session /\ Captured(capture) /\ Tickets(capture) /\ Tickets(s)
    BY DEF MainInv, MainTypeOK
  <1>2. Ordered(capture, s) /\ Ordered(s, capture)
    BY <1>1 DEF MainInv
  <1>3. sess[s].startAt \in Nat /\ sess[s].stopAt \in Nat /\ served \in Nat
        /\ sess[capture].startAt \in Nat /\ sess[capture].stopAt \in Nat
    BY <1>1 DEF MainInv, MainTypeOK
  <1>4. QED BY <1>1, <1>2, <1>3 DEF Captured, Ordered, Tickets

LEMMA StartSessionKeeps ==
  ASSUME MainInv, NEW s \in Session, StartSession(s)
  PROVE  MainInv'
  <1>1. \A t \in Session \ {s} : sess'[t] = sess[t]
    BY DEF MainInv, MainTypeOK, StartSession, Accepts, Registered
  <1>2. /\ sess'[s].state = "queued"
        /\ sess'[s].started = sess[s].started
        /\ sess'[s].startAt = tail + 1
        /\ sess'[s].stopAt = sess[s].stopAt
    BY DEF MainInv, MainTypeOK, SessionStates, StartSession, Accepts, Registered
  <1>3. MainTypeOK'
    <2>1. tail + 1 \in Nat /\ "queued" \in SessionStates
      BY DEF MainInv, MainTypeOK, SessionStates
    <2>2. sess' \in [Session -> [state: SessionStates, started: BOOLEAN,
                                 startAt: Nat, stopAt: Nat]]
      BY <2>1 DEF MainInv, MainTypeOK, StartSession
    <2>3. QED BY <2>1, <2>2 DEF MainInv, MainTypeOK, StartSession
  <1>5. ASSUME NEW t \in Session PROVE Tickets(t)'
    BY <1>1, <1>2 DEF MainInv, MainTypeOK, Tickets, Tracked, StartSession, Accepts, Registered
  <1>6. ASSUME NEW t \in Session, NEW u \in Session, t # u PROVE Ordered(t, u)'
    BY <1>1, <1>2, <1>6 DEF MainInv, MainTypeOK, Tickets, Ordered, StartSession, Accepts, Registered
  <1>7. capture' # None => Captured(capture)'
    BY <1>1, <1>2, NoneIsNoSession DEF MainInv, MainTypeOK, Tickets, Ordered, Captured, Running, Tracked, StartSession, Accepts, Registered
  <1>8. ASSUME NEW t \in Session PROVE Running(t)'
    BY <1>1, <1>2 DEF MainInv, MainTypeOK, Tickets, Ordered, Running, Captured, Tracked, StartSession, Accepts, Registered
  <1>9. Tracked'
    BY <1>1, <1>2, NoneIsNoSession DEF MainInv, MainTypeOK, Tickets, Tracked, Captured, Running, StartSession, Accepts, Registered
  <1>10. QED BY <1>3, <1>5, <1>6, <1>7, <1>8, <1>9 DEF MainInv

LEMMA StopSessionKeeps ==
  ASSUME MainInv, NEW s \in Session, StopSession(s)
  PROVE  MainInv'
  <1>1. \A t \in Session \ {s} : sess'[t] = sess[t]
    BY DEF MainInv, MainTypeOK, StopSession, CanStop, Registered
  <1>2. /\ sess'[s].state = "stopping"
        /\ sess'[s].started = sess[s].started
        /\ sess'[s].startAt = sess[s].startAt
        /\ sess'[s].stopAt = tail + 1
    BY DEF MainInv, MainTypeOK, SessionStates, StopSession, CanStop, Registered
  <1>3. MainTypeOK'
    BY DEF MainInv, MainTypeOK, SessionStates, Phases, StopSession, CanStop, Registered
  <1>5. ASSUME NEW t \in Session PROVE Tickets(t)'
    BY <1>1, <1>2 DEF MainInv, MainTypeOK, Tickets, Tracked, StopSession, CanStop, Registered
  <1>6. ASSUME NEW t \in Session, NEW u \in Session, t # u PROVE Ordered(t, u)'
    BY <1>1, <1>2, <1>6 DEF MainInv, MainTypeOK, Tickets, Ordered, StopSession, CanStop, Registered
  <1>7. capture' # None => Captured(capture)'
    BY <1>1, <1>2, NoneIsNoSession DEF MainInv, MainTypeOK, Tickets, Ordered, Captured, Running, Tracked, StopSession, CanStop, Registered
  <1>8. ASSUME NEW t \in Session PROVE Running(t)'
    BY <1>1, <1>2 DEF MainInv, MainTypeOK, Tickets, Ordered, Running, Captured, Tracked, StopSession, CanStop, Registered
  <1>9. Tracked'
    BY <1>1, <1>2, NoneIsNoSession DEF MainInv, MainTypeOK, Tickets, Tracked, Captured, Running, StopSession, CanStop, Registered
  <1>10. QED BY <1>3, <1>5, <1>6, <1>7, <1>8, <1>9 DEF MainInv

LEMMA StartCanceledKeeps ==
  ASSUME MainInv, NEW s \in Session, StartCanceled(s)
  PROVE  MainInv'
  <1>1. \A t \in Session \ {s} : sess'[t] = sess[t]
    BY DEF MainInv, MainTypeOK, StartCanceled, Turn, Removed
  <1>2. /\ sess'[s].state = "done"
        /\ sess'[s].started = sess[s].started
        /\ sess'[s].startAt = sess[s].startAt
        /\ sess'[s].stopAt = sess[s].stopAt
    BY DEF MainInv, MainTypeOK, SessionStates, StartCanceled, Turn, Removed
  <1>3. MainTypeOK'
    BY DEF MainInv, MainTypeOK, SessionStates, Phases, StartCanceled, Turn, Removed
  <1>4. capture # None => capture = s
    BY OwnerRuns DEF MainInv, Tracked, Running, StartCanceled, Turn, Removed
  <1>5. ASSUME NEW t \in Session PROVE Tickets(t)'
    BY <1>1, <1>2 DEF MainInv, MainTypeOK, Tickets, Tracked, StartCanceled, Turn, Removed
  <1>6. ASSUME NEW t \in Session, NEW u \in Session, t # u PROVE Ordered(t, u)'
    BY <1>1, <1>2, <1>6 DEF MainInv, MainTypeOK, Tickets, Ordered, StartCanceled, Turn, Removed
  <1>7. capture' # None => Captured(capture)'
    BY <1>1, <1>2, <1>4, NoneIsNoSession DEF MainInv, MainTypeOK, Tickets, Ordered, Captured, Running, Tracked, StartCanceled, Turn, Removed
  <1>8. ASSUME NEW t \in Session PROVE Running(t)'
    BY <1>1, <1>2, <1>4 DEF MainInv, MainTypeOK, Tickets, Ordered, Running, Captured, Tracked, StartCanceled, Turn, Removed
  <1>9. Tracked'
    BY <1>1, <1>2, <1>4, NoneIsNoSession DEF MainInv, MainTypeOK, Tickets, Tracked, Captured, Running, StartCanceled, Turn, Removed
  <1>10. QED BY <1>3, <1>5, <1>6, <1>7, <1>8, <1>9 DEF MainInv

LEMMA StartRefusedKeeps ==
  ASSUME MainInv, NEW s \in Session, StartRefused(s)
  PROVE  MainInv'
  <1>1. \A t \in Session \ {s} : sess'[t] = sess[t]
    BY DEF MainInv, MainTypeOK, StartRefused, Turn, Removed
  <1>2. /\ sess'[s].state = "done"
        /\ sess'[s].started = sess[s].started
        /\ sess'[s].startAt = sess[s].startAt
        /\ sess'[s].stopAt = sess[s].stopAt
    BY DEF MainInv, MainTypeOK, SessionStates, StartRefused, Turn, Removed
  <1>3. MainTypeOK'
    BY DEF MainInv, MainTypeOK, SessionStates, Phases, StartRefused, Turn, Removed
  <1>4. capture # None => capture = s
    BY OwnerRuns DEF MainInv, Tracked, Running, StartRefused, Turn, Removed
  <1>5. ASSUME NEW t \in Session PROVE Tickets(t)'
    BY <1>1, <1>2 DEF MainInv, MainTypeOK, Tickets, Tracked, StartRefused, Turn, Removed
  <1>6. ASSUME NEW t \in Session, NEW u \in Session, t # u PROVE Ordered(t, u)'
    BY <1>1, <1>2, <1>6 DEF MainInv, MainTypeOK, Tickets, Ordered, StartRefused, Turn, Removed
  <1>7. capture' # None => Captured(capture)'
    BY <1>1, <1>2, <1>4, NoneIsNoSession DEF MainInv, MainTypeOK, Tickets, Ordered, Captured, Running, Tracked, StartRefused, Turn, Removed
  <1>8. ASSUME NEW t \in Session PROVE Running(t)'
    BY <1>1, <1>2, <1>4 DEF MainInv, MainTypeOK, Tickets, Ordered, Running, Captured, Tracked, StartRefused, Turn, Removed
  <1>9. Tracked'
    BY <1>1, <1>2, <1>4, NoneIsNoSession DEF MainInv, MainTypeOK, Tickets, Tracked, Captured, Running, StartRefused, Turn, Removed
  <1>10. QED BY <1>3, <1>5, <1>6, <1>7, <1>8, <1>9 DEF MainInv

LEMMA StartEntersKeeps ==
  ASSUME MainInv, NEW s \in Session, StartEnters(s)
  PROVE  MainInv'
  <1>1. \A t \in Session \ {s} : sess'[t] = sess[t]
    BY DEF MainInv, MainTypeOK, StartEnters, Turn
  <1>2. /\ sess'[s].state = "starting"
        /\ sess'[s].started = sess[s].started
        /\ sess'[s].startAt = sess[s].startAt
        /\ sess'[s].stopAt = sess[s].stopAt
    BY DEF MainInv, MainTypeOK, SessionStates, StartEnters, Turn
  <1>3. MainTypeOK'
    BY DEF MainInv, MainTypeOK, SessionStates, Phases, StartEnters, Turn
  <1>4. capture # None => capture = s
    BY OwnerRuns DEF MainInv, Tracked, Running, StartEnters, Turn
  <1>5. ASSUME NEW t \in Session PROVE Tickets(t)'
    BY <1>1, <1>2 DEF MainInv, MainTypeOK, Tickets, Tracked, StartEnters, Turn
  <1>6. ASSUME NEW t \in Session, NEW u \in Session, t # u PROVE Ordered(t, u)'
    BY <1>1, <1>2, <1>6 DEF MainInv, MainTypeOK, Tickets, Ordered, StartEnters, Turn
  <1>7. capture' # None => Captured(capture)'
    BY <1>1, <1>2, <1>4, NoneIsNoSession DEF MainInv, MainTypeOK, Tickets, Ordered, Captured, Running, Tracked, StartEnters, Turn
  <1>8. ASSUME NEW t \in Session PROVE Running(t)'
    BY <1>1, <1>2, <1>4 DEF MainInv, MainTypeOK, Tickets, Ordered, Running, Captured, Tracked, StartEnters, Turn
  <1>9. Tracked'
    BY <1>1, <1>2, <1>4, NoneIsNoSession DEF MainInv, MainTypeOK, Tickets, Tracked, Captured, Running, StartEnters, Turn
  <1>10. QED BY <1>3, <1>5, <1>6, <1>7, <1>8, <1>9 DEF MainInv

LEMMA StartOpensKeeps ==
  ASSUME MainInv, NEW s \in Session, StartOpens(s)
  PROVE  MainInv'
  <1>1. sess' = sess BY DEF StartOpens
  <1>3. MainTypeOK'
    BY DEF MainInv, MainTypeOK, SessionStates, Phases, StartOpens, Turn
  <1>4. capture # None => capture = s
    BY OwnerRuns DEF MainInv, Tracked, Running, StartOpens, Turn
  <1>5. ASSUME NEW t \in Session PROVE Tickets(t)'
    BY <1>1 DEF MainInv, MainTypeOK, Tickets, Tracked, StartOpens, Turn
  <1>6. ASSUME NEW t \in Session, NEW u \in Session, t # u PROVE Ordered(t, u)'
    BY <1>1, <1>6 DEF MainInv, MainTypeOK, Tickets, Ordered, StartOpens, Turn
  <1>7. capture' # None => Captured(capture)'
    BY <1>1, <1>4, NoneIsNoSession DEF MainInv, MainTypeOK, Tickets, Ordered, Captured, Running, Tracked, StartOpens, Turn
  <1>8. ASSUME NEW t \in Session PROVE Running(t)'
    BY <1>1, <1>4 DEF MainInv, MainTypeOK, Tickets, Ordered, Running, Captured, Tracked, StartOpens, Turn
  <1>9. Tracked'
    BY <1>1, <1>4, NoneIsNoSession DEF MainInv, MainTypeOK, Tickets, Tracked, Captured, Running, StartOpens, Turn
  <1>10. QED BY <1>3, <1>5, <1>6, <1>7, <1>8, <1>9 DEF MainInv

LEMMA StartBeginsKeeps ==
  ASSUME MainInv, NEW s \in Session, StartBegins(s)
  PROVE  MainInv'
  <1>1. sess' = sess BY DEF StartBegins
  <1>3. MainTypeOK'
    BY DEF MainInv, MainTypeOK, SessionStates, Phases, StartBegins, Turn
  <1>4. capture # None => capture = s
    BY OwnerRuns DEF MainInv, Tracked, Running, StartBegins, Turn
  <1>5. ASSUME NEW t \in Session PROVE Tickets(t)'
    BY <1>1 DEF MainInv, MainTypeOK, Tickets, Tracked, StartBegins, Turn
  <1>6. ASSUME NEW t \in Session, NEW u \in Session, t # u PROVE Ordered(t, u)'
    BY <1>1, <1>6 DEF MainInv, MainTypeOK, Tickets, Ordered, StartBegins, Turn
  <1>7. capture' # None => Captured(capture)'
    BY <1>1, <1>4, NoneIsNoSession DEF MainInv, MainTypeOK, Tickets, Ordered, Captured, Running, Tracked, StartBegins, Turn
  <1>8. ASSUME NEW t \in Session PROVE Running(t)'
    BY <1>1, <1>4 DEF MainInv, MainTypeOK, Tickets, Ordered, Running, Captured, Tracked, StartBegins, Turn
  <1>9. Tracked'
    BY <1>1, <1>4, NoneIsNoSession DEF MainInv, MainTypeOK, Tickets, Tracked, Captured, Running, StartBegins, Turn
  <1>10. QED BY <1>3, <1>5, <1>6, <1>7, <1>8, <1>9 DEF MainInv

LEMMA StartSucceedsKeeps ==
  ASSUME MainInv, NEW s \in Session, StartSucceeds(s)
  PROVE  MainInv'
  <1>1. \A t \in Session \ {s} : sess'[t] = sess[t]
    BY DEF MainInv, MainTypeOK, StartSucceeds, Turn
  <1>2. /\ sess'[s].state = IF sess[s].stopAt # 0 THEN "stopping" ELSE "active"
        /\ sess'[s].started = TRUE
        /\ sess'[s].startAt = sess[s].startAt
        /\ sess'[s].stopAt = sess[s].stopAt
    BY DEF MainInv, MainTypeOK, SessionStates, StartSucceeds, Turn
  <1>3. MainTypeOK'
    <2>1. sess \in [Session -> [state: SessionStates, started: BOOLEAN, startAt: Nat, stopAt: Nat]]
      BY DEF MainInv, MainTypeOK
    <2>2. CASE sess[s].stopAt # 0
      <3>1. sess' = [sess EXCEPT ![s].started = TRUE, ![s].state = "stopping"]
        BY <2>2 DEF StartSucceeds
      <3>2. sess' \in [Session -> [state: SessionStates, started: BOOLEAN, startAt: Nat, stopAt: Nat]]
        BY <2>1, <3>1 DEF SessionStates
      <3>3. QED BY <3>2 DEF MainInv, MainTypeOK, Phases, StartSucceeds
    <2>3. CASE sess[s].stopAt = 0
      <3>1. sess' = [sess EXCEPT ![s].started = TRUE, ![s].state = "active"]
        BY <2>3 DEF StartSucceeds
      <3>2. sess' \in [Session -> [state: SessionStates, started: BOOLEAN, startAt: Nat, stopAt: Nat]]
        BY <2>1, <3>1 DEF SessionStates
      <3>3. QED BY <3>2 DEF MainInv, MainTypeOK, Phases, StartSucceeds
    <2>4. QED BY <2>2, <2>3
  <1>4. capture # None => capture = s
    BY OwnerRuns DEF MainInv, Tracked, Running, StartSucceeds, Turn
  <1>5. ASSUME NEW t \in Session PROVE Tickets(t)'
    BY <1>1, <1>2 DEF MainInv, MainTypeOK, Tickets, Tracked, StartSucceeds, Turn
  <1>6. ASSUME NEW t \in Session, NEW u \in Session, t # u PROVE Ordered(t, u)'
    BY <1>1, <1>2, <1>6 DEF MainInv, MainTypeOK, Tickets, Ordered, StartSucceeds, Turn
  <1>7. capture' # None => Captured(capture)'
    BY <1>1, <1>2, <1>4, NoneIsNoSession DEF MainInv, MainTypeOK, Tickets, Ordered, Captured, Running, Tracked, StartSucceeds, Turn
  <1>8. ASSUME NEW t \in Session PROVE Running(t)'
    BY <1>1, <1>2, <1>4 DEF MainInv, MainTypeOK, Tickets, Ordered, Running, Captured, Tracked, StartSucceeds, Turn
  <1>9. Tracked'
    BY <1>1, <1>2, <1>4, NoneIsNoSession DEF MainInv, MainTypeOK, Tickets, Tracked, Captured, Running, StartSucceeds, Turn
  <1>10. QED BY <1>3, <1>5, <1>6, <1>7, <1>8, <1>9 DEF MainInv

LEMMA StartThrowsKeeps ==
  ASSUME MainInv, NEW s \in Session, StartThrows(s)
  PROVE  MainInv'
  <1>1. sess' = sess BY DEF StartThrows
  <1>3. MainTypeOK'
    BY DEF MainInv, MainTypeOK, SessionStates, Phases, StartThrows, Turn
  <1>4. capture # None => capture = s
    BY OwnerRuns DEF MainInv, Tracked, Running, StartThrows, Turn
  <1>5. ASSUME NEW t \in Session PROVE Tickets(t)'
    BY <1>1 DEF MainInv, MainTypeOK, Tickets, Tracked, StartThrows, Turn
  <1>6. ASSUME NEW t \in Session, NEW u \in Session, t # u PROVE Ordered(t, u)'
    BY <1>1, <1>6 DEF MainInv, MainTypeOK, Tickets, Ordered, StartThrows, Turn
  <1>7. capture' # None => Captured(capture)'
    BY <1>1, <1>4, NoneIsNoSession DEF MainInv, MainTypeOK, Tickets, Ordered, Captured, Running, Tracked, StartThrows, Turn
  <1>8. ASSUME NEW t \in Session PROVE Running(t)'
    BY <1>1, <1>4 DEF MainInv, MainTypeOK, Tickets, Ordered, Running, Captured, Tracked, StartThrows, Turn
  <1>9. Tracked'
    BY <1>1, <1>4, NoneIsNoSession DEF MainInv, MainTypeOK, Tickets, Tracked, Captured, Running, StartThrows, Turn
  <1>10. QED BY <1>3, <1>5, <1>6, <1>7, <1>8, <1>9 DEF MainInv

LEMMA RolledBackKeeps ==
  ASSUME MainInv, NEW s \in Session, RolledBack(s)
  PROVE  MainInv'
  <1>1. \A t \in Session \ {s} : sess'[t] = sess[t]
    BY DEF MainInv, MainTypeOK, RolledBack, Turn, Removed, Ended
  <1>2. /\ sess'[s].state = "done"
        /\ sess'[s].started = sess[s].started
        /\ sess'[s].startAt = sess[s].startAt
        /\ sess'[s].stopAt = sess[s].stopAt
    BY DEF MainInv, MainTypeOK, SessionStates, RolledBack, Turn, Removed, Ended
  <1>3. MainTypeOK'
    BY DEF MainInv, MainTypeOK, SessionStates, Phases, RolledBack, Turn, Removed, Ended
  <1>4. capture # None => capture = s
    BY OwnerRuns DEF MainInv, Tracked, Running, RolledBack, Turn, Removed, Ended
  <1>5. ASSUME NEW t \in Session PROVE Tickets(t)'
    BY <1>1, <1>2 DEF MainInv, MainTypeOK, Tickets, Tracked, RolledBack, Turn, Removed, Ended
  <1>6. ASSUME NEW t \in Session, NEW u \in Session, t # u PROVE Ordered(t, u)'
    BY <1>1, <1>2, <1>6 DEF MainInv, MainTypeOK, Tickets, Ordered, RolledBack, Turn, Removed, Ended
  <1>7. capture' # None => Captured(capture)'
    BY <1>1, <1>2, <1>4, NoneIsNoSession DEF MainInv, MainTypeOK, Tickets, Ordered, Captured, Running, Tracked, RolledBack, Turn, Removed, Ended
  <1>8. ASSUME NEW t \in Session PROVE Running(t)'
    BY <1>1, <1>2, <1>4 DEF MainInv, MainTypeOK, Tickets, Ordered, Running, Captured, Tracked, RolledBack, Turn, Removed, Ended
  <1>9. Tracked'
    BY <1>1, <1>2, <1>4, NoneIsNoSession DEF MainInv, MainTypeOK, Tickets, Tracked, Captured, Running, RolledBack, Turn, Removed, Ended
  <1>10. QED BY <1>3, <1>5, <1>6, <1>7, <1>8, <1>9 DEF MainInv

LEMMA StopNothingKeeps ==
  ASSUME MainInv, NEW s \in Session, StopNothing(s)
  PROVE  MainInv'
  <1>1. \A t \in Session \ {s} : sess'[t] = sess[t]
    BY DEF MainInv, MainTypeOK, StopNothing, Turn, Removed
  <1>2. /\ sess'[s].state = "done"
        /\ sess'[s].started = sess[s].started
        /\ sess'[s].startAt = sess[s].startAt
        /\ sess'[s].stopAt = sess[s].stopAt
    BY DEF MainInv, MainTypeOK, SessionStates, StopNothing, Turn, Removed
  <1>3. MainTypeOK'
    BY DEF MainInv, MainTypeOK, SessionStates, Phases, StopNothing, Turn, Removed
  <1>4. capture # s
    BY NoneIsNoSession DEF MainInv, MainTypeOK, Tickets, Captured, StopNothing, Turn
  <1>5. ASSUME NEW t \in Session PROVE Tickets(t)'
    BY <1>1, <1>2 DEF MainInv, MainTypeOK, Tickets, Tracked, StopNothing, Turn, Removed
  <1>6. ASSUME NEW t \in Session, NEW u \in Session, t # u PROVE Ordered(t, u)'
    BY <1>1, <1>2, <1>6 DEF MainInv, MainTypeOK, Tickets, Ordered, StopNothing, Turn, Removed
  <1>7. capture' # None => Captured(capture)'
    BY <1>1, <1>2, <1>4, NoneIsNoSession DEF MainInv, MainTypeOK, Tickets, Ordered, Captured, Running, Tracked, StopNothing, Turn, Removed
  <1>8. ASSUME NEW t \in Session PROVE Running(t)'
    BY <1>1, <1>2, <1>4 DEF MainInv, MainTypeOK, Tickets, Ordered, Running, Captured, Tracked, StopNothing, Turn, Removed
  <1>9. Tracked'
    BY <1>1, <1>2, <1>4, NoneIsNoSession DEF MainInv, MainTypeOK, Tickets, Tracked, Captured, Running, StopNothing, Turn, Removed
  <1>10. QED BY <1>3, <1>5, <1>6, <1>7, <1>8, <1>9 DEF MainInv

LEMMA StopClosesKeeps ==
  ASSUME MainInv, NEW s \in Session, StopCloses(s)
  PROVE  MainInv'
  <1>1. \A t \in Session \ {s} : sess'[t] = sess[t]
    BY DEF MainInv, MainTypeOK, StopCloses, Turn, Removed
  <1>2. /\ sess'[s].state = "done"
        /\ sess'[s].started = sess[s].started
        /\ sess'[s].startAt = sess[s].startAt
        /\ sess'[s].stopAt = sess[s].stopAt
    BY DEF MainInv, MainTypeOK, SessionStates, StopCloses, Turn, Removed
  <1>3. MainTypeOK'
    BY DEF MainInv, MainTypeOK, SessionStates, Phases, StopCloses, Turn, Removed
  <1>4. capture # None => capture = s
    BY OwnerRuns DEF MainInv, Tracked, Running, StopCloses, Turn, Removed
  <1>5. ASSUME NEW t \in Session PROVE Tickets(t)'
    BY <1>1, <1>2 DEF MainInv, MainTypeOK, Tickets, Tracked, StopCloses, Turn, Removed
  <1>6. ASSUME NEW t \in Session, NEW u \in Session, t # u PROVE Ordered(t, u)'
    BY <1>1, <1>2, <1>6 DEF MainInv, MainTypeOK, Tickets, Ordered, StopCloses, Turn, Removed
  <1>7. capture' # None => Captured(capture)'
    BY <1>1, <1>2, <1>4, NoneIsNoSession DEF MainInv, MainTypeOK, Tickets, Ordered, Captured, Running, Tracked, StopCloses, Turn, Removed
  <1>8. ASSUME NEW t \in Session PROVE Running(t)'
    BY <1>1, <1>2, <1>4 DEF MainInv, MainTypeOK, Tickets, Ordered, Running, Captured, Tracked, StopCloses, Turn, Removed
  <1>9. Tracked'
    BY <1>1, <1>2, <1>4, NoneIsNoSession DEF MainInv, MainTypeOK, Tickets, Tracked, Captured, Running, StopCloses, Turn, Removed
  <1>10. QED BY <1>3, <1>5, <1>6, <1>7, <1>8, <1>9 DEF MainInv

\* A different live session never blocks a stop that the queue runs
\* ("stale-session"): the engine tracks the session to stop, or none.
LEMMA StopEntersKeeps ==
  ASSUME MainInv, NEW s \in Session, StopEnters(s)
  PROVE  MainInv'
  <1>1. engine \in {s, None}
    BY OwnerRuns DEF MainInv, Tracked, StopEnters, Turn
  <1>2. sess' = sess /\ served' = served /\ tail' = tail /\ capture' = capture
        /\ engine' = None /\ userRecording' = FALSE /\ phase' = "closing"
        /\ dictating' = dictating
    BY <1>1 DEF StopEnters
  <1>3. sess[s].stopAt = served + 1 /\ sess[s].started /\ phase = "idle"
    BY DEF StopEnters, Turn
  <1>4. capture # None => capture = s
    BY <1>3, OwnerRuns
  <1>5. MainTypeOK'
    BY <1>2 DEF MainInv, MainTypeOK, Phases
  <1>6. ASSUME NEW t \in Session PROVE Tickets(t)'
    BY <1>2 DEF MainInv, Tickets
  <1>7. ASSUME NEW t \in Session, NEW u \in Session, t # u PROVE Ordered(t, u)'
    BY <1>2, <1>7 DEF MainInv, Ordered
  <1>8. capture' # None => Captured(capture)'
    BY <1>2, <1>3 DEF MainInv, MainTypeOK, Captured, Tickets
  <1>9. ASSUME NEW t \in Session PROVE Running(t)'
    BY <1>2, <1>3 DEF MainInv, MainTypeOK, Ordered, Running
  <1>10. Tracked'
    BY <1>2, <1>3 DEF MainInv, MainTypeOK, Tickets, Tracked
  <1>11. QED BY <1>5, <1>6, <1>7, <1>8, <1>9, <1>10 DEF MainInv

\* A dictation writes the flag, and nothing of the queue.
LEMMA DictatesKeeps ==
  ASSUME MainInv, NEW now \in BOOLEAN, Dictates(now)
  PROVE  MainInv'
  <1>1. UNCHANGED <<sess, tail, served, phase, capture, engine>>
        /\ dictating' = now /\ userRecording' = now
    BY DEF Dictates
  <1>2. MainTypeOK'
    BY <1>1 DEF MainInv, MainTypeOK
  <1>3. Tracked'
    BY <1>1 DEF MainInv, Tracked
  <1>4. QED BY <1>1, <1>2, <1>3 DEF MainInv, Tickets, Ordered, Captured, Running

LEMMA MainInitInv == MainInit => MainInv
  <1> SUFFICES ASSUME MainInit PROVE MainInv
    OBVIOUS
  <1>1. MainTypeOK
    BY DEF MainInit, MainTypeOK, SessionStates, Phases
  <1>2. ASSUME NEW s \in Session PROVE Tickets(s)
    <2>1. sess[s] = [state |-> "new", started |-> FALSE, startAt |-> 0, stopAt |-> 0]
          /\ tail = 0 /\ served = 0
      BY DEF MainInit
    <2>2. QED BY <2>1 DEF Tickets
  <1>3. \A s, t \in Session : Ordered(s, t)
    BY DEF MainInit, Ordered
  <1>4. \A s \in Session : Running(s)
    BY DEF MainInit, Running
  <1>5. capture = None /\ Tracked
    BY DEF MainInit, Tracked
  <1>6. QED BY <1>1, <1>2, <1>3, <1>4, <1>5 DEF MainInv

LEMMA MainStutters == MainInv /\ UNCHANGED mainVars => MainInv'
  BY DEF mainVars, MainInv, MainTypeOK, Tickets, Ordered, Captured, Running, Tracked

LEMMA MainStepKeeps == MainInv /\ [MainNext]_mainVars => MainInv'
  <1> SUFFICES ASSUME MainInv, MainNext PROVE MainInv'
    BY MainStutters
  <1>1. ASSUME NEW now \in BOOLEAN, Dictates(now) PROVE MainInv'
    BY <1>1, DictatesKeeps
  <1>2. ASSUME NEW s \in Session, StartSession(s) \/ StopSession(s) \/ MainStep(s)
        PROVE  MainInv'
    BY <1>2, StartSessionKeeps, StopSessionKeeps, StartCanceledKeeps, StartRefusedKeeps,
       StartEntersKeeps, StartOpensKeeps, StartBeginsKeeps, StartSucceedsKeeps,
       StartThrowsKeeps, RolledBackKeeps, StopNothingKeeps, StopEntersKeeps, StopClosesKeeps
    DEF MainStep
  <1>3. QED BY <1>1, <1>2 DEF MainNext

\* The invariant of the main process under any recorder.
THEOREM MainInvariant == MainSpec => []MainInv
  BY MainInitInv, MainStepKeeps, PTL DEF MainSpec

\* Between the operations of main the engine tracks the session whose capture is
\* open, and only that capture or a dictation keeps detection muted, whatever
\* sequence of starts, stops, failures and dictations went before.
THEOREM MainGatesDetection == MainSpec => []DetectionGated
  <1>1. MainInv => DetectionGated
    BY DEF MainInv, Tracked, DetectionGated
  <1>2. QED BY <1>1, MainInvariant, PTL

-----------------------------------------------------------------------------
(* The refinement. *)

Over == {s \in Session : sess[s].state = "done"}

LEMMA OverGrows ==
  ASSUME MainTypeOK, NEW s \in Session, sess' = Removed(s)
  PROVE  Over' = Over \cup {s}
  <1>1. \A t \in Session \ {s} : sess'[t] = sess[t]
    BY DEF MainTypeOK, Removed
  <1>2. sess'[s].state = "done"
    BY DEF MainTypeOK, Removed
  <1>3. QED BY <1>1, <1>2 DEF Over

\* A step that only moves a session that is not done to a state that is not.
LEMMA OverStays ==
  ASSUME NEW s \in Session, \A t \in Session \ {s} : sess'[t] = sess[t],
         sess[s].state # "done", sess'[s].state # "done"
  PROVE  Over' = Over
  BY DEF Over

LEMMA InitRefines == MainInit => Promise!Init
  BY NoneIsNoSession DEF MainInit, Promise!Init

\* A step of the main process gives the capture to a session, takes it back,
\* drops a session that does not hold it, or is none of the promise's business.
LEMMA StepRefines ==
  ASSUME MainInv, [MainNext]_mainVars
  PROVE  [Promise!Next]_(Promise!vars)
  <1> DEFINE Stutter == capture' = capture /\ Over' = Over
             Drops(s) == capture # s /\ capture' = capture /\ Over' = Over \cup {s}
             Ends(s) == capture = s /\ capture' = None /\ Over' = Over \cup {s}
             Begins(s) == capture = None /\ s \notin Over /\ capture' = s /\ Over' = Over
  <1>1. ASSUME Stutter \/ \E s \in Session : Begins(s) \/ Ends(s) \/ Drops(s)
        PROVE  [Promise!Next]_(Promise!vars)
    BY <1>1 DEF Over, Promise!Next, Promise!Begin, Promise!End, Promise!Drop, Promise!vars
  <1>2. CASE UNCHANGED mainVars
    BY <1>1, <1>2 DEF mainVars, Over
  <1>3. ASSUME NEW now \in BOOLEAN, Dictates(now) PROVE [Promise!Next]_(Promise!vars)
    BY <1>1, <1>3 DEF Dictates, Over
  <1>4. CASE \E s \in Session : StartSession(s) \/ StopSession(s) \/ MainStep(s)
    <2>1. PICK s \in Session : StartSession(s) \/ StopSession(s) \/ MainStep(s)
      BY <1>4
    <2>2. MainTypeOK /\ Tickets(s)
      BY DEF MainInv
    <2>3. CASE StartSession(s)
      <3>1. \A t \in Session \ {s} : sess'[t] = sess[t]
        BY <2>2, <2>3 DEF MainTypeOK, StartSession
      <3>2. sess[s].state # "done" /\ sess'[s].state # "done" /\ capture' = capture
        BY <2>2, <2>3 DEF MainTypeOK, StartSession, Accepts
      <3>3. QED BY <1>1, <3>1, <3>2, OverStays
    <2>4. CASE StopSession(s)
      <3>1. \A t \in Session \ {s} : sess'[t] = sess[t]
        BY <2>2, <2>4 DEF MainTypeOK, StopSession
      <3>2. sess[s].state # "done" /\ sess'[s].state # "done" /\ capture' = capture
        BY <2>2, <2>4 DEF MainTypeOK, StopSession, CanStop, Registered
      <3>3. QED BY <1>1, <3>1, <3>2, OverStays
    <2>5. CASE StartCanceled(s) \/ StartRefused(s)
      <3>1. sess' = Removed(s) /\ capture' = capture
        BY <2>5 DEF StartCanceled, StartRefused
      <3>2. capture # s
        BY <2>2, <2>5, NoneIsNoSession
        DEF MainInv, MainTypeOK, Tickets, Captured, StartCanceled, StartRefused, Turn
      <3>3. QED BY <1>1, <2>2, <3>1, <3>2, OverGrows
    <2>6. CASE StopNothing(s)
      <3>1. sess' = Removed(s) /\ capture' = capture
        BY <2>6 DEF StopNothing
      <3>2. capture # s
        BY <2>2, <2>6, NoneIsNoSession
        DEF MainInv, MainTypeOK, Tickets, Captured, StopNothing, Turn
      <3>3. QED BY <1>1, <2>2, <3>1, <3>2, OverGrows
    <2>7. CASE RolledBack(s) \/ StopCloses(s)
      <3>1. sess' = Removed(s) /\ capture' = None
        BY <2>7 DEF RolledBack, StopCloses
      <3>2. capture # None => capture = s
        BY <2>7, OwnerRuns DEF MainInv, Running, RolledBack, StopCloses, Turn
      <3>3. Over' = Over \cup {s}
        BY <2>2, <3>1, OverGrows
      <3>4. CASE capture = None
        BY <1>1, <3>1, <3>3, <3>4, NoneIsNoSession
      <3>5. CASE capture = s
        BY <1>1, <3>1, <3>3, <3>5
      <3>6. QED BY <3>2, <3>4, <3>5
    <2>8. CASE StartOpens(s)
      <3>1. sess' = sess /\ capture' = s
        BY <2>8 DEF StartOpens
      <3>2. capture = None
        <4>1. capture # None => capture = s
          BY <2>8, OwnerRuns DEF StartOpens, Turn
        <4>2. capture # s
          BY <2>2, <2>8, NoneIsNoSession
          DEF MainInv, MainTypeOK, Tickets, Captured, StartOpens, Turn
        <4>3. QED BY <4>1, <4>2
      <3>3. s \notin Over
        BY <2>2, <2>8 DEF MainTypeOK, Tickets, StartOpens, Turn, Over
      <3>4. QED BY <1>1, <3>1, <3>2, <3>3 DEF Over
    <2>9. CASE StartEnters(s)
      <3>1. \A t \in Session \ {s} : sess'[t] = sess[t]
        BY <2>2, <2>9 DEF MainTypeOK, StartEnters
      <3>2. sess[s].state # "done" /\ sess'[s].state # "done" /\ capture' = capture
        BY <2>2, <2>9 DEF MainTypeOK, Tickets, StartEnters, Turn
      <3>3. QED BY <1>1, <3>1, <3>2, OverStays
    <2>10. CASE StartSucceeds(s)
      <3>1. \A t \in Session \ {s} : sess'[t] = sess[t]
        BY <2>2, <2>10 DEF MainTypeOK, StartSucceeds
      <3>2. sess[s].state # "done" /\ sess'[s].state # "done" /\ capture' = capture
        BY <2>2, <2>10 DEF MainTypeOK, Tickets, StartSucceeds, Turn
      <3>3. QED BY <1>1, <3>1, <3>2, OverStays
    <2>11. CASE StartBegins(s) \/ StartThrows(s)
      BY <1>1, <2>11 DEF StartBegins, StartThrows, Over
    <2>12. CASE StopEnters(s)
      <3>1. engine \in {s, None}
        BY <2>12, OwnerRuns DEF MainInv, Tracked, StopEnters, Turn
      <3>2. QED BY <1>1, <2>12, <3>1 DEF StopEnters, Over
    <2>13. QED
      BY <2>1, <2>3, <2>4, <2>5, <2>6, <2>7, <2>8, <2>9, <2>10, <2>11, <2>12 DEF MainStep
  <1>5. QED BY <1>2, <1>3, <1>4 DEF MainNext

\* The queue keeps the promise of MeetingCapture for any number of sessions:
\* nothing is opened for one while that of another is open, nor twice for one.
THEOREM CaptureRefines == MainSpec => SingleCapture
  BY MainInvariant, InitRefines, StepRefines, PTL DEF MainSpec, SingleCapture, Promise!Spec

-----------------------------------------------------------------------------
(* The recording store is a recorder: it drives main by its two requests. *)

LEMMA RecorderDrives == [Next]_vars => [MainNext]_mainVars
  <1>1. CASE UNCHANGED vars
    BY <1>1 DEF vars
  <1>2. ASSUME NEW s \in Session, StartRecording(s)
        PROVE  UNCHANGED mainVars
    BY <1>2 DEF StartRecording
  <1>3. ASSUME NEW s \in Session, Main(s)
        PROVE  MainNext
    BY <1>3 DEF Main, MainNext
  <1>4. ASSUME NEW s \in Session, StoreStep(s)
        PROVE  [MainNext]_mainVars
    <2>1. CASE Asks(s)
      BY <2>1 DEF Asks, MainNext
    <2>2. CASE BarrierCleans(s)
      BY <2>2 DEF BarrierCleans, MainNext
    <2>3. CASE ~Asks(s) /\ ~BarrierCleans(s)
      BY <1>4, <2>3 DEF StoreStep, MicSettles, Opened, Shared, Wired, Commits, Aborts,
                        FailedCleans, TornDown, Stopped
    <2>4. QED BY <2>1, <2>2, <2>3
  <1>5. ASSUME NEW s \in Session, AutoEndStep(s)
        PROVE  UNCHANGED mainVars
    BY <1>5 DEF AutoEndStep, AutoEnds, EndReceived, CardRestarts, RestartReceived, RestartReads
  <1>6. CASE RendererLost
    BY <1>6 DEF RendererLost, MainNext
  <1>7. CASE StopRecording \/ CardGone \/ RestartAborts
    BY <1>7 DEF StopRecording, CardGone, RestartAborts
  <1>8. ASSUME NEW now \in BOOLEAN, Dictation(now)
        PROVE  MainNext
    BY <1>8 DEF Dictation, MainNext
  <1>9. QED BY <1>1, <1>2, <1>3, <1>4, <1>5, <1>6, <1>7, <1>8 DEF Next

LEMMA RecordingIsRun == Spec => MainSpec
  <1>1. Init => MainInit
    BY DEF Init
  <1>2. QED BY <1>1, RecorderDrives, PTL DEF Spec, MainSpec

\* The same two promises for the whole system, with any number of sessions,
\* cancelled starts, automatic ends, restarts and lost renderers.
THEOREM RecordingRefines == Spec => SingleCapture
  BY RecordingIsRun, CaptureRefines, PTL

\* So also in the whole system.
THEOREM DetectionStaysGated == Spec => []DetectionGated
  BY RecordingIsRun, MainGatesDetection, PTL
-----------------------------------------------------------------------------
(* The recording store and main together. *)

\* The steps of a start that main has been asked for and that has not ended.
MidStart == {"opening", "sharing", "wiring", "confirming"}

\* Which of the flags, the running start and the barrier go together.
Flow ==
    /\ recording = "on" => start = NoStart /\ active # None /\ barrier = NoBarrier
    /\ recording = "starting" => start.pc \in {"preparing"} \cup MidStart /\ ~start.canceled
    /\ start = NoStart => queue = <<>> /\ (recording = "off" => active = None)
    /\ start.pc = "waiting" => barrier.op = "stop" /\ ~start.canceled
    /\ start # NoStart /\ start.pc # "waiting" => active = start.id
    /\ start.pc \in {"preparing", "failed"} \cup MidStart => barrier = NoBarrier
    /\ start.pc = "tearing" <=> barrier.op = "teardown"
    /\ start.pc = "tearing" => barrier.id = start.id /\ recording = "off"
    /\ barrier.op = "stop" => active = None /\ recording = "off"

\* A session main has not heard of.
Fresh(s) == sess[s].state = "new"

\* An id is drawn once, and main hears of it from the start that runs.
Ids ==
    /\ start # NoStart => start.id \in used
    /\ \A i \in DOMAIN queue : /\ queue[i] \in used
                               /\ queue[i] # start.id
                               /\ Fresh(queue[i])
    /\ \A i, j \in DOMAIN queue : queue[i] = queue[j] => i = j
    /\ \A s \in Session : s \notin used => Fresh(s)
    /\ start.pc \in {"waiting", "preparing"} => Fresh(start.id)

\* A session that main has and nobody has asked to stop is the one the store
\* starts or records, or is about to ask for.
Owned ==
    /\ \A s \in Session : CanStop(s) =>
          \/ start.id = s /\ start.pc \in MidStart
          \/ recording = "on" /\ active = s
          \/ barrier.id = s /\ barrier.pc = "cleaning"
    /\ start.pc \in MidStart => sess[start.id].startAt # 0 /\ sess[start.id].stopAt = 0
    /\ start.pc \in MidStart \ {"opening"} => sess[start.id].started
    /\ recording = "on" => sess[active].started /\ sess[active].stopAt = 0

\* A start that main has served without success is over; one that succeeded and
\* is not to be stopped has the capture and the engine.
Outcome(s) ==
    /\ sess[s].startAt # 0 /\ sess[s].startAt <= served /\ ~sess[s].started
          => sess[s].state = "done"
    /\ sess[s].started /\ sess[s].stopAt = 0 => capture = s /\ engine = s

\* A stream a start has opened is that start's; the store's is the active session's
\* or that of the operation cleaning up behind it.
Mics ==
    /\ setupMic # None => start.id = setupMic /\ start.pc \in {"opening", "sharing"}
    /\ storeMic # None =>
          \/ recording = "on" /\ active = storeMic
          \/ start.id = storeMic /\ start.pc \in {"wiring", "confirming"}
          \/ barrier.id = storeMic /\ barrier.pc = "cleaning"

OutcomeInv == \A s \in Session : Outcome(s)

\* The store's part of TypeOK.
StoreTypes ==
    /\ recording \in {"off", "starting", "on"}
    /\ active \in Session \cup {None}
    /\ start \in [id: Session, pc: StartSteps, canceled: BOOLEAN, mic: BOOLEAN] \cup {NoStart}
    /\ queue \in Seq(Session)
    /\ barrier \in [op: {"stop", "teardown"}, id: Session, pc: {"cleaning", "main"},
                    auto: BOOLEAN] \cup {NoBarrier}
    /\ setupMic \in Session \cup {None}
    /\ storeMic \in Session \cup {None}
    /\ used \subseteq Session

\* The part of the invariant that speaks of the store.
StoreInv == StoreTypes /\ Flow /\ Ids /\ Owned /\ Mics

\* The invariant of the store and main together.
RecordingInv == MainInv /\ OutcomeInv /\ StoreInv

-----------------------------------------------------------------------------
(* What main does behind the store's back. *)

\* What the store knows of a session survives every operation of main.
LEMMA MainStepEffect ==
  ASSUME MainInv, NEW t \in Session, MainStep(t), NEW s \in Session
  PROVE  /\ sess'[s].startAt = sess[s].startAt
         /\ sess'[s].stopAt = sess[s].stopAt
         /\ sess[s].started => sess'[s].started
         /\ Fresh(s)' <=> Fresh(s)
         /\ CanStop(s)' => CanStop(s)
  <1>1. Tickets(t) /\ MainTypeOK
    BY DEF MainInv
  <1>2. CASE sess' = sess
    BY <1>2 DEF Fresh, CanStop, Registered
  <1>3. CASE sess' = Removed(t) /\ (Turn(sess[t].startAt) \/ Turn(sess[t].stopAt))
    BY <1>1, <1>3 DEF Removed, Turn, Fresh, CanStop, Registered, MainTypeOK, Tickets
  <1>4. CASE StartEnters(t)
    BY <1>1, <1>4 DEF StartEnters, Turn, Fresh, CanStop, Registered, MainTypeOK, Tickets
  <1>5. CASE StartSucceeds(t)
    BY <1>1, <1>5 DEF StartSucceeds, Turn, Fresh, CanStop, Registered, MainTypeOK, Tickets
  <1>6. QED
    BY <1>2, <1>3, <1>4, <1>5
    DEF MainStep, StartCanceled, StartRefused, StartOpens, StartBegins, StartThrows, RolledBack,
        StopNothing, StopEnters, StopCloses

LEMMA StartSessionEffect ==
  ASSUME MainInv, NEW t \in Session, StartSession(t), NEW s \in Session
  PROVE  /\ s # t => sess'[s] = sess[s]
         /\ s = t => /\ sess'[s].startAt # 0
                     /\ sess'[s].stopAt = 0
                     /\ ~Fresh(s)'
         /\ ~sess'[t].started
  BY DEF StartSession, Accepts, Fresh, MainInv, MainTypeOK, Tickets

LEMMA StopSessionEffect ==
  ASSUME MainInv, NEW t \in Session, StopSession(t), NEW s \in Session
  PROVE  /\ s # t => sess'[s] = sess[s]
         /\ s = t => ~CanStop(s)' /\ ~Fresh(s) /\ ~Fresh(s)'
  BY DEF StopSession, CanStop, Registered, Fresh, MainInv, MainTypeOK, Tickets

\* At most one session waits to be stopped.
LEMMA OneToStop ==
  ASSUME MainInv, NEW s \in Session, NEW t \in Session, CanStop(s), CanStop(t)
  PROVE  s = t
  <1> SUFFICES ASSUME s # t PROVE FALSE
    OBVIOUS
  <1>1. Ordered(s, t) /\ Ordered(t, s) /\ Tickets(s) /\ Tickets(t) /\ MainTypeOK
    BY DEF MainInv
  <1>2. QED BY <1>1 DEF Ordered, Tickets, MainTypeOK, CanStop, Registered

-----------------------------------------------------------------------------
(* Outcome. *)

LEMMA OutcomeKept ==
  ASSUME MainInv, OutcomeInv, [MainNext]_mainVars
  PROVE  OutcomeInv'
  <1> SUFFICES ASSUME NEW s \in Session PROVE Outcome(s)'
    BY DEF OutcomeInv
  <1>1. Outcome(s) /\ Tickets(s) /\ MainTypeOK /\ Tracked
    BY DEF OutcomeInv, MainInv
  <1>2. CASE UNCHANGED mainVars
    BY <1>1, <1>2 DEF mainVars, Outcome
  <1>3. ASSUME NEW t \in Session, StartSession(t) PROVE Outcome(s)'
    BY <1>1, <1>3 DEF StartSession, Accepts, Outcome, MainTypeOK, Tickets, Tracked
  <1>4. ASSUME NEW t \in Session, StopSession(t) PROVE Outcome(s)'
    BY <1>1, <1>4 DEF StopSession, CanStop, Registered, Outcome, MainTypeOK, Tickets
  <1>5. ASSUME NEW t \in Session, MainStep(t) PROVE Outcome(s)'
    <2>1. Tickets(t) /\ (s # t => Ordered(s, t) /\ Ordered(t, s)) /\ Running(t)
      BY DEF MainInv
    <2>2. CASE StartCanceled(t) \/ StartRefused(t) \/ StopNothing(t)
      BY <1>1, <2>1, <2>2 DEF StartCanceled, StartRefused, StopNothing, Turn, Removed, Outcome,
                              MainTypeOK, Tickets, Ordered
    <2>3. CASE StartEnters(t)
      <3>1. ~(sess[s].started /\ sess[s].stopAt = 0)
        BY <1>1, <2>1, <2>3 DEF StartEnters, Turn, MainTypeOK, Tickets, Ordered
      <3>2. QED BY <1>1, <2>1, <2>3, <3>1 DEF StartEnters, Turn, Outcome, MainTypeOK, Tickets
    <2>4. CASE StartOpens(t) \/ StartBegins(t)
      <3>1. ~(sess[s].started /\ sess[s].stopAt = 0)
        BY <1>1, <2>1, <2>4 DEF StartOpens, StartBegins, Turn, MainTypeOK, Tickets, Ordered
      <3>2. QED BY <1>1, <2>4, <3>1 DEF StartOpens, StartBegins, Outcome
    <2>5. CASE StartThrows(t)
      BY <1>1, <2>5 DEF StartThrows, Outcome
    <2>6. CASE StartSucceeds(t)
      <3>1. capture = t /\ engine = t
        BY <2>1, <2>6, <1>1 DEF StartSucceeds, Running, Turn, Tracked
      <3>2. s # t => sess'[s] = sess[s]
        BY <1>1, <2>6 DEF StartSucceeds, MainTypeOK
      <3>3. s # t => ~(sess[s].started /\ sess[s].stopAt = 0)
        BY <1>1, <2>1, <2>6 DEF StartSucceeds, Turn, MainTypeOK, Tickets, Ordered
      <3>4. s = t => sess'[s].started
        BY <1>1, <2>6 DEF StartSucceeds, MainTypeOK
      <3>5. s # t => sess[s].startAt # served + 1
        BY <1>1, <2>1, <2>6 DEF StartSucceeds, Turn, MainTypeOK, Tickets, Ordered
      <3>6. served' = served + 1 /\ capture' = capture /\ engine' = engine
        BY <2>6 DEF StartSucceeds
      <3>7. CASE s = t
        BY <3>1, <3>4, <3>6, <3>7 DEF Outcome
      <3>8. CASE s # t
        BY <1>1, <3>2, <3>3, <3>5, <3>6, <3>8 DEF Outcome, MainTypeOK
      <3>9. QED BY <3>7, <3>8
    <2>7. CASE RolledBack(t)
      <3>1. ~(sess[s].started /\ sess[s].stopAt = 0)
        BY <1>1, <2>1, <2>7 DEF RolledBack, Turn, MainTypeOK, Tickets, Ordered
      <3>2. QED BY <1>1, <2>1, <2>7, <3>1 DEF RolledBack, Turn, Removed, Outcome, MainTypeOK,
                                              Tickets, Ordered
    <2>8. CASE StopEnters(t)
      <3>1. engine \in {t, None}
        BY <2>8, OwnerRuns DEF MainInv, Tracked, StopEnters, Turn
      <3>2. sess' = sess /\ served' = served /\ capture' = capture /\ sess[t].stopAt # 0
        BY <1>1, <2>8, <3>1 DEF StopEnters, Turn, MainTypeOK
      <3>3. sess[s].started /\ sess[s].stopAt = 0 => FALSE
        BY <1>1, <3>1, <3>2, NoneIsNoSession DEF Outcome
      <3>4. QED BY <1>1, <3>2, <3>3 DEF Outcome
    <2>9. CASE StopCloses(t)
      <3>1. ~(sess[s].started /\ sess[s].stopAt = 0)
        BY <1>1, <2>1, <2>9, OwnerRuns, NoneIsNoSession
        DEF StopCloses, Turn, MainTypeOK, Outcome, Running
      <3>2. QED BY <1>1, <2>1, <2>9, <3>1 DEF StopCloses, Turn, Removed, Outcome, MainTypeOK,
                                              Tickets, Ordered
    <2>10. QED BY <1>5, <2>2, <2>3, <2>4, <2>5, <2>6, <2>7, <2>8, <2>9 DEF MainStep
  <1>6. ASSUME NEW now \in BOOLEAN, Dictates(now) PROVE Outcome(s)'
    BY <1>1, <1>6 DEF Dictates, Outcome
  <1>7. QED BY <1>2, <1>3, <1>4, <1>5, <1>6 DEF MainNext

-----------------------------------------------------------------------------
(* The store's own steps. *)

\* A session and the records of the store: what a "none" record says.
LEMMA StoreRecords ==
  ASSUME StoreTypes
  PROVE  /\ start = NoStart <=> start.id = None
         /\ start = NoStart <=> start.pc = "none"
         /\ barrier = NoBarrier <=> barrier.id = None
         /\ barrier = NoBarrier <=> barrier.op = "free"
         /\ None \notin Session
         /\ start # NoStart => start \in [id: Session, pc: StartSteps, canceled: BOOLEAN,
                                          mic: BOOLEAN]
         /\ barrier # NoBarrier => barrier \in [op: {"stop", "teardown"}, id: Session,
                                                pc: {"cleaning", "main"}, auto: BOOLEAN]
  BY NoneIsNoSession DEF StoreTypes, NoStart, NoBarrier, StartSteps

\* The sessions of main as the store sees them do not change.
LEMMA SameSessions ==
  ASSUME UNCHANGED mainVars, NEW s
  PROVE  (Fresh(s)' <=> Fresh(s)) /\ (CanStop(s)' <=> CanStop(s)) /\ sess'[s] = sess[s]
  BY DEF mainVars, Fresh, CanStop, Registered

LEMMA SessionsStayFresh ==
  ASSUME StoreInv, UNCHANGED <<sess, storeVars>>
  PROVE  StoreInv'
  BY DEF storeVars, mics, StoreInv, StoreTypes, Flow, Ids, Owned, Mics, Fresh, CanStop, Registered

LEMMA IdleStoreKeeps ==
  ASSUME StoreInv, UNCHANGED <<mainVars, storeVars>>
  PROVE  StoreInv'
  BY SessionsStayFresh DEF mainVars

\* An operation of main leaves the store's part alone.
LEMMA MainKeeps ==
  ASSUME MainInv, StoreInv, NEW t \in Session, MainStep(t), UNCHANGED storeVars
  PROVE  StoreInv'
  <1>1. UNCHANGED <<recording, active, start, queue, barrier, setupMic, storeMic, used>>
    BY DEF storeVars, mics
  <1>2. StoreTypes' /\ Flow' /\ Mics'
    BY <1>1 DEF StoreInv, StoreTypes, Flow, Mics
  <1>3. \A i \in DOMAIN queue : queue[i] \in Session
    BY DEF StoreInv, StoreTypes
  <1>4. start.pc # "none" => start.id \in Session
    BY StoreRecords DEF StoreInv
  <1>5. Ids'
    BY <1>1, <1>3, <1>4, MainStepEffect DEF StoreInv, Ids
  <1>6. recording = "on" => active \in Session
    BY DEF StoreInv, Flow, StoreTypes
  <1>7. Owned'
    BY <1>1, <1>4, <1>6, MainStepEffect DEF StoreInv, Owned, MidStart
  <1>8. QED BY <1>2, <1>5, <1>7 DEF StoreInv

\* teardownStart on the running start.
LEMMA TeardownKeeps ==
  ASSUME StoreInv, NEW s \in Session, start.id = s, start.pc \in {"preparing"} \cup MidStart,
         Teardown(s), UNCHANGED mainVars
  PROVE  StoreInv'
  <1>1. /\ start \in [id: Session, pc: StartSteps, canceled: BOOLEAN, mic: BOOLEAN]
        /\ barrier = NoBarrier
        /\ active = s
        /\ recording # "on"
    BY StoreRecords DEF StoreInv, Flow
  <1>2. /\ start' = [start EXCEPT !.pc = "tearing"]
        /\ barrier' = [op |-> "teardown", id |-> s, pc |-> "cleaning", auto |-> FALSE]
        /\ setupMic' = None
        /\ recording' = "off"
        /\ UNCHANGED <<active, queue, storeMic, used>>
    BY <1>1 DEF Teardown, NoBarrier
  <1>3. start'.id = s /\ start'.pc = "tearing" /\ start'.canceled = start.canceled
    BY <1>1, <1>2 DEF StartSteps
  <1>4. start' # NoStart /\ start # NoStart
    BY <1>1, <1>3, NoneIsNoSession DEF NoStart
  <1>5. StoreTypes'
    BY <1>1, <1>2, <1>3 DEF StoreInv, StoreTypes, StartSteps
  <1>6. Flow'
    BY <1>1, <1>2, <1>3, <1>4 DEF StoreInv, Flow, MidStart
  <1>7. Ids'
    BY <1>1, <1>2, <1>3, <1>4, SameSessions DEF StoreInv, Ids
  <1>8. Owned'
    BY <1>1, <1>2, <1>3, SameSessions, NoneIsNoSession DEF StoreInv, Owned, MidStart, NoBarrier
  <1>9. Mics'
    BY <1>1, <1>2, <1>3, NoneIsNoSession DEF StoreInv, Mics, NoBarrier
  <1>10. QED BY <1>5, <1>6, <1>7, <1>8, <1>9 DEF StoreInv

\* A settled start: nothing of it is open, main has nothing to stop, and the next
\* queued start, if any, begins with a clean store.
LEMMA SettlesKeeps ==
  ASSUME StoreInv, UNCHANGED mainVars, start # NoStart, Settles, used' = used,
         barrier' = NoBarrier, setupMic' = None, storeMic' = None,
         \A t \in Session : ~CanStop(t)
  PROVE  StoreInv'
  <1>1. CASE queue = <<>>
    <2>1. start' = NoStart /\ active' = None /\ recording' = "off" /\ queue' = <<>>
      BY <1>1 DEF Settles
    <2>2. StoreTypes'
      BY <2>1 DEF StoreInv, StoreTypes
    <2>3. Flow'
      BY <2>1 DEF Flow, NoStart, NoBarrier, MidStart
    <2>4. Ids'
      BY <2>1, SameSessions DEF StoreInv, Ids, NoStart
    <2>5. Owned'
      BY <2>1, SameSessions DEF Owned, MidStart, NoStart
    <2>6. Mics'
      BY DEF Mics
    <2>7. QED BY <2>2, <2>3, <2>4, <2>5, <2>6 DEF StoreInv
  <1>2. CASE queue # <<>>
    <2> DEFINE h == Head(queue)
    <2>1. Proceeds(h) /\ queue' = Tail(queue)
      BY <1>2 DEF Settles, Runs, NoBarrier
    <2>2. h \in Session /\ h = queue[1] /\ 1 \in DOMAIN queue
      BY <1>2 DEF StoreInv, StoreTypes
    <2>3. /\ queue' \in Seq(Session)
          /\ \A i \in DOMAIN queue' : i + 1 \in DOMAIN queue /\ queue'[i] = queue[i + 1] /\ i + 1 # 1
      BY <1>2, <2>1 DEF StoreInv, StoreTypes
    <2>4. /\ start' = [id |-> h, pc |-> "preparing", canceled |-> FALSE, mic |-> FALSE]
          /\ active' = h /\ recording' = "starting"
      BY <2>1 DEF Proceeds
    <2>5. h \in used /\ Fresh(h)
      BY <2>2 DEF StoreInv, Ids
    <2> HIDE DEF h
    <2>6. start' # NoStart
      BY <2>2, <2>4, NoneIsNoSession DEF NoStart
    <2>7. StoreTypes'
      BY <2>2, <2>3, <2>4 DEF StoreInv, StoreTypes, StartSteps
    <2>8. Flow'
      BY <2>4, <2>6 DEF Flow, NoBarrier
    <2>9. \A i, j \in DOMAIN queue' : queue'[i] = queue'[j] => i = j
      <3> SUFFICES ASSUME NEW i \in DOMAIN queue', NEW j \in DOMAIN queue', queue'[i] = queue'[j]
                   PROVE  i = j
        OBVIOUS
      <3>1. i + 1 = j + 1
        BY <2>3 DEF StoreInv, Ids
      <3>2. i \in Nat /\ j \in Nat
        BY <2>3
      <3>3. QED BY <3>1, <3>2
    <2>10. \A i \in DOMAIN queue' : queue'[i] \in used /\ queue'[i] # h /\ Fresh(queue'[i])
      BY <2>2, <2>3 DEF StoreInv, Ids
    <2>11. Ids'
      BY <2>4, <2>5, <2>9, <2>10, SameSessions DEF StoreInv, Ids
    <2>12. Owned'
      BY <2>4, SameSessions DEF Owned, MidStart
    <2>13. Mics'
      BY DEF Mics
    <2>14. QED BY <2>7, <2>8, <2>11, <2>12, <2>13 DEF StoreInv
  <1>3. QED BY <1>1, <1>2

\* cancelActiveStart.
LEMMA CancelsKeeps ==
  ASSUME StoreInv, start # NoStart, start.pc # "waiting", Cancels, UNCHANGED mainVars
  PROVE  StoreInv'
  <1>1. start \in [id: Session, pc: StartSteps, canceled: BOOLEAN, mic: BOOLEAN]
        /\ recording # "on"
    BY StoreRecords DEF StoreInv, Flow
  <1>2. /\ start' \in [id: Session, pc: StartSteps, canceled: BOOLEAN, mic: BOOLEAN]
        /\ start'.id = start.id /\ start'.pc = start.pc
        /\ start' # NoStart
        /\ recording' = "off"
        /\ UNCHANGED <<active, queue, barrier, setupMic, storeMic, used>>
    BY <1>1, NoneIsNoSession DEF Cancels, mics, NoStart
  <1>3. StoreTypes'
    BY <1>2 DEF StoreInv, StoreTypes
  <1>4. Flow'
    BY <1>2 DEF StoreInv, Flow, MidStart
  <1>5. Ids'
    BY <1>2, SameSessions DEF StoreInv, Ids
  <1>6. Owned'
    BY <1>1, <1>2, SameSessions DEF StoreInv, Owned
  <1>7. Mics'
    BY <1>1, <1>2 DEF StoreInv, Mics
  <1>8. QED BY <1>3, <1>4, <1>5, <1>6, <1>7 DEF StoreInv

\* runStop on a committed recording.
LEMMA RunsStopKeeps ==
  ASSUME StoreInv, recording = "on", NEW auto \in BOOLEAN, RunsStop(auto), UNCHANGED mainVars
  PROVE  StoreInv'
  <1>1. start = NoStart /\ active \in Session /\ barrier = NoBarrier /\ queue = <<>>
    BY DEF StoreInv, StoreTypes, Flow
  <1>2. /\ barrier' = [op |-> "stop", id |-> active, pc |-> "cleaning", auto |-> auto]
        /\ active' = None /\ recording' = "off"
        /\ UNCHANGED <<start, queue, setupMic, storeMic, used>>
    BY <1>1 DEF RunsStop, mics, NoBarrier
  <1>3. StoreTypes'
    BY <1>1, <1>2 DEF StoreInv, StoreTypes
  <1>4. Flow'
    BY <1>1, <1>2 DEF Flow, NoStart, MidStart
  <1>5. Ids'
    BY <1>2, SameSessions DEF StoreInv, Ids
  <1>6. Owned'
    BY <1>1, <1>2, SameSessions, NoneIsNoSession DEF StoreInv, Owned, NoStart, MidStart, NoBarrier
  <1>7. Mics'
    BY <1>1, <1>2, NoneIsNoSession DEF StoreInv, Mics, NoStart, NoBarrier
  <1>8. QED BY <1>3, <1>4, <1>5, <1>6, <1>7 DEF StoreInv

\* startRecording draws an id, and its start runs, waits or is queued.
LEMMA CallKeeps ==
  ASSUME MainInv, StoreInv, NEW s \in Session, Call(s), UNCHANGED mainVars
  PROVE  StoreInv'
  <1>1. s \notin used /\ used' = used \cup {s} /\ recording = "off"
        /\ UNCHANGED <<barrier, setupMic, storeMic>> /\ Fresh(s)
    BY DEF Call, mics, StoreInv, Ids
  <1>2. \A i \in DOMAIN queue : queue[i] # s
    BY <1>1 DEF StoreInv, Ids
  <1>3. CASE start.id # None
    <2>1. queue' = Append(queue, s) /\ UNCHANGED <<start, active, recording>>
      BY <1>3 DEF Call
    <2>2. start # NoStart /\ start.id # s
      BY <1>1, <1>3 DEF NoStart, StoreInv, Ids
    <2>3. /\ queue' \in Seq(Session)
          /\ Len(queue') = Len(queue) + 1 /\ queue'[Len(queue) + 1] = s
          /\ \A i \in DOMAIN queue : queue'[i] = queue[i]
          /\ DOMAIN queue' = DOMAIN queue \cup {Len(queue) + 1}
      BY <2>1 DEF StoreInv, StoreTypes
    <2>4. StoreTypes'
      BY <1>1, <2>1, <2>3 DEF StoreInv, StoreTypes
    <2>5. Flow'
      BY <1>1, <2>1, <2>2 DEF StoreInv, Flow
    <2>6. Ids'
      <3>1. \A i \in DOMAIN queue' : /\ queue'[i] \in used' /\ queue'[i] # start.id
                                     /\ Fresh(queue'[i])
        BY <1>1, <2>2, <2>3 DEF StoreInv, Ids
      <3>2. \A i, j \in DOMAIN queue' : queue'[i] = queue'[j] => i = j
        BY <1>2, <2>3 DEF StoreInv, Ids
      <3>3. QED BY <1>1, <2>1, <2>2, <3>1, <3>2, SameSessions DEF StoreInv, Ids
    <2>7. Owned' /\ Mics'
      BY <1>1, <2>1, SameSessions DEF StoreInv, Owned, Mics
    <2>8. QED BY <2>4, <2>5, <2>6, <2>7 DEF StoreInv
  <1>4. CASE start.id = None
    <2>1. Runs(s) /\ UNCHANGED queue /\ start = NoStart /\ queue = <<>> /\ active = None
      BY <1>1, <1>4, StoreRecords DEF Call, StoreInv, Flow
    <2> DEFINE pc == IF barrier.op = "free" THEN "preparing" ELSE "waiting"
    <2>2. /\ start' = [id |-> s, pc |-> pc, canceled |-> FALSE, mic |-> FALSE]
          /\ pc = "preparing" => active' = s /\ recording' = "starting" /\ barrier = NoBarrier
          /\ pc = "waiting" => active' = None /\ recording' = "off" /\ barrier.op = "stop"
      <3>1. barrier.op # "teardown"
        BY <2>1 DEF StoreInv, Flow, NoStart
      <3>2. barrier.op = "free" => barrier = NoBarrier
        BY StoreRecords DEF StoreInv
      <3>3. barrier.op \in {"free", "stop", "teardown"}
        BY DEF StoreInv, StoreTypes, NoBarrier
      <3>4. QED BY <1>1, <2>1, <3>1, <3>2, <3>3 DEF Runs, Proceeds, Waits
    <2>3. pc \in {"preparing", "waiting"}
      OBVIOUS
    <2> HIDE DEF pc
    <2>4. start' # NoStart
      BY <2>2, NoneIsNoSession DEF NoStart
    <2>5. StoreTypes'
      BY <1>1, <2>1, <2>2, <2>3 DEF StoreInv, StoreTypes, StartSteps
    <2>6. Flow'
      BY <1>1, <2>1, <2>2, <2>3, <2>4 DEF StoreInv, Flow, NoBarrier, NoStart, MidStart
    <2>7. Ids'
      BY <1>1, <2>1, <2>2, <2>3, SameSessions DEF StoreInv, Ids
    <2>8. Owned'
      BY <1>1, <2>1, <2>2, <2>3, SameSessions DEF StoreInv, Owned, MidStart, NoStart
    <2>9. Mics'
      BY <1>1, <2>1, <2>2, NoneIsNoSession DEF StoreInv, Mics, NoStart
    <2>10. QED BY <2>5, <2>6, <2>7, <2>8, <2>9 DEF StoreInv
  <1>5. QED BY <1>3, <1>4

\* The running start goes on: what a step on it leaves to show.
LEMMA GoesOnKeeps ==
  ASSUME StoreInv, start # NoStart, start.pc \in {"preparing"} \cup MidStart,
         NEW pc \in MidStart, NEW mic \in BOOLEAN,
         start' = [start EXCEPT !.pc = pc, !.mic = mic],
         UNCHANGED <<recording, active, queue, barrier, used>>,
         StoreTypes', Mics', Owned',
         ~Fresh(start.id)', \A s \in Session : Fresh(s)' <=> (Fresh(s) /\ s # start.id)
  PROVE  StoreInv'
  <1>1. start \in [id: Session, pc: StartSteps, canceled: BOOLEAN, mic: BOOLEAN]
    BY StoreRecords DEF StoreInv
  <1>2. start'.id = start.id /\ start'.pc = pc /\ start'.canceled = start.canceled
    BY <1>1
  <1>3. start' # NoStart
    BY <1>1, <1>2, NoneIsNoSession DEF NoStart
  <1>4. Flow'
    BY <1>2, <1>3 DEF StoreInv, Flow, MidStart
  <1>5. \A i \in DOMAIN queue : queue[i] \in Session
    BY DEF StoreInv, StoreTypes
  <1>6. Ids'
    BY <1>1, <1>2, <1>3, <1>5 DEF StoreInv, Ids, MidStart
  <1>7. QED BY <1>4, <1>6 DEF StoreInv

\* A start that main has been asked for is not fresh.
LEMMA MidStartAsked ==
  ASSUME MainInv, StoreInv, start.pc \in MidStart
  PROVE  start \in [id: Session, pc: StartSteps, canceled: BOOLEAN, mic: BOOLEAN]
         /\ start # NoStart /\ ~Fresh(start.id)
  <1>1. start # NoStart
    BY DEF MidStart, NoStart
  <1>2. start \in [id: Session, pc: StartSteps, canceled: BOOLEAN, mic: BOOLEAN]
    BY <1>1, StoreRecords DEF StoreInv
  <1>3. Tickets(start.id) /\ sess[start.id].startAt # 0
    BY <1>2 DEF MainInv, StoreInv, Owned
  <1>4. QED BY <1>1, <1>2, <1>3 DEF Tickets, Fresh

LEMMA AsksKeeps ==
  ASSUME MainInv, StoreInv, NEW s \in Session, Asks(s)
  PROVE  StoreInv'
  <1>1. start.id = s /\ start.pc = "preparing"
    BY DEF Asks
  <1>2. CASE Teardown(s) /\ UNCHANGED mainVars
    BY <1>1, <1>2, TeardownKeeps
  <1>3. CASE /\ Current(s) /\ StartSession(s)
             /\ start' = [start EXCEPT !.pc = "opening"]
             /\ UNCHANGED <<recording, active, queue, barrier, mics, used>>
    <2>1. start # NoStart
      BY <1>1 DEF NoStart
    <2>2. start \in [id: Session, pc: StartSteps, canceled: BOOLEAN, mic: BOOLEAN]
      BY <2>1, StoreRecords DEF StoreInv
    <2>3. start'.id = s /\ start'.pc = "opening" /\ start'.mic = start.mic
          /\ start' \in [id: Session, pc: StartSteps, canceled: BOOLEAN, mic: BOOLEAN]
      BY <1>1, <1>3, <2>2 DEF StartSteps
    <2>4. UNCHANGED <<recording, active, queue, barrier, setupMic, storeMic, used>>
      BY <1>3 DEF mics
    <2>5. StoreTypes'
      BY <2>3, <2>4 DEF StoreInv, StoreTypes
    <2>6. Mics'
      BY <1>1, <2>3, <2>4 DEF StoreInv, Mics
    <2>7. \A t \in Session : CanStop(t)' => t = s \/ CanStop(t)
      BY <1>3, StartSessionEffect DEF CanStop, Registered
    <2>8. recording # "on" /\ barrier = NoBarrier
      BY <1>1, <2>1 DEF StoreInv, Flow
    <2>9. \A t \in Session : ~CanStop(t)
      BY <1>1, <2>8, NoneIsNoSession DEF StoreInv, Owned, MidStart, NoBarrier
    <2>10. Owned'
      BY <1>3, <2>3, <2>4, <2>7, <2>8, <2>9, StartSessionEffect DEF Owned, MidStart
    <2>11. ~Fresh(s)' /\ \A t \in Session : Fresh(t)' <=> (Fresh(t) /\ t # s)
      BY <1>3, StartSessionEffect DEF Fresh
    <2>12. start' = [start EXCEPT !.pc = "opening", !.mic = start.mic] /\ start.mic \in BOOLEAN
      BY <1>3, <2>2
    <2>13. "opening" \in MidStart
      BY DEF MidStart
    <2>14. QED
      BY <1>1, <2>1, <2>3, <2>4, <2>5, <2>6, <2>10, <2>11, <2>12, <2>13, GoesOnKeeps
  <1>4. QED BY <1>2, <1>3 DEF Asks

LEMMA MicSettlesKeeps ==
  ASSUME MainInv, StoreInv, NEW s \in Session, MicSettles(s)
  PROVE  StoreInv'
  <1>1. /\ start.id = s /\ start.pc = "opening" /\ start' = [start EXCEPT !.mic = TRUE]
        /\ setupMic' \in {None, s}
        /\ UNCHANGED <<recording, active, queue, barrier, storeMic, used>> /\ UNCHANGED mainVars
    BY DEF MicSettles
  <1>2. "opening" \in MidStart
    BY DEF MidStart
  <1>3. start \in [id: Session, pc: StartSteps, canceled: BOOLEAN, mic: BOOLEAN]
        /\ start # NoStart /\ ~Fresh(s)
    BY <1>1, <1>2, MidStartAsked
  <1>4. /\ start'.id = s /\ start'.pc = "opening"
        /\ start' \in [id: Session, pc: StartSteps, canceled: BOOLEAN, mic: BOOLEAN]
        /\ start' = [start EXCEPT !.pc = "opening", !.mic = TRUE]
    BY <1>1, <1>3
  <1>5. StoreTypes'
    BY <1>1, <1>4 DEF StoreInv, StoreTypes
  <1>6. Mics'
    BY <1>1, <1>4 DEF StoreInv, Mics
  <1>7. Owned'
    BY <1>1, <1>4, SameSessions DEF StoreInv, Owned
  <1>8. ~Fresh(s)' /\ \A t \in Session : Fresh(t)' <=> (Fresh(t) /\ t # s)
    BY <1>1, <1>3, SameSessions
  <1>9. start.id = s /\ start.pc = "opening" /\ TRUE \in BOOLEAN
        /\ UNCHANGED <<recording, active, queue, barrier, used>>
    BY <1>1
  <1>10. QED BY <1>2, <1>3, <1>4, <1>5, <1>6, <1>7, <1>8, <1>9, GoesOnKeeps

\* "opening" to "sharing" finds the answer of main; one that failed is over.
LEMMA OpenedKeeps ==
  ASSUME RecordingInv, NEW s \in Session, Opened(s)
  PROVE  StoreInv'
  <1>1. /\ start.id = s /\ start.pc = "opening" /\ sess[s].startAt <= served
        /\ UNCHANGED mainVars /\ "opening" \in MidStart
    BY DEF Opened, MidStart
  <1>2. start \in [id: Session, pc: StartSteps, canceled: BOOLEAN, mic: BOOLEAN]
        /\ start # NoStart /\ ~Fresh(s)
    BY <1>1, MidStartAsked DEF RecordingInv
  <1>3. CASE Teardown(s)
    BY <1>1, <1>3, TeardownKeeps DEF RecordingInv
  <1>4. CASE /\ Current(s) /\ MainStarted(s)
             /\ start' = [start EXCEPT !.pc = "sharing"]
             /\ UNCHANGED <<recording, active, queue, barrier, mics, used>>
    <2>1. /\ start'.id = s /\ start'.pc = "sharing" /\ "sharing" \in MidStart
          /\ start' \in [id: Session, pc: StartSteps, canceled: BOOLEAN, mic: BOOLEAN]
          /\ start' = [start EXCEPT !.pc = "sharing", !.mic = start.mic] /\ start.mic \in BOOLEAN
      BY <1>1, <1>2, <1>4 DEF StartSteps, MidStart
    <2>2. UNCHANGED <<recording, active, queue, barrier, setupMic, storeMic, used>>
      BY <1>4 DEF mics
    <2>3. StoreTypes'
      BY <2>1, <2>2 DEF RecordingInv, StoreInv, StoreTypes
    <2>4. Mics'
      BY <1>1, <2>1, <2>2 DEF RecordingInv, StoreInv, Mics
    <2>5. Owned'
      BY <1>1, <1>4, <2>1, <2>2, SameSessions DEF RecordingInv, StoreInv, Owned, MainStarted
    <2>6. QED
      BY <1>1, <1>2, <2>1, <2>2, <2>3, <2>4, <2>5, SameSessions, GoesOnKeeps DEF RecordingInv
  <1>5. CASE /\ ~MainStarted(s)
             /\ start' = [start EXCEPT !.pc = "failed"]
             /\ setupMic' = None
             /\ recording' = "off"
             /\ UNCHANGED <<active, queue, barrier, storeMic, used>>
    <2>1. /\ start'.id = s /\ start'.pc = "failed"
          /\ start' \in [id: Session, pc: StartSteps, canceled: BOOLEAN, mic: BOOLEAN]
          /\ start' # NoStart
      BY <1>1, <1>2, <1>5, NoneIsNoSession DEF StartSteps, NoStart
    <2>2. ~CanStop(s)
      BY <1>1, <1>5 DEF RecordingInv, OutcomeInv, Outcome, StoreInv, Owned, MainStarted, CanStop,
                        Registered
    <2>3. recording # "on" /\ barrier = NoBarrier
      BY <1>1, <1>2 DEF RecordingInv, StoreInv, Flow
    <2>4. StoreTypes'
      BY <1>5, <2>1 DEF RecordingInv, StoreInv, StoreTypes
    <2>5. Flow'
      BY <1>1, <1>2, <1>5, <2>1, <2>3 DEF RecordingInv, StoreInv, Flow, MidStart
    <2>6. Ids'
      BY <1>1, <1>2, <1>5, <2>1, SameSessions DEF RecordingInv, StoreInv, Ids
    <2>7. Owned'
      BY <1>1, <1>5, <2>1, <2>2, <2>3, SameSessions DEF RecordingInv, StoreInv, Owned, MidStart
    <2>8. Mics'
      BY <1>1, <1>5, <2>1, <2>3 DEF RecordingInv, StoreInv, Mics
    <2>9. QED BY <2>4, <2>5, <2>6, <2>7, <2>8 DEF StoreInv
  <1>6. QED BY <1>3, <1>4, <1>5 DEF Opened

LEMMA SharedKeeps ==
  ASSUME MainInv, StoreInv, NEW s \in Session, Shared(s)
  PROVE  StoreInv'
  <1>1. start.id = s /\ start.pc = "sharing" /\ UNCHANGED mainVars /\ "sharing" \in MidStart
    BY DEF Shared, MidStart
  <1>2. start \in [id: Session, pc: StartSteps, canceled: BOOLEAN, mic: BOOLEAN]
        /\ start # NoStart /\ ~Fresh(s)
    BY <1>1, MidStartAsked
  <1>3. CASE Teardown(s)
    BY <1>1, <1>3, TeardownKeeps
  <1>4. CASE /\ start' = [start EXCEPT !.pc = "wiring"]
             /\ setupMic' = None
             /\ storeMic' = IF setupMic = s THEN s ELSE storeMic
             /\ UNCHANGED <<recording, active, queue, barrier, used>>
    <2>1. /\ start'.id = s /\ start'.pc = "wiring" /\ "wiring" \in MidStart
          /\ start' \in [id: Session, pc: StartSteps, canceled: BOOLEAN, mic: BOOLEAN]
          /\ start' = [start EXCEPT !.pc = "wiring", !.mic = start.mic] /\ start.mic \in BOOLEAN
      BY <1>1, <1>2, <1>4 DEF StartSteps, MidStart
    <2>2. StoreTypes'
      BY <1>4, <2>1 DEF StoreInv, StoreTypes
    <2>3. Mics'
      BY <1>1, <1>4, <2>1 DEF StoreInv, Mics
    <2>4. Owned'
      BY <1>1, <1>4, <2>1, SameSessions DEF StoreInv, Owned
    <2>5. QED BY <1>1, <1>2, <1>4, <2>1, <2>2, <2>3, <2>4, SameSessions, GoesOnKeeps
  <1>5. QED BY <1>3, <1>4 DEF Shared

LEMMA WiredKeeps ==
  ASSUME MainInv, StoreInv, NEW s \in Session, Wired(s)
  PROVE  StoreInv'
  <1>1. start.id = s /\ start.pc = "wiring" /\ UNCHANGED mainVars /\ "wiring" \in MidStart
    BY DEF Wired, MidStart
  <1>2. start \in [id: Session, pc: StartSteps, canceled: BOOLEAN, mic: BOOLEAN]
        /\ start # NoStart /\ ~Fresh(s)
    BY <1>1, MidStartAsked
  <1>3. CASE Teardown(s)
    BY <1>1, <1>3, TeardownKeeps
  <1>4. CASE /\ start' = [start EXCEPT !.pc = "confirming"]
             /\ UNCHANGED <<recording, active, queue, barrier, mics, used>>
    <2>1. /\ start'.id = s /\ start'.pc = "confirming" /\ "confirming" \in MidStart
          /\ start' \in [id: Session, pc: StartSteps, canceled: BOOLEAN, mic: BOOLEAN]
          /\ start' = [start EXCEPT !.pc = "confirming", !.mic = start.mic]
          /\ start.mic \in BOOLEAN
      BY <1>1, <1>2, <1>4 DEF StartSteps, MidStart
    <2>2. UNCHANGED <<recording, active, queue, barrier, setupMic, storeMic, used>>
      BY <1>4 DEF mics
    <2>3. StoreTypes'
      BY <2>1, <2>2 DEF StoreInv, StoreTypes
    <2>4. Mics'
      BY <1>1, <2>1, <2>2 DEF StoreInv, Mics
    <2>5. Owned'
      BY <1>1, <2>1, <2>2, SameSessions DEF StoreInv, Owned
    <2>6. QED BY <1>1, <1>2, <2>1, <2>2, <2>3, <2>4, <2>5, SameSessions, GoesOnKeeps
  <1>5. QED BY <1>3, <1>4 DEF Wired

LEMMA CommitsKeeps ==
  ASSUME MainInv, StoreInv, NEW s \in Session, Commits(s)
  PROVE  StoreInv'
  <1>1. /\ start.id = s /\ start.pc = "confirming" /\ Current(s)
        /\ recording' = "on" /\ start' = NoStart /\ queue' = <<>>
        /\ UNCHANGED <<active, barrier, setupMic, storeMic, used>> /\ UNCHANGED mainVars
        /\ "confirming" \in MidStart
    BY DEF Commits, mics, MidStart
  <1>2. start # NoStart /\ active = s /\ barrier = NoBarrier /\ recording # "on"
    BY <1>1, MidStartAsked DEF Current, StoreInv, Flow
  <1>3. StoreTypes'
    BY <1>1 DEF StoreInv, StoreTypes
  <1>4. Flow'
    BY <1>1, <1>2, NoneIsNoSession DEF StoreInv, Flow, NoStart, NoBarrier, MidStart
  <1>5. Ids'
    BY <1>1, SameSessions DEF StoreInv, Ids, NoStart
  <1>6. Owned'
    BY <1>1, <1>2, SameSessions DEF StoreInv, Owned, NoStart, MidStart
  <1>7. Mics'
    BY <1>1, <1>2 DEF StoreInv, Mics
  <1>8. QED BY <1>3, <1>4, <1>5, <1>6, <1>7 DEF StoreInv

LEMMA AbortsKeeps ==
  ASSUME StoreInv, NEW s \in Session, Aborts(s)
  PROVE  StoreInv'
  <1>1. start.id = s /\ start.pc \in MidStart /\ Teardown(s) /\ UNCHANGED mainVars
    BY DEF Aborts, MidStart
  <1>2. QED BY <1>1, TeardownKeeps

LEMMA FailedCleansKeeps ==
  ASSUME MainInv, StoreInv, NEW s \in Session, FailedCleans(s)
  PROVE  StoreInv'
  <1>1. /\ start.pc = "failed" /\ start # NoStart /\ storeMic' = None
        /\ UNCHANGED <<barrier, setupMic, used>> /\ Settles /\ UNCHANGED mainVars
    BY DEF FailedCleans, NoStart
  <1>2. barrier = NoBarrier /\ recording # "on" /\ setupMic = None
    BY <1>1 DEF StoreInv, Flow, Mics
  <1>3. \A t \in Session : ~CanStop(t)
    BY <1>1, <1>2, NoneIsNoSession DEF StoreInv, Owned, MidStart, NoBarrier
  <1>4. QED BY <1>1, <1>2, <1>3, SettlesKeeps

\* cleanup of the store, then the one request to stop.
LEMMA BarrierCleansKeeps ==
  ASSUME MainInv, StoreInv, NEW s \in Session, BarrierCleans(s)
  PROVE  StoreInv'
  <1>1. /\ barrier.id = s /\ barrier.pc = "cleaning" /\ storeMic' = None /\ recording' = "off"
        /\ barrier' = [barrier EXCEPT !.pc = "main"]
        /\ UNCHANGED <<active, start, queue, setupMic, used>>
    BY DEF BarrierCleans
  <1>2. /\ barrier # NoBarrier
        /\ barrier \in [op: {"stop", "teardown"}, id: Session, pc: {"cleaning", "main"},
                        auto: BOOLEAN]
    BY <1>1, NoneIsNoSession, StoreRecords DEF StoreInv
  <1>3. /\ barrier' \in [op: {"stop", "teardown"}, id: Session, pc: {"cleaning", "main"},
                         auto: BOOLEAN]
        /\ barrier'.op = barrier.op /\ barrier'.id = s /\ barrier'.pc = "main"
        /\ barrier' # NoBarrier
    BY <1>1, <1>2, NoneIsNoSession DEF NoBarrier
  <1>4. recording = "off" /\ start.pc \notin {"preparing", "failed"} \cup MidStart
    BY <1>2 DEF StoreInv, StoreTypes, Flow
  <1>5. StoreTypes'
    BY <1>1, <1>3 DEF StoreInv, StoreTypes
  <1>6. Flow'
    BY <1>1, <1>3, <1>4 DEF StoreInv, Flow
  <1>7. \A t \in Session : Fresh(t)' <=> Fresh(t)
    <2>1. CASE UNCHANGED mainVars
      BY <2>1, SameSessions
    <2>2. CASE StopSession(s)
      BY <2>2, StopSessionEffect DEF Fresh
    <2>3. QED BY <2>1, <2>2 DEF BarrierCleans
  <1>8. \A t \in Session : ~CanStop(t)'
    <2>1. \A t \in Session : CanStop(t) => t = s
      BY <1>1, <1>4 DEF StoreInv, Owned
    <2>2. CASE UNCHANGED mainVars /\ ~CanStop(s)
      BY <2>1, <2>2, SameSessions
    <2>3. CASE StopSession(s)
      BY <2>1, <2>3, StopSessionEffect DEF CanStop, Registered
    <2>4. QED BY <2>2, <2>3 DEF BarrierCleans
  <1>9. \A i \in DOMAIN queue : queue[i] \in Session
    BY DEF StoreInv, StoreTypes
  <1>10. start.pc = "waiting" => start.id \in Session
    BY StoreRecords DEF StoreInv, NoStart
  <1>11. Ids'
    BY <1>1, <1>4, <1>7, <1>9, <1>10 DEF StoreInv, Ids
  <1>12. Owned'
    BY <1>1, <1>4, <1>8 DEF Owned
  <1>13. Mics'
    BY <1>1, <1>4 DEF StoreInv, Mics
  <1>14. QED BY <1>5, <1>6, <1>11, <1>12, <1>13 DEF StoreInv

\* What a barrier that waits for main leaves behind.
LEMMA BarrierDone ==
  ASSUME StoreInv, barrier.op # "free", barrier.pc = "main"
  PROVE  /\ barrier # NoBarrier /\ recording = "off"
         /\ setupMic = None /\ storeMic = None
         /\ \A t \in Session : ~CanStop(t)
  <1>1. barrier # NoBarrier
    BY DEF NoBarrier
  <1>2. recording = "off" /\ start.pc \notin {"preparing", "failed"} \cup MidStart
    BY <1>1, StoreRecords DEF StoreInv, StoreTypes, Flow
  <1>3. QED BY <1>1, <1>2 DEF StoreInv, Owned, Mics, MidStart

LEMMA TornDownKeeps ==
  ASSUME StoreInv, NEW s \in Session, TornDown(s)
  PROVE  StoreInv'
  <1>1. /\ barrier.op = "teardown" /\ barrier.pc = "main" /\ barrier' = NoBarrier /\ Settles
        /\ UNCHANGED <<setupMic, storeMic, used>> /\ UNCHANGED mainVars
    BY DEF TornDown, mics
  <1>2. start # NoStart
    BY <1>1 DEF StoreInv, Flow, NoStart
  <1>3. QED BY <1>1, <1>2, BarrierDone, SettlesKeeps

LEMMA StoppedKeeps ==
  ASSUME StoreInv, NEW s \in Session, Stopped(s)
  PROVE  StoreInv'
  <1>1. /\ barrier.op = "stop" /\ barrier.pc = "main" /\ barrier' = NoBarrier
        /\ IF start.pc = "waiting" THEN Proceeds(start.id)
           ELSE UNCHANGED <<start, active, recording>>
        /\ UNCHANGED <<queue, setupMic, storeMic, used>> /\ UNCHANGED mainVars
    BY DEF Stopped, mics
  <1>2. /\ recording = "off" /\ setupMic = None /\ storeMic = None
        /\ \A t \in Session : ~CanStop(t)
        /\ barrier # NoBarrier /\ active = None
    BY <1>1, BarrierDone DEF StoreInv, Flow
  <1>3. \A t \in Session : ~CanStop(t)'
    BY <1>1, <1>2, SameSessions
  <1>4. CASE start.pc = "waiting"
    <2>1. start # NoStart
      BY <1>4 DEF NoStart
    <2>2. /\ start' = [id |-> start.id, pc |-> "preparing", canceled |-> FALSE, mic |-> FALSE]
          /\ active' = start.id /\ recording' = "starting"
          /\ start.id \in Session /\ Fresh(start.id)
      BY <1>1, <1>4, <2>1, StoreRecords DEF Proceeds, StoreInv, Ids
    <2>3. start' # NoStart
      BY <2>2, NoneIsNoSession DEF NoStart
    <2>4. StoreTypes'
      BY <1>1, <2>2 DEF StoreInv, StoreTypes, StartSteps
    <2>5. Flow'
      BY <1>1, <2>2, <2>3 DEF Flow, NoBarrier
    <2>6. Ids'
      BY <1>1, <2>1, <2>2, SameSessions DEF StoreInv, Ids
    <2>7. Owned'
      BY <1>1, <1>3, <2>2 DEF Owned, MidStart
    <2>8. Mics'
      BY <1>1, <1>2 DEF Mics
    <2>9. QED BY <2>4, <2>5, <2>6, <2>7, <2>8 DEF StoreInv
  <1>5. CASE start.pc # "waiting"
    <2>1. UNCHANGED <<start, active, recording>>
      BY <1>1, <1>5
    <2>2. start = NoStart
      BY <1>2, <1>5, StoreRecords, NoneIsNoSession DEF StoreInv, Flow
    <2>3. StoreTypes'
      BY <1>1, <2>1 DEF StoreInv, StoreTypes
    <2>4. Flow'
      BY <1>1, <1>2, <2>1, <2>2 DEF StoreInv, Flow, NoStart, NoBarrier, MidStart
    <2>5. Ids'
      BY <1>1, <2>1, <2>2, SameSessions DEF StoreInv, Ids, NoStart
    <2>6. Owned'
      BY <1>2, <1>3, <2>1, <2>2 DEF Owned, NoStart, MidStart
    <2>7. Mics'
      BY <1>1, <1>2 DEF Mics
    <2>8. QED BY <2>3, <2>4, <2>5, <2>6, <2>7 DEF StoreInv
  <1>6. QED BY <1>4, <1>5

\* Both requests to stop find the start to cancel or the recording to end.
LEMMA StopRecordingKeeps ==
  ASSUME StoreInv, StopRecording
  PROVE  StoreInv'
  <1>1. UNCHANGED mainVars /\ recording # "off"
    BY DEF StopRecording
  <1>2. CASE start.id # None
    <2>1. start # NoStart /\ start.pc # "waiting" /\ Cancels
      BY <1>1, <1>2, StoreRecords DEF StopRecording, StoreInv, Flow
    <2>2. QED BY <1>1, <2>1, CancelsKeeps
  <1>3. CASE start.id = None
    <2>1. recording = "on" /\ RunsStop(FALSE)
      <3>1. start = NoStart
        BY <1>3, StoreRecords DEF StoreInv
      <3>2. recording # "starting"
        BY <3>1 DEF StoreInv, Flow, NoStart, MidStart
      <3>3. QED BY <1>1, <1>3, <3>2 DEF StopRecording, StoreInv, StoreTypes
    <2>2. QED BY <1>1, <2>1, RunsStopKeeps
  <1>4. QED BY <1>2, <1>3

LEMMA EndReceivedKeeps ==
  ASSUME StoreInv, NEW s \in Session, EndReceived(s)
  PROVE  StoreInv'
  <1>1. UNCHANGED mainVars
    BY DEF EndReceived
  <1>2. CASE active # s
    BY <1>1, <1>2, IdleStoreKeeps DEF EndReceived
  <1>3. CASE active = s /\ start.id = s
    <2>1. start # NoStart /\ Cancels
      BY <1>3, NoneIsNoSession DEF EndReceived, NoStart
    <2>2. start.pc # "waiting"
      BY <1>3, NoneIsNoSession DEF StoreInv, Flow
    <2>3. QED BY <1>1, <2>1, <2>2, CancelsKeeps
  <1>4. CASE active = s /\ start.id # s
    <2>1. RunsStop(TRUE)
      BY <1>4 DEF EndReceived
    <2>2. start = NoStart
      BY <1>4, NoneIsNoSession DEF StoreInv, Flow
    <2>3. recording = "on"
      BY <1>4, <2>2, NoneIsNoSession DEF StoreInv, StoreTypes, Flow, NoStart, MidStart
    <2>4. QED BY <1>1, <2>1, <2>3, RunsStopKeeps
  <1>5. QED BY <1>2, <1>3, <1>4

\* The store is lost: main stops the one session nobody has asked to stop.
LEMMA RendererLostKeeps ==
  ASSUME MainInv, StoreInv, RendererLost
  PROVE  StoreInv'
  <1>1. /\ recording' = "off" /\ active' = None /\ start' = NoStart /\ queue' = <<>>
        /\ barrier' = NoBarrier /\ setupMic' = None /\ storeMic' = None /\ used' = used
    BY DEF RendererLost
  <1>2. \A t \in Session : ~CanStop(t)' /\ (Fresh(t)' <=> Fresh(t))
    <2>1. CASE \E s \in Session : CanStop(s)
      <3>1. PICK s \in Session : StopSession(s)
        BY <2>1 DEF RendererLost
      <3>2. \A t \in Session : CanStop(t) => t = s
        BY <3>1, OneToStop DEF StopSession
      <3>3. QED BY <3>1, <3>2, StopSessionEffect DEF CanStop, Registered, Fresh
    <2>2. CASE ~\E s \in Session : CanStop(s)
      BY <2>2, SameSessions DEF RendererLost
    <2>3. QED BY <2>1, <2>2
  <1>3. StoreTypes'
    BY <1>1 DEF StoreInv, StoreTypes
  <1>4. Flow'
    BY <1>1 DEF Flow, NoStart, NoBarrier, MidStart
  <1>5. Ids'
    BY <1>1, <1>2 DEF StoreInv, Ids, NoStart
  <1>6. Owned'
    BY <1>1, <1>2 DEF Owned, NoStart, MidStart
  <1>7. Mics'
    BY <1>1 DEF Mics
  <1>8. QED BY <1>3, <1>4, <1>5, <1>6, <1>7 DEF StoreInv

-----------------------------------------------------------------------------
\* Every step of the recorder preserves the store's part.
LEMMA StoreStepKeeps ==
  ASSUME RecordingInv, [Next]_vars
  PROVE  StoreInv'
  <1>1. MainInv /\ StoreInv
    BY DEF RecordingInv
  <1>2. CASE UNCHANGED vars
    BY <1>1, <1>2, IdleStoreKeeps DEF vars
  <1>3. ASSUME NEW s \in Session, StartRecording(s) PROVE StoreInv'
    BY <1>1, <1>3, CallKeeps DEF StartRecording
  <1>4. ASSUME NEW s \in Session, Main(s) PROVE StoreInv'
    BY <1>1, <1>4, MainKeeps DEF Main
  <1>5. ASSUME NEW s \in Session, StoreStep(s) PROVE StoreInv'
    BY <1>1, <1>5, AsksKeeps, MicSettlesKeeps, OpenedKeeps, SharedKeeps, WiredKeeps, CommitsKeeps,
       AbortsKeeps, FailedCleansKeeps, BarrierCleansKeeps, TornDownKeeps, StoppedKeeps
    DEF StoreStep
  <1>6. ASSUME NEW s \in Session, AutoEndStep(s) PROVE StoreInv'
    <2>1. CASE EndReceived(s)
      BY <1>1, <2>1, EndReceivedKeeps
    <2>2. CASE RestartReads(s)
      BY <1>1, <2>2, CallKeeps DEF RestartReads
    <2>3. CASE AutoEnds(s) \/ CardRestarts(s) \/ RestartReceived(s)
      BY <1>1, <2>3, IdleStoreKeeps DEF AutoEnds, CardRestarts, RestartReceived
    <2>4. QED BY <1>6, <2>1, <2>2, <2>3 DEF AutoEndStep
  <1>7. CASE CardGone \/ RestartAborts
    BY <1>1, <1>7, IdleStoreKeeps DEF CardGone, RestartAborts
  <1>8. ASSUME NEW now \in BOOLEAN, Dictation(now) PROVE StoreInv'
    <2>1. UNCHANGED <<sess, storeVars>>
      BY <1>8 DEF Dictation, Dictates
    <2>2. QED BY <1>1, <2>1, SessionsStayFresh
  <1>9. QED
    BY <1>1, <1>2, <1>3, <1>4, <1>5, <1>6, <1>7, <1>8, StopRecordingKeeps, RendererLostKeeps DEF Next

LEMMA RecordingInit == Init => RecordingInv
  <1> SUFFICES ASSUME Init PROVE RecordingInv
    OBVIOUS
  <1>1. MainInv
    BY MainInitInv DEF Init
  <1>2. sess = [s \in Session |-> [state |-> "new", started |-> FALSE, startAt |-> 0, stopAt |-> 0]]
    BY DEF Init, MainInit
  <1>3. OutcomeInv /\ \A s \in Session : Fresh(s) /\ ~CanStop(s)
    BY <1>2 DEF OutcomeInv, Outcome, Fresh, CanStop, Registered
  <1>4. StoreTypes
    BY DEF Init, StoreTypes
  <1>5. Flow /\ Mics
    BY DEF Init, Flow, Mics, NoStart, NoBarrier, MidStart
  <1>6. Ids /\ Owned
    BY <1>3 DEF Init, Ids, Owned, NoStart, MidStart
  <1>7. QED BY <1>1, <1>3, <1>4, <1>5, <1>6 DEF RecordingInv, StoreInv

\* The renderer's recording store and the meeting sessions of the main process
\* stay in step through every start, stop, cancel, restart and lost renderer.
THEOREM RecordingInvariant == Spec => []RecordingInv
  <1>1. RecordingInv /\ [Next]_vars => RecordingInv'
    <2> SUFFICES ASSUME RecordingInv, [Next]_vars PROVE RecordingInv'
      OBVIOUS
    <2>1. MainInv' /\ OutcomeInv'
      BY RecorderDrives, MainStepKeeps, OutcomeKept DEF RecordingInv
    <2>2. QED BY <2>1, StoreStepKeeps DEF RecordingInv
  <1>2. QED BY <1>1, RecordingInit, PTL DEF Spec

\* A capture that main has open and that nobody has asked it to close is the one
\* the store records or starts: no order of cancels, queued starts, teardowns and
\* lost renderers leaves main capturing for nobody.
THEOREM NoCaptureOrphaned == Spec => []NoOrphanCapture
  <1>1. RecordingInv => NoOrphanCapture
    <2> SUFFICES ASSUME RecordingInv, capture # None, sess[capture].stopAt = 0,
                        barrier.id # capture
                 PROVE  active = capture
      BY DEF NoOrphanCapture
    <2>1. capture \in Session /\ Captured(capture) /\ Tickets(capture) /\ MainTypeOK
      BY DEF RecordingInv, MainInv, MainTypeOK
    <2>2. CanStop(capture)
      BY <2>1 DEF Captured, Tickets, CanStop, Registered, MainTypeOK
    <2>3. QED BY <2>1, <2>2, NoneIsNoSession DEF RecordingInv, StoreInv, Owned, Flow, MidStart, NoStart
  <1>2. QED BY <1>1, RecordingInvariant, PTL

\* A microphone opened for a start is held by that start or by the recording it
\* became, and by nothing once both are gone: every way out closes it.
THEOREM MicrophonesAccounted == Spec => []MicAccounted
  <1>1. RecordingInv => MicAccounted
    <2> SUFFICES ASSUME StoreInv PROVE MicAccounted
      BY DEF RecordingInv
    <2>1. setupMic # None => setupMic = active /\ barrier = NoBarrier /\ recording # "on"
      BY DEF StoreInv, Flow, Mics, MidStart, NoStart
    <2>2. QED
      BY <2>1, StoreRecords, NoneIsNoSession DEF StoreInv, StoreTypes, Mics, Flow, NoBarrier, NoStart, MicAccounted
  <1>2. QED BY <1>1, RecordingInvariant, PTL

\* While the store says it records, main captures that very session: the store
\* commits only a start that main confirmed, and stops before it lets go.
THEOREM RecordingStaysLive == Spec => []RecordingIsLive
  <1>1. RecordingInv => RecordingIsLive
    BY DEF RecordingInv, OutcomeInv, Outcome, StoreInv, StoreTypes, Flow, Owned, RecordingIsLive
  <1>2. QED BY <1>1, RecordingInvariant, PTL

\* When the store asks main for a session, main has no other that is not on its
\* way out, so startSession never refuses the request: the queue of starts and
\* the stop barrier make the renderer wait for that.
THEOREM StartsAreAccepted == Spec => []StartIsAccepted
  <1>1. RecordingInv => StartIsAccepted
    <2> SUFFICES ASSUME RecordingInv, NEW s \in Session, start.id = s, start.pc = "preparing",
                        NEW t \in Session, Registered(t)
                 PROVE  sess[s].state = "new" /\ sess[t].state = "stopping"
      BY DEF StartIsAccepted, Accepts, RecordingInv, StoreInv, Ids, Fresh
    <2>1. Tickets(t) /\ MainTypeOK
      BY DEF RecordingInv, MainInv
    <2>2. ~CanStop(t)
      BY NoneIsNoSession DEF RecordingInv, StoreInv, Owned, Flow, MidStart, NoStart, NoBarrier
    <2>3. QED BY <2>1, <2>2 DEF RecordingInv, StoreInv, Ids, Fresh, CanStop, Registered, Tickets, MainTypeOK, SessionStates
  <1>2. QED BY <1>1, RecordingInvariant, PTL

-----------------------------------------------------------------------------
(* Types of the whole state. *)

Cards == [id: Session, offered: BOOLEAN] \cup {NoCard}

AutoEndTypes ==
    /\ armed \in Session \cup {None}
    /\ card \in Cards
    /\ msgs \subseteq [k: {"end", "restart"}, id: Session]
    /\ resume \in [ctx: Session \cup {None}, reading: BOOLEAN]
    /\ crashes \in 0..MaxCrashes

LEMMA ForgetsTyped ==
  ASSUME NEW r \in [ctx: Session \cup {None}, reading: BOOLEAN]
  PROVE  Forgets(r) \in [ctx: Session \cup {None}, reading: BOOLEAN]
  BY DEF Forgets

LEMMA CardsTyped ==
  /\ \A s \in Session : [id |-> s, offered |-> TRUE] \in Cards
                       /\ [id |-> s, offered |-> FALSE] \in Cards
  /\ NoCard \in Cards
  BY DEF Cards

LEMMA AutoEndTyped ==
  ASSUME AutoEndTypes, [Next]_vars
  PROVE  AutoEndTypes'
  <1>1. resume \in [ctx: Session \cup {None}, reading: BOOLEAN]
        /\ Forgets(resume) \in [ctx: Session \cup {None}, reading: BOOLEAN]
    BY ForgetsTyped DEF AutoEndTypes
  <1>2. CASE UNCHANGED <<autoEndVars, crashes>>
    BY <1>2 DEF autoEndVars, AutoEndTypes
  <1>3. ASSUME UNCHANGED <<armed, card, msgs, crashes>>, resume' = Forgets(resume)
        PROVE  AutoEndTypes'
    BY <1>1, <1>3 DEF AutoEndTypes
  <1>4. ASSUME NEW s \in Session, Wired(s) PROVE AutoEndTypes'
    BY <1>4 DEF Wired, AutoEndTypes
  <1>5. ASSUME NEW s \in Session, Stopped(s) PROVE AutoEndTypes'
    <2> DEFINE noted == [resume EXCEPT !.ctx = s]
    <2>1. noted \in [ctx: Session \cup {None}, reading: BOOLEAN]
          /\ [resume EXCEPT !.ctx = None] \in [ctx: Session \cup {None}, reading: BOOLEAN]
      BY <1>1
    <2>2. Forgets(noted) \in [ctx: Session \cup {None}, reading: BOOLEAN]
      BY <2>1, ForgetsTyped
    <2>3. resume' \in {noted, Forgets(noted), [resume EXCEPT !.ctx = None], Forgets(resume)}
      BY <1>5 DEF Stopped
    <2> HIDE DEF noted
    <2>4. resume' \in [ctx: Session \cup {None}, reading: BOOLEAN]
      BY <1>1, <2>1, <2>2, <2>3
    <2>5. (card' = [id |-> s, offered |-> TRUE] \/ card' = NoCard \/ card' = card)
          /\ UNCHANGED <<armed, msgs, crashes>>
      BY <1>5 DEF Stopped
    <2>6. card' \in Cards
      BY <2>5, CardsTyped DEF AutoEndTypes
    <2>7. QED BY <2>4, <2>5, <2>6 DEF AutoEndTypes
  <1>6. ASSUME NEW s \in Session, AutoEndStep(s) PROVE AutoEndTypes'
    <2>1. CASE AutoEnds(s) \/ CardRestarts(s)
      <3>1. /\ (card' = [id |-> s, offered |-> FALSE] \/ card' = NoCard)
            /\ \E k \in {"end", "restart"} : msgs' = msgs \cup {[k |-> k, id |-> s]}
            /\ armed' \in {None, armed} /\ UNCHANGED <<resume, crashes>>
        BY <2>1 DEF AutoEnds, CardRestarts
      <3>2. card' \in Cards
        BY <3>1, CardsTyped
      <3>3. msgs' \subseteq [k: {"end", "restart"}, id: Session]
        BY <3>1 DEF AutoEndTypes
      <3>4. QED BY <3>1, <3>2, <3>3 DEF AutoEndTypes
    <2>2. CASE EndReceived(s)
      BY <2>2 DEF EndReceived, AutoEndTypes
    <2>3. CASE RestartReceived(s) \/ RestartReads(s)
      <3>1. /\ \E reading \in BOOLEAN : resume' = [ctx |-> None, reading |-> reading]
            /\ msgs' \subseteq msgs /\ UNCHANGED <<armed, card, crashes>>
        BY <2>3 DEF RestartReceived, RestartReads
      <3>2. resume' \in [ctx: Session \cup {None}, reading: BOOLEAN]
        BY <3>1
      <3>3. QED BY <3>1, <3>2 DEF AutoEndTypes
    <2>4. QED BY <1>6, <2>1, <2>2, <2>3 DEF AutoEndStep
  <1>7. ASSUME NEW s \in Session, Main(s) PROVE AutoEndTypes'
    BY <1>7, CardsTyped DEF Main, AutoEndTypes
  <1>8. CASE CardGone \/ RestartAborts \/ RendererLost
    <2>1. CASE CardGone
      BY <2>1, CardsTyped DEF CardGone, AutoEndTypes
    <2>2. CASE RestartAborts
      BY <1>1, <2>2 DEF RestartAborts, AutoEndTypes
    <2>3. CASE RendererLost
      BY <2>3, CrashBound, CardsTyped DEF RendererLost, AutoEndTypes
    <2>4. QED BY <1>8, <2>1, <2>2, <2>3
  <1>9. CASE UNCHANGED vars \/ StopRecording
    BY <1>2, <1>9 DEF vars, StopRecording
  <1>10. ASSUME NEW s \in Session, StoreStep(s) \/ StartRecording(s) PROVE AutoEndTypes'
    BY <1>2, <1>3, <1>4, <1>5, <1>10
    DEF StoreStep, StartRecording, Asks, MicSettles, Opened, Shared, Commits, Aborts, FailedCleans,
        BarrierCleans, TornDown
  <1>11. ASSUME NEW now \in BOOLEAN, Dictation(now) PROVE AutoEndTypes'
    BY <1>2, <1>11 DEF Dictation
  <1>12. QED BY <1>6, <1>7, <1>8, <1>9, <1>10, <1>11 DEF Next

\* Every variable of the recorder and of the main process keeps its type, with
\* any number of sessions and lost renderers.
THEOREM RecordingTypes == Spec => []TypeOK
  <1>1. Init => AutoEndTypes
    BY CrashBound, CardsTyped DEF Init, AutoEndTypes
  <1>2. RecordingInv /\ AutoEndTypes => TypeOK
    BY DEF RecordingInv, MainInv, StoreInv, StoreTypes, AutoEndTypes, Cards, TypeOK
  <1>3. QED BY <1>1, <1>2, AutoEndTyped, RecordingInvariant, PTL DEF Spec
=============================================================================
