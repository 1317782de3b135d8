# Verification of Cosmic Wispr

TLA+ specifications of the parts of Cosmic Wispr (a fork of OpenWhispr: local
dictation, meetings and notes, an Electron application with one main process
and several renderer windows) whose correctness depends on the order in which
users, timers, processes and the cloud act.  TLC checks small instances; TLAPS
proves the safety properties that hold, for every instance.

    tlc -config NoteSync.cfg MC_NoteSync
    tlc -config MeetingRecording.cfg MeetingRecording
    tlapm LocalServerProofs.tla

`PROJECT.json` lists every run with its module and configuration, the source
lines behind every definition, the hazards of the code with the properties
against them, the findings, and the theorems.

Contents: 1 inventory, 2 plan, 3 notes, 4 when sync runs, 5 dictionary,
6 dictation, 7 meetings, 8 local servers, 9 batch queue, 10 proofs, 11 what is
only model-checked, 12 what the code does against its comments, 13 what is not
modelled.

## 1. Inventory

| Component | State | Operations | Interacts with |
|---|---|---|---|
| Local database (`helpers/database.js`) | SQLite tables: notes, folders, spaces, dictionary, snippets, conversations, transcriptions, with `sync_status`, `cloud_id`, `cloud_updated_at`, `deleted_at` | one synchronous statement or transaction per IPC call | every renderer through `ipcHandlers.js` |
| Note sync (`services/SyncService.ts`, `noteCreateAck.ts`, `syncPassPolicy.ts`, `lib/noteConflictRegistry.ts`) | delta cursors, conflict registry, update-404 streaks (localStorage), debounce timers, requests in flight | pass (push, delete, pull), debounced push, Keep, Refresh | database over IPC, cloud over HTTP, other windows over localStorage and Web Locks |
| Sync scheduling (`SyncService.ts` `syncAll`, `requestSyncAll`, `syncDictionaryNow`, `syncSnippetsNow`) | `syncing`, `syncAllPending`, `dictionaryDirty`, `snippetsDirty`, the Web Lock, retry timer, `lastSyncedAt` | triggers, passes, drains | all sync kinds |
| Dictionary and snippet sync | rows with tombstones and a sync status | add, rename, remove, push, delete, pull | as note sync |
| Folders, spaces and permissions (`SpacesService`, `spaceActions*`, purge guard, `handleDenied*`, `restoreDeniedRows`) | space membership, purge tombstones, denied journals | mirror spaces, purge, restore | note sync |
| Right-Ctrl gesture (`helpers/rightCtrlGesture.js`, `cosmicGestureManager.js`) | gesture state, three timers, recording state reported by the renderer | key down, key up, other key, timers | dictation lifecycle over IPC |
| Dictation lifecycle (`helpers/dictationLifecycle.js`, `audioManager.js`, `preparedMicCapture.js`, `micStreamHold.js`) | capture state, held streams | start, stop, cancel, deliver | gesture, windows, clipboard |
| Meeting recording (`meetingTranscriptionLifecycle.js`, `meetingAutoEnd*`, `meetingRecordingSession.ts`, detection engine) | sessions, queue of starts and stops, silence timers | start, stop, auto-end, owner loss | audio capture, notes |
| Local servers (`whisperServer`, `llamaServer`, `parakeetWsServer`, `qdrantManager`, sidecar registry and reaper) | child process, port, readiness, pid files | start, stop, restart, reap | transcription, inference |
| Upload and batch queue (`stores/batchQueueStore.ts`, `uploadCancelRegistry.js`) | queue items, cancel tokens | enqueue, cancel, process | transcription |
| Account scope (`accountScopeBinding.js`, `lib/authRequestContext.ts`, `lib/accountScopeMirror.ts`) | validated generation, bound account | sign in, sign out, guard requests | every request |
| Clipboard and paste (`helpers/clipboard.js`, `selectionManager.js`) | clipboard contents to restore | paste, restore | dictation |
| Hotkeys (`hotkeyManager.js`, desktop back ends) | registered shortcuts | register, unregister, rebind | desktop |
| Windows and user interface | window and component state | show, hide, render | all |

The hard behaviours: every `await` of the sync service lets the user, another
channel, the cloud or a peer act in between; the debounced push runs outside
the pass lock; requests and their answers can be lost; the renderer can reload
between any two steps; key, timer and IPC events of the recording gestures
race; starts and stops of meetings and of local servers overlap; a child
process closes after its replacement was spawned; a cancelled batch comes back
late to a queue that has moved on.

What makes each component correct:

- Notes: a text is never lost or overwritten unseen; a settled row shows what
  the cloud has held; a row is linked only to a copy of its own; a tombstone
  stays; unpushed text is eventually delivered, removed or put to the user.
- Scheduling: one pass at a time over all windows; a request made during a pass
  is served by a later phase or pass; every write is offered.
- Dictionary, snippets: one row per word; a removed word stays queued until the
  cloud has deleted it; a pending word settles; all this also when two windows
  sync at once.
- Gesture and dictation: the recognizer, the helper and the renderer agree on
  the key, the status and the microphone; a stop and a cancel end what they
  find, at whichever await; a recorder is never live without an owner.
- Spaces and permissions: a purge removes nothing that was not yet pushed; a
  denied note is restored exactly once.
- Meetings: one capture at a time, owned by the recording the user sees or by a
  stop under way; whatever is given up is released; the detection engine tracks
  what is captured, whatever dictations begin and end meanwhile.
- Servers: one child, which the app and the pid file know; ready means ready;
  every start is served by the model it asked for.
- Batch queue: a cancel reaches what runs, and what it settled stays settled,
  however late the cancelled work ends.
- Account: nothing of one account is sent under another.

## 2. Plan

| Order | Module | Extends or composes | State |
|---|---|---|---|
| 1 | `NoteRow`, `NoteSync` | `NoteSync` composes the row with the pass, the debounced push, the cloud and peers | done |
| 2 | `NoteSyncProofs`, `NoteDeliveryProofs` | theorems of `NoteSync` | done |
| 3 | `SyncScheduler`, `SyncSchedulerProofs` | the passes of several windows; what a phase moves is a number | done |
| 4 | `DictionarySync`, `DictionaryProofs` | rows and cloud of one installation, the syncs of its windows | done |
| 5 | `RightCtrlGesture`, `Dictation`, `DictationProofs` | `Dictation` composes helper, socket, recognizer, main process and renderer | done |
| 6 | `MeetingCapture`, `MeetingLifecycle`, `MeetingRecording`, `MeetingProofs` | `MeetingLifecycle` (main) implements `MeetingCapture`; `MeetingRecording` puts the recording store over it | done |
| 7 | `LocalServer`, `LocalServerProofs` | one module for two servers (`Kind`), with the reaper | done |
| 8 | `BatchQueue`, `BatchQueueProofs` | the queue, its runs and the operations of main | done |
| 9 | `PreparedCapture` | `preparedMicCapture.js` and `micStreamHold.js`; then composed with `Dictation` | not built |
| 10 | `SpaceAccess` | purge, denial and restoration of notes, around `NoteRow` | not built |
| 11 | `AccountScope` | generations of the account around requests | not built |

Abstract specifications worth stating next: "an offered register" (a write is
made, then offered) implemented by `SyncScheduler`; a dictation as off,
recording, transcribing, implemented by `Dictation` through `mic`.

Every safety property and every action property that a passing run checks is
proved.  Worth proving next: the refinements named above, once the abstract
specifications are stated.

Modules declare bounds (`MaxActs`, `MaxFaults`, ...) and the assumptions on them
as constants; no module uses a RECURSIVE operator, so all can be proved about.

## 3. Notes

`NoteRow` has the statements of `database.js` on one note row as operators
from row to row.  `NoteSync` is one installation: the user (create, edit,
delete, Keep, Refresh), the sync pass (`pc`, `todo`, `page`), debounced pushes
(`armed`, `flight`), the conflict registry, the 404 streaks and the cursor, next
to an external cloud and peers.

A request is three steps: sent with a snapshot of the row, answered by the
cloud, and taken by the client, which applies the answer to the row as it is
by then.  The pull is a list of rows and then, per row, a read and a decision in
two steps, because the code awaits between `getNoteByClientId` and the call
that writes.

Abstractions.  A body is the clock value of the write that produced it, so two
texts are equal only if they are one write; bodies are never empty, so the rule
that an empty cloud field does not erase a local one is not expressed.  One
logical clock stamps all parties (no skew; SQLite's one-second granularity is
not represented).  Notes lie in spaces the installation already mirrors and in
no folder, and the pass is a full-backup pass: parked rows, folder gates and
the team-only branch are absent.  The cloud may deny a deletion (`denied`): the
tombstone is revived and a snapshot pull follows before the pass's own.  A
denied PATCH is absent: it forks the row like a revoked one (`PushRevoked`) and
owes the same snapshot pull.  A batch create is one request per row, and so is
the repetition row by row after a refused batch; the listing of a pull is read at once; Keep and Refresh
are atomic (each is one or two IPC calls made back to back).  The cloud is what
the client relies on: `base_updated_at` is a compare-and-set, a create is
idempotent by client id and returns a tombstone as it is, delta lists show
tombstones and access-removed stubs from the cursor on, a first list only live
rows (`test/helpers/harness/fakeCloud.js` behaves so).  `held` and `seen` are
history variables.

| Run | What it shows | Bounds |
|---|---|---|
| `notes_interleavings` | `SettledTextWasDelivered`, `NoUnseenOverwrite`, `UnpushedTextSurvives`, `AnswersAdvanceBase` | one row, two identities (a fork needs the second), one debounced push beside the pass, three acts of user and peers, no faults |
| `notes_faults` | `TypeOK`, `LinkedRowsHaveCopies`, `TombstonesStay` | two rows, two acts, one lost request, lost answer, failed pull or restart |
| `notes_progress` | `UnpushedTextResolves` under fairness | one row, two identities, four acts, one fault, no debounced push |

Three acts suffice for create, edit during a request, and a peer's write or
removal, which is the deepest interference the safety properties need.  One row
id is enough where rows do not meet: they only wait for each other's requests.
Two identities cut off no fork: a fork is private, peers neither write nor
remove it, so the cloud never refuses it and a row forks at most once.  The four
acts of `notes_progress` leave room for an edit after every step that ends in a
fork (create, removal by a peer, edits).  `ForkThreshold` is 1 here and 3 in the
code: the streak only delays the fork.

`UnpushedTextSurvives` excepts one step, and only for the row it is applied to:
the write of a pull that found the row clean, or no row at all, when it read
(`SyncService.ts:2041`); section 12 has what that step does.  `TombstonesStay`
excepts the refusal of the row's own deletion.  That two rows never share an
identity is left to SQLite (`idx_notes_client_note_id` is unique, the insert of
a pull is an upsert on it) and is only an invariant on the way
(`NoteDeliveryProofs`).

Fairness in `notes_progress`: the five-minute interval keeps starting passes, a
started pass goes on, a request that is not lost is answered and the answer is
taken.  Nothing is assumed of the user, the peers, the debounce timers and the
faults.

Where the code does not do what its comments say: section 12.

Also met while modelling, and not checked: a push refused for lost access forks
a row that a pass has settled since; a cleanup of an orphaned copy that fails
leaves the copy, and the next pull brings it back as a note; a create whose
answer was lost is sent again and overwrites what a peer wrote in between,
because a create carries no base; two overlapping pushes of one installation can
conflict with each other; a first pull lists no tombstones, so a row deleted
elsewhere before it stays.

## 4. When sync runs

`SyncScheduler` is `syncAll`, `requestSyncAll`, `syncDictionaryNow` and
`syncSnippetsNow` for several windows.  Each window has its own guard
`syncing`; the windows share the Web Lock, the database and the stamp of the
last pass.  `run[w]` is where the run of `w` awaits (waiting for the lock, in
the spaces, the dictionary, the snippets, ...) and what its closure holds:
whether it waits for the lock, whether it began with backup consent.  What a
phase moves is the number of the last write it has read; `seen` and `asked` are
history for the properties.  Validation failures, sign-out and loss of consent
are the exits of a pass at each `hasValidatedAuthContext`.  The first probe of
the team spaces (`FirstProbe`) ignores the throttle and the run under way, but
does not wait for the lock.

| Run | What it shows | Bounds |
|---|---|---|
| `sched_passes` | `OnePass`, `PassCovers`, `DrainedOnLeave` | two windows, one write per kind, one manual request, one fault, all three consents |
| `sched_progress` | `WritesReachCloud` under fairness | two windows, one write per kind, one fault, backup consent |

Two windows are enough to contend for the lock, one write per kind to be missed
by a pass that has read before it, and the single fault may fall at any step: a
throw, a reload or a change of consent.  Windows are interchangeable, so the
safety run uses symmetry.  Deadlock is not checked there: when the writes and
faults are spent and the account has no consent, nothing has to run.

Fairness: a started run goes on (its awaits settle; a failure is a fault), the
five-minute interval keeps triggering (`WF Ambient`) and the throttle expires
(`WF Expire`).

Met while modelling, and not checked: a manual request that finds a pass of its
own window still waiting for the lock is only flagged, and the trailing
`syncAll()` is called without `waitForLock` (`SyncService.ts:564`), so it is
skipped when another window holds the lock, although the comment at `:495`
wants a manual request never dropped.  `PassCovers` is about the passes that
run.  `TypeOK` was checked with the same instance and is proved.

## 5. Dictionary

`DictionarySync` has the statements of `database.js` on `custom_dictionary` and
the three phases of `syncDictionary` (push the pending words, push the
tombstones, pull), with the user and the other devices acting at every await.
`syncDictionaryNow` takes no lock and every window has a `SyncService` of its
own, so `sync[x]` is the sync of window `x`: its phase, listed rows, awaited
request and page; the table and the cursor are shared.  Within a window
`syncing` keeps a second sync out (section 4).

The code compares words in two ways: the pull looks a word up by SQLite's
`lower()`, which folds ASCII letters only (`database.js:2072`), and the user's
changes by `toLowerCase` (`:1867`).  A word of the model is a spelling as
`lower()` sees it, and `Key[w]` what `toLowerCase` makes of it: two words with
one key differ in the case of other letters, as "Éclair" and "éclair" do.
Capitals that `lower()` hides, and the source, are left out, so whether a merge
meets `UNIQUE(word)`, which compares exactly, is a choice (`PullThrows`).  No
client turns an entry into another word, only into another spelling.  An answer
to a create is taken per row (`acks`), because the acknowledgements are awaited
one after the other.

The cloud is external, as the client relies on it: an account has one live entry
per word (that is, per key), a create is idempotent by client id, a deleted entry is first a
tombstone that a delta lists and may later be purged (then a PATCH meets 404).
A delete is hard; the answer to it removes the local row, also if the word was
restored meanwhile.  The cursor moves only when a pull is complete, to the
newest live entry listed.

| Run | What it shows | Bounds |
|---|---|---|
| `dictionary` | `TypeOK`, `OneRowPerWord`, `TombstonesQueued`, `NoOrphan`, `PendingResolves` | two windows, a plain word and two spellings of another, three row ids, two identities, four events |

An event is an act of the user or of another device, a lost request or answer, a
reload, or a sync that begins while the other window's runs.  Four of them allow
add, remove and add again beside another device, or a lost answer in an overlap;
behaviours that use the two spellings have three (`Bounded`).  The hazards are
about two rows or entries for one word, so one plain word suffices.  What each
property promises:

- `OneRowPerWord` is about words that both ways fold alike; for the others it
  does not hold (section 12).
- `TombstonesQueued` holds in every overlap of syncs.
- `NoOrphan` speaks of behaviours in which no request was lost and no two syncs
  overlapped; with an overlap it does not hold (section 12).

Fairness is of the sync of each window (`WF Sync`): syncs keep being started and
go on, as section 4 shows.  `PendingResolves` excepts a word the
cloud refuses because another live entry holds it and the cursor is past that
entry: such a row stays pending for ever unless the cloud answers otherwise.

## 6. Dictation

`Dictation` is the way of a key to the microphone through three processes that
share nothing, so every arrow is a queue:

    helper --wire--> gesture manager, status --toRenderer--> renderer
                            ^-------------toMain-----------------|

| Variable | Code |
|---|---|
| `helper`, `wire` | `cosmic-right-ctrl.c`: keys held, `candidate`, `recent`, and the lines it prints |
| `link`, `g` | `cosmicGestureManager.js` (socket, ready) and `RightCtrlGesture`: the recognizer, its three timers |
| `status`, `listening` | `windowManager.js`: `_dictationLifecycleState`, hotkey listening mode |
| `mic` | `useAudioRecording.js` and `audioManager.js`: the await a start is at, the deferred stop, `isRecording`, `isProcessing`, the recorder, `isRecordingRef` (`shown`) |
| `abandoned` | history: the cancel of the gesture reached the renderer |

`RightCtrlGesture` has the methods of the recognizer as operators that return
the next recognizer and the commands it calls for.  The renderer handles one
command to its first await in one step (`Handle`); every await of a start and of
a stop is a step of its own (`FramesPass`, `TargetCaptured`, `MicOpens`,
`Armed`, `StopFrames`, `RecorderStops`), between which commands arrive.

Abstractions.  The keys of several keyboards are taken together; a session lost
and the notice of it are one step; a timer may fire at any time while armed.
Recordings are batch recordings.  Refusals decided outside (no paste target, a
policy, a missing device) are nondeterministic within `MaxFaults`.  Two orders
are assumed because of their durations: visual-frame waits end in the order they
began, and the stop event of a recorder whose recording was cancelled comes
(within milliseconds) before the next command is handled; without the latter a
new start could run beside a late transcription.

| Run | What it shows | Bounds |
|---|---|---|
| `dictation` | `TimersMatch`, `PressedMeansHeld`, `StatusAgrees`, `MicAccounted`, `GestureEnds`, `StopIsHonoured` | three acts, one of them another key, shortcut or Escape; one fault |
| `dictation_cancel` | finding: `CancelledIsOver` fails | two acts, no fault |

Two presses are a double tap, the third act meets what they began; the fault is
a lost helper, lost input, a locked session, a change of devices, a refusal, a
dying start or listening mode, at any step.  The invariants have also been
checked with three presses beside another act.

Fairness: commands are handled, the five-minute timer fires, the awaits of a
start and of a stop settle (the frame waits are bounded by 250 ms, the recorder
fires its stop event, a microphone that does not open is `MicFails`).  Nothing
is assumed of the user, the helper and the faults.  The user may stop, so
deadlock is not checked.

Also met while modelling, on purpose in the code or without a line against it:
listening mode drops a stop of a recording under way; an idle report of an
earlier dictation ends the ownership of a newer gesture (`windowManager.js:935`),
whose recording then runs without the limit.  `GestureEnds` takes the loss of
ownership for an end and does not see the latter.

## 7. Meetings

`MeetingLifecycle` is the main process: the promise chain of
`meetingTranscriptionLifecycle.js` as a queue of tickets, and one action per
stretch between awaits of the operation whose turn it is (start: opening,
beginning, arming, rollback; stop: closing), with the session that
`meetingDetectionEngine.js` tracks.  `MeetingRecording` is the renderer over it:

| Variable | Code |
|---|---|
| `start`, `queue` | the start coordinator (`activeStart`, `pendingStarts`) and the await of the start under way |
| `barrier` | the stop barrier: the stop or teardown that holds it, and whether it cleans up or waits for main |
| `recording`, `active` | `isRecordingFlag`, `isStartingFlag`, `activeRecordingSessionId` |
| `setupMic`, `storeMic` | the stream a start has opened, and the one the store has taken over |
| `armed`, `card`, `msgs`, `resume` | automatic end, the card that offers a restart, and the messages between the two processes |
| `sess`, `tail`, `served`, `phase`, `capture`, `engine`, `userRecording` | main: see `MeetingLifecycle` |
| `dictating` | `_isDictatingToggle` of `windowManager.js`: a dictation records, whatever the meeting does |

`MeetingCapture` is what main promises about all this: one owner, and no owner
twice.  `SingleCapture` is its specification under `owner <- capture`,
`over <- ` the sessions that are done.  TLC checks it as a property of the whole
system, and TLAPS proves it of `MeetingLifecycle` under any recorder.

Abstractions.  Pre-warmed connections, the recovery of a dying microphone, the
audio, and the content of the note that a restart reads are absent.  A call of
the renderer and the synchronous part of its handler are one step; so are the
card's appearance and the awaits before it.  Main's `stop` has no failing branch: `audioTapManager.stop` never rejects
and its other awaits are caught one by one, so the outer catch
(`ipcHandlers.js:8632-8715`) could only be reached by a synchronous throw; every
await of a start may throw.  `stopRecording`
looks for a pending stop, but its callers leave none to wait for.

| Run | What it shows | Bounds |
|---|---|---|
| `meeting` | `NoOrphanCapture`, `MicAccounted`, `RecordingIsLive`, `DetectionGated`, `StartIsAccepted`, `SingleCapture`, `Released` | three sessions, one loss of the renderer |

Two sessions overlap in main (one that stops, one that starts) and the third
waits in the coordinator or comes from the restart card.  Deadlock is not
checked: when the ids are spent and nothing records, the system rests.

Fairness: main runs its queue (`WF Main`), and the awaits of the store settle,
the question for the microphone included (`WF StoreStep`).  Nothing is assumed
of the user, of the automatic end and of the loss of the renderer.

`TypeOK` was checked with the same instance and is proved.

The engine mutes meeting detection by two things: the session it tracks and the
flag `_userRecording`, which dictation writes as well
(`windowManager.js:940`, the comment at `meetingDetectionEngine.js:502`).  A
dictation that ends clears the flag during a meeting, one that begins sets it
between meetings, so the flag alone says little.  `DetectionGated` says what is
left: with main at rest the engine tracks exactly what is captured, which gates
detection by itself, and the flag is not left raised by a start that failed or
was stopped.

Met while modelling, and not checked: while a start has not yet reached
`completeStart`, and while a stop closes, the engine tracks nothing, so a
dictation that ends just then unmutes detection although the microphone of the
meeting is open (the comment at 502 covers a tracked session only); a reload of the page is neither of the two
events that `startSession` listens to (`meetingTranscriptionLifecycle.js:101`),
so main keeps the session as active and refuses later starts ("Operation in
progress"); the model has the loss of the renderer, not the reload.

## 8. Local servers

`LocalServer` is one server and its callers.  With `Kind = "parakeet"` it is
`parakeetWsServer.js`: `startupPromise` is assigned before any await, a startup
for the same model is joined and one for another model waited for (the waiter
then looks again and may find, join or wait for the startup of another waiter),
the close handler checks that the child is the current one, readiness comes from the
stderr of the child, and a warm-up follows.  With `Kind = "llama"` it is
`llamaServer.js`: start awaits the stop before it is seen by others, any startup
is joined, any child's close resets the fields, readiness is polled, and a chain
of binaries is tried (`Rungs`).  `call[c]` is the await at which the call `c`
stands; `child` the processes; `pidFile` what the reaper of the next launch
finds.  `whisperServer.js` has the shape of `llamaServer.js` in its `start`
(509-551); its generations and CPU fallback are not modelled.

An action is a task of the event loop, or a continuation that must run before
the next task (`Quiet`): a close event and the calls it releases are one after
the other with nothing in between.

Abstractions.  `exit` and `close` are one; ports, the health check, Windows
signals and the reaper's failure to kill are left out; the pid written is the
child.  A child may ignore SIGTERM for the whole grace period (`GraceElapses`),
which sets `lapsed`; the three safety properties are about runs without it,
because there the code does lose a child: the second of two stops resets the
fields after the wait, whichever child they describe by then
(`parakeetWsServer.js:593`).

| Run | What it shows | Bounds |
|---|---|---|
| `servers` | `TypeOK`, `OneServer`, `ReadyIsTrue`, `ServesRequest`, `CallsSettle` for Parakeet | three callers, two models, two children, one crash of the app |
| `servers_llama` | finding: `OneServer` fails for the llama server | three callers, two models, three children, two binaries, no crash |

Three callers let one start, one join or wait, and one stop; two children are one
and its replacement.  The counterexample of `servers_llama`: two starts for
another model find a child, both await its stop, both go on to spawn, and the
second child replaces the first in `this.process` and in the pid file.

Fairness is strong for each call (`SF Step`): its own continuations and timers
run, although children of other calls may come and go in between.  Calls that
waited for one startup go on in the order in which they began to wait, so none
always finds another one's startup (`SF` of `Rechecks` with no startup under
way).

## 9. Batch queue

`BatchQueue` is `batchQueueStore.ts` with the work main does for it.  A run
(`loop[r]`) drains the queue in the background; a cancel or a clear only takes
its id away (`current`), so it comes back late, at whichever await, to a queue
that a newer run may be draining.  `download` and `op` are the operations of
main; `downloads` and `registered` those that a cancel still reaches
(`activeUrlDownloads`, the set of the request in `uploadCancelRegistry.js`).
`withSessionRefresh` repeats an upload whose session had expired (`Repeats`).

Abstractions.  The policy check, progress and sizes are choices; the metadata
of a note is written with it; only the equality of run ids is used, so `runId`
is the run that holds it.  The set `processed` of the code is not needed: the
proof shows (`Labelled`) that an item once taken is never queued again.  The
buttons are enabled as `BatchQueueView.tsx` enables them.

| Run | What it shows | Bounds |
|---|---|---|
| `batch` | `DrainIsCurrent`, `CancelReaches`, `CancelHolds`, `TempsGo` | a file and a URL, two runs, three providers, with and without speakers, one repeat |

One stale run beside one current run is the interference; each takes one of the
two items, and the URL has a download and a temp file.  Deadlock is not checked:
the user may stop.

Fairness: the runs' continuations, and the ends of main's downloads and
operations, all of which have timeouts.

Met while modelling, and not checked: an expired upload is repeated after a
Cancel, under a request id that was already cancelled (`auth.ts:169`); a
transcription that throws does not wait for the diarizer
(`fileTranscription.ts:250`), which runs on unreachable by Cancel while its file
is deleted; a Cancel while the note is written leaves the note while the item
shows "cancelled" (the check, the call and main's write are one step, `Saves`,
so this one behaviour is outside `CancelHolds`).

## 10. Proofs

All theorems hold for every value of the constants that satisfies the named
assumptions of the modules (`NoNoteAssumption`, `PassAssumption`,
`WindowAssumption`, `ConsentAssumption`, `BoundAssumption`, ...), which TLC
evaluates in every run.

**`NoteSyncProofs`** proves `Spec => []TypeOK`.  The invariant is `TypeInv`:
`TypeOK` together with `NamesNotes`, that rows, snapshots and requests name real
notes (without it a request could write the history of an identity that does not
exist).

**`NoteDeliveryProofs`** proves `Spec => []DeliveryInv` and from it
`Spec => []SettledTextWasDelivered`.  The property alone is not inductive: a row
settles on the answer to a snapshot, so the confirmed snapshots must have been
held (`AnswersWereHeld`), and a row may take over a listed or a stored copy, so
those must have been held (`CopiesWereHeld`).  `CloudRemembers` (what was held
stays held, a cloud tombstone stays one) carries each through a step.

The module then proves the other properties of `NoteSync` from three more
invariants, each inductive beside `TypeInv`:

| Invariant | What it says | Proves |
|---|---|---|
| `DeletesInv` | a DELETE is sent, or queued, only for a row that was deleted here | `UnpushedTextSurvives` |
| `IdentityInv` | what names an identity names one in use (`NamesUsed`), so the identity of a new row or of a fork is none of them; no two rows share one; a read of the pull found at most one row (`ReadFound`) | `UnpushedTextSurvives` |
| `RevisionsInv` | the base of a linked row, of a snapshot or of a stored conflict copy is a revision the cloud has had and this installation has written, applied or shown | `NoUnseenOverwrite`, `LinkedRowsHaveCopies` |

`TombstonesStay` needs none of them: by the lemmas on what a step does to a row, a
tombstone is revived by a denied `DeleteDone` only.

The lemmas `RowWrites`, `TodoWrites`, `FlightWrites`, `PullMoves`, `CloudMoves` and
`ConflictMoves` say, once for all actions, in which ways a step can change each
variable; the invariants are then proved by variable and not by action.

**`SyncSchedulerProofs`** proves `TypeOK`, `OnePass`, `PassCovers` and
`DrainedOnLeave` for any set of windows and any number of writes, requests and
faults.  `Inv` is `TypeOK` with five parts:

| Part | Why it is needed |
|---|---|
| `LockInv` | the window in a pass is the holder: `OnePass` follows |
| `PhaseInv` | what a phase has read covers what was there when the pass got the lock, and what was asked since, unless the dirty flag is set |
| `PassCovers` | the goal: phases left behind have offered what was seen |
| `LoneInv` | a lone sync is in a phase, so it never waits for the lock nor is stamped as a pass |
| `FullInv` | only a full pass reaches the dictionary and the snippets |

`FlagsDrain` is an action property: `OnlyPhaseDoneLeaves` shows that a run
leaves a phase by `PhaseDone` or by a fault, and `PhaseInv` that what it then
offers covers what was asked.

**`DictionaryProofs`** proves `TypeOK`, `TombstonesQueued` and `OneRowPerWord` for
any windows that sync at once, any words, keys, row ids, identities, edits and
faults.  `TombstonesWait` (a removed row is pending: the guard of
`markDictionaryEntrySynced` keeps every late answer from settling it) gives the
second.  For the third, `KeysAgree` says that each identity and each row id has
had one key all along, given by two functions the proof carries through every
step:

| Part | Why it is needed |
|---|---|
| `RowsFit`, `CloudFits` | a row has the key of its id and of the identities it names, an entry that of its identity: a merge by client or cloud id brings no other key |
| `RunFits` | so have the listed copies, the pages and the awaited requests of every window, however stale |

With one key per row, a merge into a row gives it a word of the key it had, and
where both ways of folding agree that is the word it had; an inserted row has a
word that no row had when it was looked up.

It assumes of the identities that there is one (`IdentAssumption`): an empty row
has to name something.

**`DictationProofs`** proves `TypeOK`, `TimersMatch`, `MicAccounted`,
`PressedMeansHeld` and `StatusAgrees` for any number of presses and faults.  For `TimersMatch`, `Sound(g)` adds that a pending or held key is
a pressed one; one lemma per method of the recognizer shows that the method
keeps it, and every action leaves the recognizer alone or takes one method of
it.  For `MicAccounted`, `MicFacts` says what each await of a start finds: until its
microphone opens there is no recorder and no transcription, a stop under way
never meets a start past its frames, and a transcription never meets a recorder.

The other two relate two processes through the queue between them.  For
`PressedMeansHeld`, `KeyInv` says of the lines on the wire that, while the helper
follows no key, a key that the recognizer holds or is about to be told of has its
release or a reset still to come behind it.  For `StatusAgrees`, `LogInv` says
that the last report under way, or else the status, is what the renderer reported
last; `ReportFacts`, that this is its lifecycle but for a "preparing" ahead of a
start; and `Awaited`, that after "prepare" the next command is the toggle sent
with it, which starts or takes the "preparing" back.

**`MeetingProofs`** first proves of `MainSpec` (the main process under any requests)
and of `Spec` that `MeetingCapture` is implemented and that detection stays
gated (`DetectionGated`), for any number of sessions and any dictations beside
them.  `MainInv` is
`MainTypeOK` with these parts:

| Part | Why it is needed |
|---|---|
| `Tickets` | the state of a session says which of its tickets are drawn and served |
| `Ordered` | of two sessions, the later was let in after a stop of the earlier was queued, or after it had failed: without it two starts could follow each other |
| `Captured`, `Running` | the capture belongs to the start that runs or to a session whose stop is yet to run |
| `Tracked` | the engine follows the capture at each phase, and a raised flag has a capture, a start under way or a dictation behind it |

`OwnerRuns` then says that the operation whose turn it is finds no capture but
its own; every step of the store is a step of main or leaves it alone, so the results carry over.

It then proves `TypeOK`, `NoOrphanCapture`, `MicAccounted`, `RecordingIsLive` and
`StartIsAccepted` of `Spec`, for any number of sessions and losses of the
renderer.  `RecordingInv` is `MainInv` with:

| Part | Why it is needed |
|---|---|
| `Outcome(s)` | a start that main served without success is over; one that succeeded and is not to be stopped has the capture and the engine: `RecordingIsLive` follows |
| `Flow` | which flags, which await of the start and which barrier go together: `isRecordingFlag` and `activeRecordingSessionId` are read by callbacks that do not know the await |
| `Ids` | a session id is drawn once and main first hears of it from the start that runs |
| `Owned` | a session of main that nobody has asked to stop is the one the store starts, records or is about to stop: `NoOrphanCapture` and `StartIsAccepted` follow |
| `Mics` | who holds each of the two streams: `MicAccounted` follows |

**`LocalServerProofs`** proves, for `Kind = "parakeet"` and any number of
callers, models, children and crashes, `TypeOK`, `OneServer`, `ReadyIsTrue` and
`ServesRequest`.  `Held` says which call holds the startup and what the others
wait for; `Known`, that the child that lives is the one every closing call waits
for; `Loading`, which model the child of the startup under way was spawned for.
The last two hold until a child has outlived the grace period.

**`BatchQueueProofs`** proves `TypeOK`, `DrainIsCurrent`, `CancelReaches` and the
action property `CancelHolds` for any items, settings, runs and repeats.
`BatchInv` adds that one continuation is pending at a time (`Alone`), that two
runs never work on one item (`Apart`), and that an item that was taken is never
waiting again while the current run shows what it does with it (`Labelled`):
this is why the late result of a stale run cannot meet the item of the newer
one.

## 11. Model-checked only

Liveness under fairness (`UnpushedTextResolves`, `WritesReachCloud`,
`PendingResolves`, `GestureEnds`, `StopIsHonoured`, `Released`, `CallsSettle`,
`TempsGo`), which is out of the prover's reach.  No safety property of a passing
run is left to TLC alone.  `TypeOK` of `SyncScheduler`, of `Dictation`, of
`MeetingRecording` and of `BatchQueue` is proved, and no run repeats it.

## 12. What the code does against its comments

Two runs show it: `dictation_cancel` and `servers_llama` (the findings in
`PROJECT.json` quote the lines).  Three more formulas are defined and do not
hold; each is found by TLC in seconds when it is added to the configuration
named here.

| Formula | Configuration | What happens |
|---|---|---|
| `NoteSync!TombstonesStayQueued` | `NoteSync.cfg` | a debounced push does not look at `deleted_at`; its answer settles a tombstone, which the delete push then does not select (`SyncService.ts:809`, against `:1864`) |
| `NoteSync!RegistryCoversCursor` | `NoteSync.cfg` | a pull that keeps a newer local row does not renew the copy in the registry, and moves the cursor past the newer one (`SyncService.ts:2024`, against `:1912`) |
| `NoteSync!PullNeverDropsEdit` | `NoteSync.cfg` | an edit between the read and the write of a pull is overwritten and the row settled (`SyncService.ts:2041`, against `:2025`) |

The exception of `UnpushedTextSurvives` and the formula `PullNeverDropsEdit` are
about the same step.

More disagreements were met that no run shows:

- A denied deletion (`database.js:5614`) revives the row as synced with whatever
  text it holds, also text never pushed, and relies on "the mandatory snapshot
  pull" to replace it.  The pull may fail or the app may quit; then the row
  shows as synced a text the cloud does not have until the note changes there.
  If a PATCH refused for lost access forked the tombstone first, the revived row
  has no cloud copy, is marked synced, and is never pushed.
  `SettledTextWasDelivered` excepts revived rows.
- An edit of a word during its push is marked synced (`database.js:2118` guards
  `deleted_at` only, against `SyncService.ts:509`), and the new spelling waits
  for the next edit.  A word restored while its deletion is in flight is removed
  by the answer (`SyncService.ts:2416`).
- The two ways of comparing words: with "Éclair" here and "éclair" from another
  device the pull finds no row and inserts a second one.  An edit of one entry to
  the spelling of the other row then meets `UNIQUE(word)`: the merge throws, the
  pull ends without its cursor, and every later pull ends at the same entry.
- Dictionary syncs of two windows: both list a new word and send the create, one
  answer arrives, the word is removed and its tombstone deleted, and the second
  create, sent before, makes the entry anew with no row (`NoOrphan` excepts
  overlaps); a page listed by one window is applied after the other has pushed;
  a 404 or a deletion answered late clears or removes the row as it is by then.

## 13. Not modelled

| What | Why |
|---|---|
| Folders, spaces, purge, denied PATCHes and folders, parked rows | extensions of `NoteSync` |
| Snippet, conversation and transcription sync | the patterns of the dictionary and the notes |
| Streaming recordings, recovery of a dying microphone, prepared capture, the cancel button of the companion pill, cancelling a transcription | they wrap the batch recording of `Dictation`; not built |
| Reload of the page, pre-warmed connections, microphone recovery and call detection of meetings | no property of section 7 depends on them, except the reload, whose effect is described there |
| Health checks, ports, GPU choice, generations of the Whisper server, Qdrant | timers and platform around the life cycle of section 8 |
| The single-file upload, closing the window in a batch | the view's own state; a sweep after 24 hours removes what a closed window leaves |
| Account scope | its guards appear as exits of a pass in `SyncScheduler`; the binding itself is not built |
| Clipboard, hotkeys, windows | decided by the platform's tools and the desktop; no state of their own worth checking beyond the restored clipboard |
| Recognition, cleanup and language models | data the properties do not tell apart |
