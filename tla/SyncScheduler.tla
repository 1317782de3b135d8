--------------------------- MODULE SyncScheduler ---------------------------
(***************************************************************************)
(* When the sync service runs (services/SyncService.ts: syncAll,           *)
(* requestSyncAll, syncDictionaryNow, syncSnippetsNow, the team-space      *)
(* retry).  Every renderer window has a SyncService of its own; the        *)
(* windows share the Web Lock that serializes passes, the local database   *)
(* and the stamp of the last completed pass.                               *)
(*                                                                         *)
(* The guard `syncing` admits one run per window: a pass (syncAll), or a   *)
(* lone sync of the dictionary or of the snippets, which takes no lock.    *)
(* run[w] holds where the run of w awaits and its local variables.         *)
(* What a phase transfers is abstracted to the number of the last local    *)
(* write it has read and offered to the cloud.                             *)
(***************************************************************************)
EXTENDS Naturals

CONSTANTS
    Windows,        \* renderer windows
    NoWindow,       \* no window
    MaxWrites,      \* bound: local writes per kind
    MaxAsks,        \* bound: requests the throttle does not hold back
    MaxFaults,      \* bound: failed runs, reloads and changes of consent
    Consents        \* the consents the account can move between

Kinds == {"dictionary", "snippets"}

\* "backup" is canSync(), "shared" only canSyncTeamSpaces(), "none" neither
AllConsents == {"backup", "shared", "none"}

ASSUME WindowAssumption == NoWindow \notin Windows
ASSUME ConsentAssumption == /\ Consents \subseteq AllConsents
                            /\ "backup" \in Consents
ASSUME BoundAssumption == {MaxWrites, MaxAsks, MaxFaults} \subseteq Nat

VARIABLES
    run,        \* the run of each window
    pending,    \* syncAllPending
    dirty,      \* dictionaryDirty and snippetsDirty that are set
    retry,      \* the team-space retry timer is armed
    holder,     \* the window holding SYNC_ALL_LOCK
    recent,     \* lastSyncedAt is less than AUTO_SYNC_THROTTLE_MS old
    consent,
    written,    \* local writes made, per kind
    offered,    \* last write some run has offered to the cloud, per kind
    asks, faults

window == <<run, pending, dirty, retry>>
shared == <<holder, recent, consent, written, offered>>
vars == <<window, shared, asks, faults>>

Places == {"idle", "lock", "spaces", "rest", "last"} \cup Kinds
Numbers == 0..MaxWrites

\* at: where the run awaits; lone: it is a dictionary or snippet sync; waits:
\* it waits for the lock; full: it started with backup consent; probed:
\* teamSpacesReady; picked: the last write its phase has read.  History: seen,
\* the writes there when it got the lock; asked, the last write whose sync its
\* window asked for meanwhile.
Runs == [at : Places, lone : BOOLEAN, waits : BOOLEAN, full : BOOLEAN, probed : BOOLEAN,
         picked : Numbers, seen : [Kinds -> Numbers], asked : [Kinds -> Numbers]]

None == [k \in Kinds |-> 0]

Idle == [at |-> "idle", lone |-> FALSE, waits |-> FALSE, full |-> FALSE, probed |-> FALSE,
         picked |-> 0, seen |-> None, asked |-> None]

\* The one type invariant.
TypeOK ==
    /\ run \in [Windows -> Runs]
    /\ pending \in [Windows -> BOOLEAN]
    /\ dirty \in [Windows -> SUBSET Kinds]
    /\ retry \in [Windows -> BOOLEAN]
    /\ holder \in Windows \cup {NoWindow}
    /\ recent \in BOOLEAN
    /\ consent \in Consents
    /\ written \in [Kinds -> Numbers]
    /\ offered \in [Kinds -> Numbers]
    /\ asks \in 0..MaxAsks
    /\ faults \in 0..MaxFaults

Init ==
    /\ run = [w \in Windows |-> Idle]
    /\ pending = [w \in Windows |-> FALSE]
    /\ dirty = [w \in Windows |-> {}]
    /\ retry = [w \in Windows |-> FALSE]
    /\ holder = NoWindow
    /\ recent = FALSE
    /\ consent = "backup"
    /\ written = None
    /\ offered = None
    /\ asks = 0
    /\ faults = 0

Syncing(w) == run[w].at # "idle"
InPass(w) == ~run[w].lone /\ run[w].at \notin {"idle", "lock"}

Later(m, n) == IF m > n THEN m ELSE n

-----------------------------------------------------------------------------
(* Starting runs.                                                          *)

\* Mutant: only a pass the user asked for is a full pass.
NewPassManual(wait) == [Idle EXCEPT !.at = "lock", !.waits = wait,
                                    !.full = wait /\ consent = "backup"]

\* A run of syncAll that asks for the lock.
NewPass(wait) == [Idle EXCEPT !.at = "lock", !.waits = wait, !.full = consent = "backup"]

\* syncAll(wait) called from a trigger: nothing without consent, a flag while
\* the window is syncing, a pass otherwise.
SyncAll(w, wait) ==
    \/ /\ consent = "none"
       /\ UNCHANGED <<run, pending>>
    \/ /\ consent # "none"
       /\ Syncing(w)
       /\ pending' = [pending EXCEPT ![w] = TRUE]
       /\ UNCHANGED run
    \/ /\ consent # "none"
       /\ ~Syncing(w)
       /\ run' = [run EXCEPT ![w] = NewPass(wait)]
       /\ UNCHANGED pending

\* Mutant: the pending rows are those read before the phase.
EnterStale(w, r, k, rows) ==
    /\ run' = [run EXCEPT ![w] = [r EXCEPT !.at = k]]
    /\ dirty' = [dirty EXCEPT ![w] = @ \ {k}]

\* Run r enters phase k, reading the rows pending at this moment.
Enter(w, r, k, rows) ==
    /\ run' = [run EXCEPT ![w] = [r EXCEPT !.at = k, !.picked = rows]]
    /\ dirty' = [dirty EXCEPT ![w] = @ \ {k}]

\* syncDictionaryNow, syncSnippetsNow, after local write n.
SyncNow(w, k, n) ==
    \/ /\ consent # "backup"
       /\ UNCHANGED <<run, dirty>>
    \/ /\ consent = "backup"
       /\ Syncing(w)
       /\ dirty' = [dirty EXCEPT ![w] = @ \cup {k}]
       /\ run' = [run EXCEPT ![w] = [@ EXCEPT !.asked[k] = n]]
    \/ /\ consent = "backup"
       /\ ~Syncing(w)
       /\ Enter(w, [Idle EXCEPT !.lone = TRUE], k, n)

\* The user changes the dictionary or the snippets in a window.
Write(w, k) ==
    /\ written[k] < MaxWrites
    /\ written' = [written EXCEPT ![k] = @ + 1]
    /\ SyncNow(w, k, written[k] + 1)
    /\ UNCHANGED <<pending, retry, holder, recent, consent, offered, asks, faults>>

\* A manual request: it ignores the throttle and waits for the lock.
Ask(w) ==
    /\ asks < MaxAsks
    /\ asks' = asks + 1
    /\ SyncAll(w, TRUE)
    /\ UNCHANGED <<dirty, retry, shared, faults>>

\* The first probe of the team spaces, at a start, ignores the throttle and the
\* run under way but does not wait for the lock.  Whether a probe was made
\* before is not kept: MaxAsks bounds them with the manual requests.
FirstProbe(w) ==
    /\ asks < MaxAsks
    /\ asks' = asks + 1
    /\ SyncAll(w, FALSE)
    /\ UNCHANGED <<dirty, retry, shared, faults>>

\* An ambient trigger (start, focus, online, interval).  Backed-off team-only
\* passes are ambient triggers that do not come.
Ambient(w) ==
    /\ ~Syncing(w)
    /\ ~recent
    /\ SyncAll(w, FALSE)
    /\ UNCHANGED <<dirty, retry, shared, asks, faults>>

\* The team-space retry timer fires.
RetryFires(w) ==
    /\ retry[w]
    /\ retry' = [retry EXCEPT ![w] = FALSE]
    /\ SyncAll(w, TRUE)
    /\ UNCHANGED <<dirty, shared, asks, faults>>

-----------------------------------------------------------------------------
(* A pass.                                                                 *)

MoveTo(w, place) == run' = [run EXCEPT ![w] = [@ EXCEPT !.at = place]]
EndRun(w) == run' = [run EXCEPT ![w] = Idle]

\* The end of syncAll: syncing is reset in `finally`, then a flagged request
\* runs again, without waiting for the lock.
EndPass(w) ==
    /\ pending' = [pending EXCEPT ![w] = FALSE]
    /\ IF pending[w] /\ consent # "none" THEN run' = [run EXCEPT ![w] = NewPass(FALSE)]
                                         ELSE EndRun(w)

\* The lock callback returns.
Leave(w) ==
    /\ holder' = NoWindow
    /\ EndPass(w)

GetLock(w) ==
    /\ run[w].at = "lock"
    /\ holder = NoWindow
    /\ holder' = w
    /\ run' = [run EXCEPT ![w] = [@ EXCEPT !.at = "spaces", !.seen = written]]
    /\ UNCHANGED <<pending, dirty, retry, recent, consent, written, offered, asks, faults>>

\* Mutant: the lock callback does not look at the lock it was given.
SkipLockIgnored(w) ==
    /\ run[w].at = "lock"
    /\ holder # NoWindow
    /\ ~run[w].waits
    /\ MoveTo(w, "spaces")
    /\ UNCHANGED <<pending, dirty, retry, shared, asks, faults>>

\* ifAvailable: the callback gets no lock and returns.
SkipLock(w) ==
    /\ run[w].at = "lock"
    /\ holder # NoWindow
    /\ ~run[w].waits
    /\ EndPass(w)
    /\ UNCHANGED <<dirty, retry, shared, asks, faults>>

\* syncSpaces has answered; its probe of the team spaces may have failed.
SpacesDone(w) ==
    /\ run[w].at = "spaces"
    /\ \/ /\ consent = "none"
          /\ Leave(w)
       \/ /\ consent # "none"
          /\ \E ok \in BOOLEAN : run' = [run EXCEPT ![w] = [@ EXCEPT !.at = "rest", !.probed = ok]]
          /\ UNCHANGED <<pending, holder>>
    /\ UNCHANGED <<dirty, retry, recent, consent, written, offered, asks, faults>>

\* Folders, notes, conversations and transcriptions are done; a team-only
\* pass has no dictionary or snippet phase.
RestDone(w) ==
    /\ run[w].at = "rest"
    /\ \/ /\ consent = "none"
          /\ Leave(w)
          /\ UNCHANGED dirty
       \/ /\ consent # "none"
          /\ run[w].full
          /\ Enter(w, run[w], "dictionary", written["dictionary"])
          /\ UNCHANGED <<pending, holder>>
       \/ /\ consent # "none"
          /\ ~run[w].full
          /\ MoveTo(w, "last")
          /\ UNCHANGED <<pending, holder, dirty>>
    /\ UNCHANGED <<retry, recent, consent, written, offered, asks, faults>>

\* What follows phase k in a pass: the snippets, then the analytics.
AfterPhase(w, k) ==
    \/ /\ k = "dictionary"
       /\ Enter(w, run[w], "snippets", written["snippets"])
       /\ UNCHANGED <<pending, holder>>
    \/ /\ k = "snippets"
       /\ consent # "none"
       /\ MoveTo(w, "last")
       /\ UNCHANGED <<pending, holder, dirty>>
    \/ /\ k = "snippets"
       /\ consent = "none"
       /\ Leave(w)
       /\ UNCHANGED dirty

\* Mutant: a phase runs once.
AgainNever(w, k) == FALSE

\* Whether the do-while of phase k goes round again.
Again(w, k) == k \in dirty[w]

\* One round of phase k: its rows are offered; it goes round again while its
\* flag is set.  A lone run ends after its phase and drains nothing else.
PhaseDone(w, k) ==
    /\ run[w].at = k
    /\ offered' = [offered EXCEPT ![k] = Later(@, run[w].picked)]
    /\ \/ /\ Again(w, k)
          /\ Enter(w, run[w], k, written[k])
          /\ UNCHANGED <<pending, holder>>
       \/ /\ ~Again(w, k)
          /\ run[w].lone
          /\ EndRun(w)
          /\ UNCHANGED <<pending, holder, dirty>>
       \/ /\ ~Again(w, k)
          /\ ~run[w].lone
          /\ AfterPhase(w, k)
    /\ UNCHANGED <<retry, recent, consent, written, asks, faults>>

\* The analytics are done: the retry is cancelled or armed and the pass stamped.
LastDone(w) ==
    /\ run[w].at = "last"
    /\ IF consent = "none"
         THEN UNCHANGED <<retry, recent>>
         ELSE /\ retry' = [retry EXCEPT ![w] = ~run[w].probed]
              /\ recent' = TRUE
    /\ Leave(w)
    /\ UNCHANGED <<dirty, consent, written, offered, asks, faults>>

-----------------------------------------------------------------------------
(* Time and faults.                                                        *)

\* AUTO_SYNC_THROTTLE_MS have passed since the stamp.
Expire ==
    /\ recent
    /\ recent' = FALSE
    /\ UNCHANGED <<window, holder, consent, written, offered, asks, faults>>

Fault ==
    /\ faults < MaxFaults
    /\ faults' = faults + 1

\* A pass throws.  An error of the authentication context returns at once and
\* leaves a flagged request where it is.
PassThrows(w) ==
    /\ Fault
    /\ InPass(w)
    /\ holder' = NoWindow
    /\ \/ /\ EndRun(w)
          /\ UNCHANGED <<pending, retry>>
       \/ /\ retry' = [retry EXCEPT ![w] = @ \/ (~run[w].probed /\ consent # "none")]
          /\ EndPass(w)
    /\ UNCHANGED <<dirty, recent, consent, written, offered, asks>>

LoneThrows(w) ==
    /\ Fault
    /\ run[w].lone
    /\ EndRun(w)
    /\ UNCHANGED <<pending, dirty, retry, shared, asks>>

\* A window is reloaded: its run, flags and timer are gone, its lock is free.
Reload(w) ==
    /\ Fault
    /\ EndRun(w)
    /\ pending' = [pending EXCEPT ![w] = FALSE]
    /\ dirty' = [dirty EXCEPT ![w] = {}]
    /\ retry' = [retry EXCEPT ![w] = FALSE]
    /\ holder' = IF holder = w THEN NoWindow ELSE holder
    /\ UNCHANGED <<recent, consent, written, offered, asks>>

\* Sign-in, sign-out, or the backup toggle.
ChangeConsent ==
    /\ Fault
    /\ consent' \in Consents \ {consent}
    /\ UNCHANGED <<window, holder, recent, written, offered, asks>>

Run(w) ==
    \/ GetLock(w)
    \/ SkipLock(w)
    \/ SpacesDone(w)
    \/ RestDone(w)
    \/ \E k \in Kinds : PhaseDone(w, k)
    \/ LastDone(w)

Next ==
    \/ \E w \in Windows :
          \/ \E k \in Kinds : Write(w, k)
          \/ Ask(w)
          \/ FirstProbe(w)
          \/ Ambient(w)
          \/ RetryFires(w)
          \/ Run(w)
          \/ PassThrows(w)
          \/ LoneThrows(w)
          \/ Reload(w)
    \/ Expire
    \/ ChangeConsent

Spec == Init /\ [][Next]_vars

\* A started run goes on, the interval keeps asking, the throttle expires.
Fairness ==
    /\ \A w \in Windows : WF_vars(Run(w)) /\ WF_vars(Ambient(w))
    /\ WF_vars(Expire)

FairSpec == Spec /\ Fairness

-----------------------------------------------------------------------------
(* Properties.                                                             *)

\* The Web Lock serializes the passes of all windows, whatever requests were
\* flagged, skipped or rerun.
OnePass == \A v, w \in Windows : InPass(v) /\ InPass(w) => v = w

\* A full pass that has left a phase has offered every write of that kind
\* made before it got the lock, whatever runs beside it: the stamp of the last
\* sync never hides a write that was there when the pass began.
PassCovers ==
    \A w \in Windows :
        InPass(w) /\ run[w].full =>
            /\ run[w].at \in {"snippets", "last"} =>
                   offered["dictionary"] >= run[w].seen["dictionary"]
            /\ run[w].at = "last" => offered["snippets"] >= run[w].seen["snippets"]

\* A run that leaves a phase has offered every write its own window asked to
\* sync while it ran ("re-run until clean"), unless it failed.
DrainedOnLeave ==
    [][\A w \in Windows, k \in Kinds :
          run[w].at = k /\ run'[w].at # k /\ faults' = faults =>
              offered'[k] >= run[w].asked[k]]_vars

\* While backup consent stays, every write is eventually offered to the
\* cloud, whatever was flagged, skipped, thrown or reloaded.
WritesReachCloud ==
    \A k \in Kinds : \A n \in 1..MaxWrites : written[k] >= n ~> offered[k] >= n

=============================================================================
