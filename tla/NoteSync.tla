---------------------------- MODULE NoteSync ----------------------------
(* One installation keeping its notes in step with the cloud: the note    *)
(* half of src/src/services/SyncService.ts over the rows of NoteRow.       *)
(*                                                                         *)
(* The installation runs at most one sync pass (SYNC_ALL_LOCK serialises   *)
(* its windows): push the pending rows, push the tombstones, pull.  Beside *)
(* it, and outside that lock, debounced pushes of single notes run in      *)
(* their own slots.  Every await is a place where the user, the other      *)
(* channel, the cloud or a peer may act, so a request is three steps: it   *)
(* leaves with a snapshot of the row, the cloud answers, the answer is     *)
(* applied to the row as it is by then.                                    *)
(*                                                                         *)
(* The cloud and the peers are external: they are modelled by what the     *)
(* client relies on (compare-and-set on base_updated_at, creates that are  *)
(* idempotent by client id, tombstones in delta pages only).               *)
EXTENDS NoteRow, FiniteSets

CONSTANTS
    Id,             \* local numeric row ids
    Slot,           \* concurrent executions of the debounced push
    Pass,           \* the channel of the sync pass
    Prompt,         \* notes whose local writes arm the debounced push
    Foreign,        \* identities of notes that peers may create
    ForkThreshold,  \* UPDATE_404_FORK_THRESHOLD
    MaxActs,        \* bound on what the user and the peers do
    MaxFaults       \* bound on lost requests, lost answers and restarts

ASSUME IdAssumption == Id \subseteq Nat
ASSUME PassAssumption == Pass \notin Slot
ASSUME BoundAssumption ==
    /\ Prompt \subseteq Note
    /\ Foreign \subseteq Note
    /\ ForkThreshold \in Nat
    /\ MaxActs \in Nat
    /\ MaxFaults \in Nat

Channel == Slot \cup {Pass}

VARIABLES
    row,       \* the notes table
    origin,    \* how an identity came to be
    conflict,  \* noteConflictRegistry: the cloud copy the user must judge
    streak,    \* consecutive update-404s per identity
    cursor,    \* lastSyncedAt.notes, 0 = none
    armed,     \* rows whose debounce timer is running
    flight,    \* the request each channel has outstanding for a row
    pc,        \* where the pass is
    denied,    \* the pass met a denied deletion and owes a snapshot pull
    todo,      \* the snapshots the current push phase still has to send
    started,   \* syncStartedAt of the current pull
    page,      \* the listed cloud rows not yet applied
    reading,   \* the identity whose row the pull has read, if any
    readIds,   \* the id that read found, if any
    readRow,   \* the row that read returned
    cloud,     \* the server's row of each identity
    clock,     \* one clock for every party
    acts, faults,
    held,      \* history: the texts the cloud has held
    seen       \* history: revisions this installation wrote, applied or showed

userVars == <<row, origin, conflict, streak, armed>>
passVars == <<pc, denied, todo, started, page, reading, readIds, readRow, cursor>>
cloudVars == <<cloud, held>>
boundVars == <<acts, faults>>
vars == <<row, origin, conflict, streak, cursor, armed, flight, pc, denied,
          todo, started, page, reading, readIds, readRow, cloud, clock, acts,
          faults, held, seen>>

Op == {"none", "post", "patch", "delete", "cleanup"}
Reply == {"none", "ok", "conflict", "gone", "revoked", "denied", "fail"}
Flight == [op : Op, reply : Reply, snap : Row, copy : CloudRow]

NoFlight == [op |-> "none", reply |-> "none", snap |-> NoRow, copy |-> NoCloud]

Request(op, snap) ==
    [op |-> op, reply |-> "none", snap |-> snap, copy |-> NoCloud]

PC == {"idle", "select", "push", "delete", "pull", "apply"}

\* The one type invariant.
TypeOK ==
    /\ row \in [Id -> Row]
    /\ origin \in [Note -> {"unused", "shared", "private"}]
    /\ conflict \in [Note -> CloudRow]
    /\ streak \in [Note -> Nat]
    /\ cursor \in Nat
    /\ armed \in [Id -> BOOLEAN]
    /\ flight \in [Id -> [Channel -> Flight]]
    /\ pc \in PC
    /\ denied \in BOOLEAN
    /\ todo \in [Id -> Row]
    /\ started \in Nat
    /\ page \in [Note -> CloudRow]
    /\ reading \in SUBSET Note
    /\ readIds \in SUBSET Id
    /\ readRow \in Row
    /\ cloud \in [Note -> CloudRow]
    /\ clock \in Nat \ {0}
    /\ acts \in Nat
    /\ faults \in Nat
    /\ held \in SUBSET (Note \X Nat)
    /\ seen \in SUBSET (Note \X Nat)

Init ==
    /\ row = [i \in Id |-> NoRow]
    /\ origin = [n \in Note |-> "unused"]
    /\ conflict = [n \in Note |-> NoCloud]
    /\ streak = [n \in Note |-> 0]
    /\ cursor = 0
    /\ armed = [i \in Id |-> FALSE]
    /\ flight = [i \in Id |-> [ch \in Channel |-> NoFlight]]
    /\ pc = "idle"
    /\ denied = FALSE
    /\ todo = [i \in Id |-> NoRow]
    /\ started = 0
    /\ page = [n \in Note |-> NoCloud]
    /\ reading = {}
    /\ readIds = {}
    /\ readRow = NoRow
    /\ cloud = [n \in Note |-> NoCloud]
    /\ clock = 1
    /\ acts = 0
    /\ faults = 0
    /\ held = {}
    /\ seen = {}

RowsOf(n) == {i \in Id : Exists(row[i]) /\ row[i].cid = n}

\* AUTOINCREMENT hands the numeric ids out in order
NextId(i) == \A j \in Id : row[j].life = "unused" => i <= j

Conflicted(n) == conflict[n].life # "none"

Act == acts < MaxActs /\ acts' = acts + 1 /\ clock' = clock + 1
Fault == faults < MaxFaults /\ faults' = faults + 1
------------------------------------------------------------------------
(* The user *)

CreateNote(i, n) ==
    /\ row[i].life = "unused" /\ NextId(i)
    /\ origin[n] = "unused"
    /\ Act
    /\ row' = [row EXCEPT ![i] = SavedNote(n, clock + 1)]
    /\ origin' = [origin EXCEPT ![n] = "shared"]
    /\ armed' = [armed EXCEPT ![i] = n \in Prompt]
    /\ UNCHANGED <<conflict, streak, flight, faults, cloudVars, passVars, seen>>

EditNote(i) ==
    /\ row[i].life = "live"
    /\ Act
    /\ row' = [row EXCEPT ![i] = EditedNote(@, clock + 1)]
    /\ armed' = [armed EXCEPT ![i] = @ \/ row[i].cid \in Prompt]
    /\ UNCHANGED <<origin, conflict, streak, flight, faults, cloudVars,
                   passVars, seen>>

(* Deleting a note leaves a debounce timer running. *)
DeleteNote(i) ==
    /\ row[i].life = "live"
    /\ Act
    /\ row' = [row EXCEPT ![i] = DeletedNote(@, clock + 1)]
    /\ UNCHANGED <<origin, conflict, streak, armed, flight, faults, cloudVars,
                   passVars, seen>>

(* "Keep" on the conflict banner: the next push overwrites the revision   *)
(* the banner showed.                                                      *)
KeepConflict(i) ==
    LET n == row[i].cid IN
    /\ row[i].life = "live"
    /\ Conflicted(n)
    /\ row' = [row EXCEPT ![i] = KeptNote(@, conflict[n].at)]
    /\ conflict' = [conflict EXCEPT ![n] = NoCloud]
    /\ UNCHANGED <<origin, streak, armed, flight, clock, boundVars, cloudVars,
                   passVars, seen>>

(* "Refresh" on the conflict banner: the stored copy replaces the local   *)
(* text.                                                                   *)
RefreshConflict(i) ==
    LET n == row[i].cid IN
    /\ row[i].life = "live"
    /\ Conflicted(n)
    /\ row' = [row EXCEPT ![i] = UpsertedNote(@, conflict[n])]
    /\ conflict' = [conflict EXCEPT ![n] = NoCloud]
    /\ UNCHANGED <<origin, streak, armed, flight, clock, boundVars, cloudVars,
                   passVars, seen>>
------------------------------------------------------------------------
(* Sending *)

(* pushNote: the timer fires and the row as it is now is sent, a tombstone *)
(* included.  A row that is gone or awaits the user's choice is not sent.  *)
DebouncedPush(i, s) ==
    /\ armed[i]
    /\ flight[i][s].op = "none"
    /\ armed' = [armed EXCEPT ![i] = FALSE]
    /\ flight' = IF ~Exists(row[i]) \/ Conflicted(row[i].cid) THEN flight
                 ELSE [flight EXCEPT ![i][s] =
                         Request(IF row[i].linked THEN "patch" ELSE "post",
                                 row[i])]
    /\ UNCHANGED <<row, origin, conflict, streak, clock, boundVars, cloudVars,
                   passVars, seen>>

PassFree == \A i \in Id : flight[i][Pass].op = "none"

\* pushPendingNotes reads the pending rows ...
StartPass ==
    /\ pc = "idle"
    /\ pc' = "select"
    /\ todo' = [i \in Id |-> IF PendingPush(row[i]) THEN row[i] ELSE NoRow]
    /\ UNCHANGED <<userVars, flight, denied, cursor, started, page, reading,
                   readIds, readRow, cloudVars, clock, boundVars, seen>>

(* ... and, awaits later, the conflict registry: a row whose conflict the  *)
(* user has not judged is not sent.                                        *)
SkipConflicted ==
    /\ pc = "select"
    /\ pc' = "push"
    /\ todo' = [i \in Id |-> IF todo[i].life = "live" /\ Conflicted(todo[i].cid)
                             THEN NoRow ELSE todo[i]]
    /\ UNCHANGED <<userVars, flight, denied, cursor, started, page, reading,
                   readIds, readRow, cloudVars, clock, boundVars, seen>>

(* Linked rows are PATCHed one by one before the fresh rows are created.   *)
(* A batch of creates is modelled as one request per row.                  *)
PassPush(i) ==
    /\ pc = "push"
    /\ PassFree
    /\ todo[i].life = "live"
    /\ todo[i].linked \/ \A j \in Id : ~todo[j].linked
    /\ flight' = [flight EXCEPT ![i][Pass] =
                    Request(IF todo[i].linked THEN "patch" ELSE "post", todo[i])]
    /\ todo' = [todo EXCEPT ![i] = NoRow]
    /\ UNCHANGED <<userVars, pc, cursor, started, page, reading, readIds,
                   readRow, denied, cloudVars, clock, boundVars, seen>>

PhaseDone == PassFree /\ \A i \in Id : todo[i] = NoRow

\* pushNoteDeletes reads the tombstones
StartDeletes ==
    /\ pc = "push"
    /\ PhaseDone
    /\ pc' = "delete"
    /\ todo' = [i \in Id |-> IF PendingDelete(row[i]) THEN row[i] ELSE NoRow]
    /\ UNCHANGED <<userVars, flight, cursor, started, page, reading, readIds,
                   readRow, denied, cloudVars, clock, boundVars, seen>>

PassDelete(i) ==
    /\ pc = "delete"
    /\ PassFree
    /\ todo[i].life = "tomb"
    /\ flight' = [flight EXCEPT ![i][Pass] = Request("delete", todo[i])]
    /\ todo' = [todo EXCEPT ![i] = NoRow]
    /\ UNCHANGED <<userVars, pc, cursor, started, page, reading, readIds,
                   readRow, denied, cloudVars, clock, boundVars, seen>>

(* Either the snapshot pull of restoreDeniedRows, or the pull of the pass. *)
StartPull ==
    /\ pc = "delete"
    /\ PhaseDone
    /\ pc' = "pull"
    /\ started' = clock
    /\ UNCHANGED <<userVars, flight, todo, cursor, page, reading, readIds,
                   readRow, denied, cloudVars, clock, boundVars, seen>>
------------------------------------------------------------------------
(* The cloud (external) *)

Answer(i, ch, reply, copy) ==
    flight' = [flight EXCEPT ![i][ch].reply = reply, ![i][ch].copy = copy]

(* A write of this installation: the cloud stamps it. *)
Store(i, ch, n, life, body) ==
    LET c == [life |-> life, body |-> body, at |-> clock + 1] IN
    /\ cloud' = [cloud EXCEPT ![n] = c]
    /\ clock' = clock + 1
    /\ held' = held \cup {<<n, body>>}
    /\ Answer(i, ch, "ok", c)

Refuse(i, ch, reply, copy) ==
    /\ Answer(i, ch, reply, copy)
    /\ UNCHANGED <<cloudVars, clock>>

Waiting(i, ch, op) == flight[i][ch].op = op /\ flight[i][ch].reply = "none"

(* PATCH: refused with the current copy when a write newer than the base  *)
(* has landed; without a base the last write wins.                         *)
ServePatch(i, ch) ==
    LET s == flight[i][ch].snap
        c == cloud[s.cid]
    IN
    /\ Waiting(i, ch, "patch")
    /\ \/ /\ c.life = "live" /\ s.base # 0 /\ c.at > s.base
          /\ Refuse(i, ch, "conflict", c)
       \/ /\ c.life = "live" /\ ~(s.base # 0 /\ c.at > s.base)
          /\ Store(i, ch, s.cid, "live", s.body)
       \/ /\ c.life # "live"
          /\ Refuse(i, ch, "gone", NoCloud)
       \/ /\ c.life = "lost"
          /\ Refuse(i, ch, "revoked", NoCloud)
    /\ UNCHANGED <<userVars, passVars, boundVars, seen>>

(* POST: idempotent by client id; a tombstone is returned as it is, and    *)
(* the identity of a note out of this account's reach is refused.          *)
ServePost(i, ch) ==
    LET s == flight[i][ch].snap
        c == cloud[s.cid]
    IN
    /\ Waiting(i, ch, "post")
    /\ \/ /\ c.life \in {"none", "live"}
          /\ Store(i, ch, s.cid, "live", s.body)
       \/ /\ c.life = "tomb"
          /\ Refuse(i, ch, "ok", c)
       \/ /\ c.life = "lost"
          /\ Refuse(i, ch, "revoked", NoCloud)
    /\ UNCHANGED <<userVars, passVars, boundVars, seen>>

(* DELETE: only the owner or an admin may delete a note others have.       *)
ServeDelete(i, ch) ==
    LET n == flight[i][ch].snap.cid IN
    /\ Waiting(i, ch, "delete") \/ Waiting(i, ch, "cleanup")
    /\ \/ /\ cloud[n].life = "live"
          /\ Store(i, ch, n, "tomb", cloud[n].body)
       \/ /\ cloud[n].life # "live"
          /\ Refuse(i, ch, "gone", NoCloud)
       \/ /\ cloud[n].life = "live" /\ origin[n] = "shared"
          /\ flight[i][ch].op = "delete"
          /\ Refuse(i, ch, "denied", NoCloud)
    /\ UNCHANGED <<userVars, passVars, boundVars, seen>>

(* The request never arrives, or its answer is lost on the way back. *)
LoseRequest(i, ch) ==
    /\ flight[i][ch].op # "none"
    /\ flight[i][ch].reply \in {"none", "ok"}
    /\ Fault
    /\ Answer(i, ch, "fail", NoCloud)
    /\ UNCHANGED <<userVars, passVars, cloudVars, clock, acts, seen>>

PeerCreate(n) ==
    /\ n \in Foreign
    /\ origin[n] = "unused" /\ cloud[n].life = "none"
    /\ Act
    /\ origin' = [origin EXCEPT ![n] = "shared"]
    /\ cloud' = [cloud EXCEPT ![n] = [life |-> "live", body |-> clock + 1,
                                      at |-> clock + 1]]
    /\ held' = held \cup {<<n, clock + 1>>}
    /\ UNCHANGED <<row, conflict, streak, armed, flight, passVars, faults, seen>>

PeerWrite(n) ==
    /\ cloud[n].life = "live"
    /\ origin[n] = "shared"
    /\ Act
    /\ cloud' = [cloud EXCEPT ![n].body = clock + 1, ![n].at = clock + 1]
    /\ held' = held \cup {<<n, clock + 1>>}
    /\ UNCHANGED <<userVars, flight, passVars, faults, seen>>

(* Another member deletes the note, or moves it to a space this account   *)
(* cannot see.                                                             *)
PeerRemove(n, life) ==
    /\ cloud[n].life = "live"
    /\ origin[n] = "shared"
    /\ Act
    /\ cloud' = [cloud EXCEPT ![n].life = life, ![n].at = clock + 1]
    /\ UNCHANGED <<userVars, flight, passVars, held, faults, seen>>
------------------------------------------------------------------------
(* Applying an answer to a push *)

Free(i, ch) == flight' = [flight EXCEPT ![i][ch] = NoFlight]

Note404(ch, n, k) == IF ch = Pass THEN [streak EXCEPT ![n] = k] ELSE streak

(* forkNoteToPrivate: the row continues under a fresh identity. *)
Fork(ids) ==
    \E m \in Note :
        /\ origin[m] = "unused"
        /\ origin' = [origin EXCEPT ![m] = "private"]
        /\ row' = [i \in Id |-> IF i \in ids /\ Exists(row[i])
                                THEN ForkedNote(row[i], m, clock + 1)
                                ELSE row[i]]
        /\ clock' = clock + 1

SetRow(i, r) ==
    /\ row' = [row EXCEPT ![i] = r]
    /\ UNCHANGED <<origin, clock>>

PatchSettled(i, ch) ==
    LET f == flight[i][ch] IN
    /\ f.op = "patch" /\ f.reply = "ok"
    /\ SetRow(i, SettledNote(row[i], f.snap, f.copy.at))
    /\ streak' = Note404(ch, f.snap.cid, 0)
    /\ seen' = seen \cup {<<f.snap.cid, f.copy.at>>}
    /\ Free(i, ch)
    /\ UNCHANGED <<conflict, armed, passVars, cloudVars, boundVars>>

(* 409: the row stays as it is and waits for Keep or Refresh. *)
PatchConflicted(i, ch) ==
    LET f == flight[i][ch] IN
    /\ f.op = "patch" /\ f.reply = "conflict"
    /\ conflict' = [conflict EXCEPT ![f.snap.cid] = f.copy]
    /\ streak' = Note404(ch, f.snap.cid, 0)
    /\ seen' = seen \cup {<<f.snap.cid, f.copy.at>>}
    /\ Free(i, ch)
    /\ UNCHANGED <<row, origin, clock, armed, passVars, cloudVars, boundVars>>

(* 404: left to the pull to explain; a pass that has met it ForkThreshold *)
(* times already forks the row.                                            *)
PatchGone(i, ch) ==
    LET f == flight[i][ch]
        n == f.snap.cid
    IN
    /\ f.op = "patch" /\ f.reply = "gone"
    /\ \/ /\ ch = Pass /\ streak[n] >= ForkThreshold
          /\ Fork({i})
          /\ streak' = [streak EXCEPT ![n] = 0]
       \/ /\ ~(ch = Pass /\ streak[n] >= ForkThreshold)
          /\ SetRow(i, ErroredNote(row[i]))
          /\ streak' = Note404(ch, n, streak[n] + 1)
    /\ Free(i, ch)
    /\ UNCHANGED <<conflict, armed, passVars, cloudVars, boundVars, seen>>

(* handleRevokedNotePush, of a PATCH or of a create (pushFreshNote).       *)
PushRevoked(i, ch) ==
    LET f == flight[i][ch] IN
    /\ f.op \in {"patch", "post"} /\ f.reply = "revoked"
    /\ Fork({i})
    /\ streak' = Note404(ch, f.snap.cid, 0)
    /\ Free(i, ch)
    /\ UNCHANGED <<conflict, armed, passVars, cloudVars, boundVars, seen>>

(* Any other failure: the pass marks the row, the debounced push only     *)
(* logs.                                                                   *)
PushFailed(i, ch) ==
    LET f == flight[i][ch] IN
    /\ f.op \in {"patch", "post"} /\ f.reply = "fail"
    /\ SetRow(i, IF ch = Pass THEN ErroredNote(row[i]) ELSE row[i])
    /\ Free(i, ch)
    /\ UNCHANGED <<conflict, armed, streak, passVars, cloudVars, boundVars, seen>>

(* acknowledgeNoteCreate: the row no longer has the identity the create   *)
(* was sent for and no other row does.                                     *)
Orphaned(i, snap) ==
    Exists(row[i]) /\ row[i].cid # snap.cid /\ RowsOf(snap.cid) = {}

(* resolveCloudNoteCreate: link the row, or delete an orphaned copy. *)
PostAcknowledged(i, ch) ==
    LET f == flight[i][ch] IN
    /\ f.op = "post" /\ f.reply = "ok"
    /\ SetRow(i, AdoptedNote(row[i], f.snap, f.copy.at))
    /\ flight' = [flight EXCEPT ![i][ch] =
                    IF Orphaned(i, f.snap) THEN Request("cleanup", f.snap)
                    ELSE NoFlight]
    /\ seen' = seen \cup {<<f.snap.cid, f.copy.at>>}
    /\ UNCHANGED <<conflict, armed, streak, passVars, cloudVars, boundVars>>

CleanupDone(i, ch) ==
    /\ flight[i][ch].op = "cleanup" /\ flight[i][ch].reply # "none"
    /\ Free(i, ch)
    /\ UNCHANGED <<userVars, passVars, cloudVars, clock, boundVars, seen>>

(* A confirmed delete removes the row, a failed one leaves the tombstone,  *)
(* a denied one brings the row back and owes a snapshot pull.              *)
DeleteDone(i, ch) ==
    LET f == flight[i][ch]
        n == f.snap.cid
    IN
    /\ f.op = "delete" /\ f.reply # "none"
    /\ \/ /\ f.reply = "fail"
          /\ UNCHANGED <<row, conflict, streak, denied>>
       \/ /\ f.reply = "denied"
          /\ row' = [row EXCEPT ![i] = RestoredNote(@)]
          /\ streak' = [streak EXCEPT ![n] = 0]
          /\ denied' = TRUE
          /\ UNCHANGED conflict
       \/ /\ f.reply \notin {"fail", "denied"}
          /\ row' = [row EXCEPT ![i] = HardDeletedNote(@)]
          /\ conflict' = [conflict EXCEPT ![n] = NoCloud]
          /\ streak' = IF f.reply = "gone" THEN [streak EXCEPT ![n] = 0]
                       ELSE streak
          /\ UNCHANGED denied
    /\ Free(i, ch)
    /\ UNCHANGED <<origin, clock, armed, pc, todo, started, page, reading,
                   readIds, readRow, cursor, cloudVars, boundVars, seen>>
------------------------------------------------------------------------
(* The pull *)

(* A first pull and a snapshot pull see live rows only; a delta pull sees  *)
(* tombstones and stubs too, from the cursor on.                           *)
Listed(n) ==
    IF cursor = 0 \/ denied THEN cloud[n].life = "live"
    ELSE cloud[n].life # "none" /\ cloud[n].at >= cursor

PullList ==
    /\ pc = "pull"
    /\ pc' = "apply"
    /\ page' = [n \in Note |-> IF Listed(n) THEN cloud[n] ELSE NoCloud]
    /\ UNCHANGED <<userVars, flight, todo, cursor, started, reading, readIds,
                   readRow, denied, cloudVars, clock, boundVars, seen>>

(* After a snapshot pull the pass goes on to its own pull, which restarts  *)
(* from the cursor.                                                        *)
PullOver == pc' = (IF denied THEN "delete" ELSE "idle") /\ denied' = FALSE

(* A pull that fails leaves the cursor. *)
PullFailed ==
    /\ pc = "pull"
    /\ Fault
    /\ PullOver
    /\ UNCHANGED <<userVars, flight, todo, cursor, started, page, reading,
                   readIds, readRow, cloudVars, clock, acts, seen>>

\* getNoteByClientId
PullRead(n) ==
    /\ pc = "apply"
    /\ reading = {}
    /\ page[n].life # "none"
    /\ reading' = {n}
    /\ readIds' = RowsOf(n)
    /\ readRow' = IF RowsOf(n) = {} THEN NoRow
                  ELSE row[CHOOSE i \in RowsOf(n) : TRUE]
    /\ UNCHANGED <<userVars, flight, pc, todo, cursor, started, page,
                   denied, cloudVars, clock, boundVars, seen>>

Decide(n) == pc = "apply" /\ reading = {n}

Applied(n) ==
    /\ page' = [page EXCEPT ![n] = NoCloud]
    /\ reading' = {}
    /\ readIds' = {}
    /\ readRow' = NoRow
    /\ UNCHANGED <<pc, denied, todo, cursor, started>>

Known == readIds # {}

Settle(n) == conflict' = [conflict EXCEPT ![n] = NoCloud]

HardDeleteRead ==
    row' = [i \in Id |-> IF i \in readIds THEN HardDeletedNote(row[i]) ELSE row[i]]

(* access_removed stub over a clean copy, or a tombstone over any: the    *)
(* local row goes.                                                         *)
PullRemoves(n) ==
    /\ Decide(n)
    /\ \/ page[n].life = "lost" /\ ~Dirty(readRow)
       \/ page[n].life = "tomb"
    /\ IF Known
       THEN HardDeleteRead /\ Settle(n) /\ streak' = [streak EXCEPT ![n] = 0]
       ELSE UNCHANGED <<row, conflict, streak>>
    /\ Applied(n)
    /\ UNCHANGED <<origin, armed, flight, cloudVars, clock, boundVars, seen>>

(* access_removed stub over unpushed work: it survives as a fork. *)
PullForks(n) ==
    /\ Decide(n)
    /\ page[n].life = "lost" /\ Dirty(readRow)
    /\ Fork(readIds)
    /\ Settle(n)
    /\ streak' = [streak EXCEPT ![n] = 0]
    /\ Applied(n)
    /\ UNCHANGED <<armed, flight, cloudVars, boundVars, seen>>

Wins(n) ==
    /\ page[n].life = "live"
    /\ readRow.life # "tomb"
    /\ ~Known \/ CloudNewer(page[n], readRow)

(* A local tombstone, or a local row at least as new, keeps the local row. *)
PullKeepsLocal(n) ==
    /\ Decide(n)
    /\ page[n].life = "live" /\ ~Wins(n)
    /\ Applied(n)
    /\ UNCHANGED <<userVars, flight, cloudVars, clock, boundVars, seen>>

(* A newer cloud copy over unpushed work is put to the user. *)
PullConflicts(n) ==
    /\ Decide(n)
    /\ Wins(n) /\ Known /\ readRow.status # "synced"
    /\ conflict' = [conflict EXCEPT ![n] = page[n]]
    /\ seen' = seen \cup {<<n, page[n].at>>}
    /\ Applied(n)
    /\ UNCHANGED <<row, origin, streak, armed, flight, cloudVars, clock, boundVars>>

\* Mutant: applies a newer copy without looking at the local status
PullUpsertsUnchecked(n) ==
    /\ Decide(n)
    /\ Wins(n)
    /\ \/ \E i \in RowsOf(n) :
             row' = [row EXCEPT ![i] = UpsertedNote(@, page[n])]
       \/ /\ RowsOf(n) = {}
          /\ \E i \in Id :
                /\ row[i].life = "unused" /\ NextId(i)
                /\ row' = [row EXCEPT ![i] = InsertedNote(n, page[n])]
    /\ IF Known THEN Settle(n) ELSE UNCHANGED conflict
    /\ seen' = seen \cup {<<n, page[n].at>>}
    /\ Applied(n)
    /\ UNCHANGED <<origin, streak, armed, flight, cloudVars, clock, boundVars>>

(* A newer cloud copy over a clean or missing row is applied, to whatever *)
(* row has the identity by then.                                           *)
PullUpserts(n) ==
    /\ Decide(n)
    /\ Wins(n) /\ (Known => readRow.status = "synced")
    /\ \/ \E i \in RowsOf(n) :
             row' = [row EXCEPT ![i] = UpsertedNote(@, page[n])]
       \/ /\ RowsOf(n) = {}
          /\ \E i \in Id :
                /\ row[i].life = "unused" /\ NextId(i)
                /\ row' = [row EXCEPT ![i] = InsertedNote(n, page[n])]
    /\ IF Known THEN Settle(n) ELSE UNCHANGED conflict
    /\ seen' = seen \cup {<<n, page[n].at>>}
    /\ Applied(n)
    /\ UNCHANGED <<origin, streak, armed, flight, cloudVars, clock, boundVars>>

EndPull ==
    /\ pc = "apply"
    /\ reading = {}
    /\ \A n \in Note : page[n].life = "none"
    /\ PullOver
    /\ cursor' = IF denied THEN cursor ELSE started
    /\ UNCHANGED <<userVars, flight, todo, started, page, reading, readIds,
                   readRow, cloudVars, clock, boundVars, seen>>

(* The app quits or the window reloads: everything in renderer memory is  *)
(* lost; the rows, the registry, the streaks and the cursor are durable.   *)
Restart ==
    /\ Fault
    /\ flight' = [i \in Id |-> [ch \in Channel |-> NoFlight]]
    /\ armed' = [i \in Id |-> FALSE]
    /\ pc' = "idle"
    /\ denied' = FALSE
    /\ todo' = [i \in Id |-> NoRow]
    /\ page' = [n \in Note |-> NoCloud]
    /\ reading' = {}
    /\ readIds' = {}
    /\ readRow' = NoRow
    /\ UNCHANGED <<row, origin, conflict, streak, cursor, started, cloudVars,
                   clock, acts, seen>>
------------------------------------------------------------------------
UserStep ==
    \/ \E i \in Id, n \in Note : CreateNote(i, n)
    \/ \E i \in Id : \/ EditNote(i) \/ DeleteNote(i)
                     \/ KeepConflict(i) \/ RefreshConflict(i)

PeerStep ==
    \/ \E n \in Note : PeerCreate(n) \/ PeerWrite(n)
    \/ \E n \in Note, life \in {"tomb", "lost"} : PeerRemove(n, life)

Serve(i, ch) == ServePatch(i, ch) \/ ServePost(i, ch) \/ ServeDelete(i, ch)

Take(i, ch) ==
    \/ PatchSettled(i, ch) \/ PatchConflicted(i, ch) \/ PatchGone(i, ch)
    \/ PushRevoked(i, ch) \/ PushFailed(i, ch)
    \/ PostAcknowledged(i, ch) \/ CleanupDone(i, ch) \/ DeleteDone(i, ch)

PullApply(n) ==
    \/ PullRemoves(n) \/ PullForks(n) \/ PullKeepsLocal(n)
    \/ PullConflicts(n) \/ PullUpserts(n)

PassStep ==
    \/ StartPass \/ SkipConflicted \/ StartDeletes \/ StartPull \/ PullList \/ EndPull
    \/ \E i \in Id : PassPush(i) \/ PassDelete(i)
    \/ \E n \in Note : PullRead(n) \/ PullApply(n)

FaultStep ==
    \/ PullFailed \/ Restart
    \/ \E i \in Id, ch \in Channel : LoseRequest(i, ch)

Next ==
    \/ UserStep
    \/ PeerStep
    \/ PassStep
    \/ \E i \in Id, s \in Slot : DebouncedPush(i, s)
    \/ \E i \in Id, ch \in Channel : Serve(i, ch) \/ Take(i, ch)
    \/ FaultStep

Spec == Init /\ [][Next]_vars

(* The five-minute interval keeps starting passes, a pass runs on once     *)
(* started, and a request that is neither lost nor cut off by a restart is *)
(* answered and its answer taken.  Nothing is assumed of the user, the     *)
(* peers, the debounce timers or the faults.                               *)
Fairness ==
    /\ WF_vars(PassStep)
    /\ \A i \in Id, ch \in Channel :
          WF_vars(Serve(i, ch)) /\ WF_vars(Take(i, ch))

FairSpec == Spec /\ Fairness
------------------------------------------------------------------------
(* Correctness *)

\* the text of r has been in the cloud, or the cloud has deleted the note
Delivered(r) == <<r.cid, r.body>> \in held \/ cloud[r.cid].life = "tomb"

(* The text of a live row marked synced is one the cloud has held under   *)
(* the row's identity, whatever order answers, edits and pulls came in --  *)
(* or the note has been deleted in the cloud.  An edit settled by the      *)
(* answer to an older push would break this and would never be pushed.     *)
(* Excepted is a row a denied deletion brought back (at = 0), which is     *)
(* marked synced whatever it holds until a pull replaces it.               *)
SettledTextWasDelivered ==
    \A i \in Id :
        row[i].life = "live" /\ row[i].status = "synced" /\ row[i].at # 0 =>
            row[i].linked /\ Delivered(row[i])

(* Every text the installation may still take as the cloud's -- the rows  *)
(* of a page, the copies the user may refresh from, the snapshots whose    *)
(* push was confirmed -- was in the cloud.  With this the property above   *)
(* is inductive.                                                           *)
CopiesWereHeld ==
    \A n \in Note :
        /\ cloud[n].life = "live" => <<n, cloud[n].body>> \in held
        /\ page[n].life = "live" => <<n, page[n].body>> \in held
        /\ conflict[n].life # "none" => <<n, conflict[n].body>> \in held

AnswersWereHeld ==
    \A i \in Id, ch \in Channel :
        LET f == flight[i][ch] IN
        /\ f.op \in {"patch", "post"} /\ f.reply = "ok" => Delivered(f.snap)
        /\ f.reply = "conflict" => <<f.snap.cid, f.copy.body>> \in held

DeliveryInv == SettledTextWasDelivered /\ CopiesWereHeld /\ AnswersWereHeld

(* A row claims a cloud copy only when the cloud has had one under the    *)
(* identity the row has by now.  A create answered after its row was       *)
(* forked must not tie the fork to the copy it left: its next PATCH would  *)
(* write over a note that is no longer its own.                            *)
LinkedRowsHaveCopies ==
    \A i \in Id : Exists(row[i]) /\ row[i].linked => cloud[row[i].cid].life # "none"

(* A PATCH of this installation only ever replaces a revision it has      *)
(* written, applied or shown in the conflict banner, so no peer's work is  *)
(* overwritten unseen.                                                     *)
NoUnseenOverwrite ==
    [][\A i \in Id, ch \in Channel :
          ServePatch(i, ch) /\ flight'[i][ch].reply = "ok"
              => LET n == flight[i][ch].snap.cid
                 IN <<n, cloud[n].at>> \in seen]_vars

(* Unpushed text leaves a live row only when the user edits or refreshes  *)
(* it, or in the very step in which a pull applies a listed copy to this   *)
(* row: a deletion, or a copy applied to a row that was clean or missing   *)
(* when the pull read it.  No answer to a push ever drops it, and no pull  *)
(* drops the text of a row it read with that text or of another note.      *)
UnpushedTextSurvives ==
    [][\A i \in Id :
          Dirty(row[i]) /\ (row'[i].body # row[i].body \/ row'[i].life = "gone")
              => \/ EditNote(i) \/ RefreshConflict(i)
                 \/ \E n \in Note :
                       /\ PullRemoves(n) /\ i \in readIds
                       /\ page[n].life = "tomb" \/ ~Dirty(readRow)
                 \/ \E n \in Note :
                       /\ PullUpserts(n) /\ i \in RowsOf(n)
                       /\ Known => ~Dirty(readRow)]_vars

(* Answers, in whatever order, never move a row's base backwards while it *)
(* keeps its identity: only applying a listed or stored copy can.          *)
AnswersAdvanceBase ==
    [][\A i \in Id, ch \in Channel :
          Take(i, ch) => \A j \in Id :
              row'[j].cid = row[j].cid /\ row'[j].linked /\ row[j].linked
                  => row'[j].base >= row[j].base]_vars

(* A deleted note stays deleted: no pull and no late answer revives it,   *)
(* save the cloud's refusal to delete this very row.                       *)
TombstonesStay ==
    [][\A i \in Id :
          row[i].life = "tomb" =>
              \/ row'[i].life \in {"tomb", "gone"}
              \/ \E ch \in Channel :
                    DeleteDone(i, ch) /\ flight[i][ch].reply = "denied"]_vars

(* Unpushed text does not wait forever: it is delivered, removed, or put   *)
(* to the user as a conflict.  Rows in status error must be retried and a  *)
(* 404 that no pull explains must end in a fork for this to hold.          *)
UnpushedTextResolves ==
    \A i \in Id :
        Dirty(row[i]) ~> (~Dirty(row[i]) \/ Conflicted(row[i].cid))

(* The last three state what comments of the code say and do not hold: see *)
(* the README.  "deletes always propagate": the tombstone of a linked row  *)
(* stays in the queue that getPendingNoteDeletes reads until the cloud has *)
(* answered.                                                               *)
TombstonesStayQueued ==
    \A i \in Id : row[i].life = "tomb" /\ row[i].linked => PendingDelete(row[i])

(* "instead of silently dropping the local edit": a pull never replaces   *)
(* unpushed text by a cloud copy.                                          *)
PullNeverDropsEdit ==
    [][\A i \in Id, n \in Note :
          PullUpserts(n) /\ Dirty(row[i]) => row'[i].body = row[i].body]_vars

(* "an unresolved note conflict is not parked: its cloud copy lives in    *)
(* the durable registry": the registry of a note this account still sees   *)
(* holds every revision older than the pull cursor.                        *)
RegistryCoversCursor ==
    \A n \in Note :
        (/\ Conflicted(n)
         /\ \E i \in RowsOf(n) : row[i].life = "live"
         /\ cloud[n].life = "live" /\ cloud[n].at < cursor)
            => conflict[n].at = cloud[n].at
========================================================================
