---------------------------- MODULE NoteRow ----------------------------
(* The note rows of the local SQLite database and the statements of       *)
(* src/src/helpers/database.js that the sync service issues on one row.   *)
(* Every statement runs inside one main-process call, so each is atomic;  *)
(* the modules that EXTEND this one decide how calls interleave.          *)
(*                                                                        *)
(* The text fields of a note are one value, its `body`: the clock value   *)
(* of the write that produced it, so two different texts never compare    *)
(* equal and a row names the write it holds.  Bodies are never empty:     *)
(* the rule of upsertNoteFromCloud that an empty cloud field does not     *)
(* erase a local one is not expressed here.                               *)
EXTENDS Naturals

CONSTANTS
    Note,     \* client_note_id values: the identity a note keeps everywhere
    NoNote    \* the identity of a row that does not exist

ASSUME NoNoteAssumption == NoNote \notin Note

Status == {"synced", "pending", "error"}

(* `gone` rows were deleted from the table; a numeric id is AUTOINCREMENT *)
(* and is never used again.  cloud_id is determined by the identity, so   *)
(* only whether it is set matters.  `base` is cloud_updated_at, 0 = NULL. *)
Row == [life : {"unused", "live", "tomb", "gone"}, cid : Note \cup {NoNote},
        body : Nat, at : Nat, base : Nat, status : Status, linked : BOOLEAN]

NoRow == [life |-> "unused", cid |-> NoNote, body |-> 0, at |-> 0,
          base |-> 0, status |-> "synced", linked |-> FALSE]

GoneRow == [NoRow EXCEPT !.life = "gone"]

(* What the cloud serves of a note to this account; `lost` is the redacted *)
(* access_removed stub of a note moved out of the account's spaces.        *)
CloudRow == [life : {"none", "live", "tomb", "lost"}, body : Nat, at : Nat]

NoCloud == [life |-> "none", body |-> 0, at |-> 0]

Exists(r) == r.life \in {"live", "tomb"}

Dirty(r) == r.life = "live" /\ r.status # "synced"

\* Mutant: a row that failed once is not selected again
PendingPushOnce(r) == r.life = "live" /\ r.status = "pending"

\* getPendingNotes: rows a pass pushes
PendingPush(r) == r.life = "live" /\ r.status \in {"pending", "error"}

\* getPendingNoteDeletes: tombstones a pass pushes
PendingDelete(r) == r.life = "tomb" /\ r.linked /\ r.status = "pending"

\* isCloudEntryNewer: strict, a tie keeps the local row
CloudNewer(c, r) == c.at > r.at

Later(a, b) == IF a > b THEN a ELSE b

------------------------------------------------------------------------
(* Local writes *)

\* saveNote at time t
SavedNote(n, t) ==
    [life |-> "live", cid |-> n, body |-> t, at |-> t, base |-> 0,
     status |-> "pending", linked |-> FALSE]

\* updateNote with new text at time t: any local edit re-queues the row
EditedNote(r, t) == [r EXCEPT !.body = t, !.at = t, !.status = "pending"]

\* deleteNote at time t
DeletedNote(r, t) == [r EXCEPT !.life = "tomb", !.at = t, !.status = "pending"]

(* updateNote with revokedNoteForkUpdate: the row leaves its cloud copy   *)
(* behind and starts over under the identity m.                            *)
ForkedNote(r, m, t) ==
    [r EXCEPT !.cid = m, !.linked = FALSE, !.base = 0, !.at = t,
              !.status = "pending"]

------------------------------------------------------------------------
(* Statements that apply a cloud answer to the row *)

\* Mutant: the upsert clears deleted_at too
UpsertedNoteRevived(r, c) ==
    [r EXCEPT !.life = "live", !.body = c.body, !.at = c.at, !.base = c.at,
              !.status = "synced", !.linked = TRUE]

(* upsertNoteFromCloud on a row with the identity of the cloud copy.      *)
(* deleted_at is not among the updated columns.                            *)
UpsertedNote(r, c) ==
    [r EXCEPT !.body = c.body, !.at = c.at, !.base = c.at,
              !.status = "synced", !.linked = TRUE]

\* upsertNoteFromCloud when no row has the identity
InsertedNote(n, c) ==
    [life |-> "live", cid |-> n, body |-> c.body, at |-> c.at, base |-> c.at,
     status |-> "synced", linked |-> TRUE]

SamePatchIdentity(r, snap) == Exists(r) /\ r.cid = snap.cid /\ r.linked

\* Mutant: settles whatever the row holds by now
SettledNoteBlind(r, snap, t) ==
    IF ~SamePatchIdentity(r, snap) THEN r
    ELSE [r EXCEPT !.base = Later(@, t), !.status = "synced"]

\* Mutant: an answer overtaken by a later one moves the base back
SettledNoteUnordered(r, snap, t) ==
    IF ~SamePatchIdentity(r, snap) THEN r
    ELSE [r EXCEPT !.base = t, !.status = IF r = snap THEN "synced" ELSE @]

(* markNoteSyncedIfUnchanged: the answer to a PATCH that pushed `snap` and *)
(* produced the revision stamped t.  The base only moves forward; the row  *)
(* settles only when no pushed field changed since the snapshot.           *)
SettledNote(r, snap, t) ==
    IF ~SamePatchIdentity(r, snap) THEN r
    ELSE [r EXCEPT !.base = Later(@, t),
                   !.status = IF r = snap THEN "synced" ELSE @]

\* Mutant: trusts the numeric id, which a fork keeps
CreateAdoptableById(r, snap) == Exists(r) /\ ~r.linked

(* acknowledgeNoteCreate, outcomes synced and pending: the row adopts the  *)
(* cloud identity and settles only when it still matches the snapshot      *)
(* (the base is not among the compared fields).                            *)
CreateAdoptable(r, snap) == Exists(r) /\ r.cid = snap.cid /\ ~r.linked

\* Mutant: the acknowledgement drops the revision the create produced
AdoptedNoteWithoutBase(r, snap, t) ==
    IF ~CreateAdoptable(r, snap) THEN r
    ELSE [r EXCEPT !.linked = TRUE,
                   !.status = IF r = snap THEN "synced" ELSE "pending"]

AdoptedNote(r, snap, t) ==
    IF ~CreateAdoptable(r, snap) THEN r
    ELSE [r EXCEPT !.linked = TRUE, !.base = t,
                   !.status = IF [r EXCEPT !.base = 0] = [snap EXCEPT !.base = 0]
                              THEN "synced" ELSE "pending"]

\* Mutant: a status no query of the sync service selects
ErroredNoteUnknown(r) == IF Exists(r) THEN [r EXCEPT !.status = "failed"] ELSE r

\* markNoteSyncError: no guard on what the row has become since
ErroredNote(r) == IF Exists(r) THEN [r EXCEPT !.status = "error"] ELSE r

\* setNoteCloudBase: the user keeps the local text over the revision stamped t
KeptNote(r, t) == IF Exists(r) THEN [r EXCEPT !.base = t] ELSE r

(* restoreNoteAfterDeniedDelete: the tombstone comes back to life in       *)
(* place, settled whatever text it holds, with a time every cloud copy is  *)
(* newer than.                                                             *)
RestoredNote(r) ==
    IF r.life = "tomb"
    THEN [r EXCEPT !.life = "live", !.status = "synced", !.at = 0]
    ELSE r

\* hardDeleteNote
HardDeletedNote(r) == IF Exists(r) THEN GoneRow ELSE r
========================================================================
