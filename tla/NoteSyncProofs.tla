------------------------ MODULE NoteSyncProofs ------------------------
(* Theorems about NoteSync for every set of notes, row ids and slots and   *)
(* every bound: type correctness and that the text of a settled row was    *)
(* delivered.                                                              *)
EXTENDS NoteSync, TLAPS

(* Whatever names a note names a real one: rows that exist, snapshots the *)
(* pass still has to send and requests under way.                          *)
NamesNotes ==
    /\ \A i \in Id : Exists(row[i]) => row[i].cid \in Note
    /\ \A i \in Id : Exists(todo[i]) => todo[i].cid \in Note
    /\ \A i \in Id, ch \in Channel :
          flight[i][ch].op # "none" => flight[i][ch].snap.cid \in Note

TypeInv == TypeOK /\ NamesNotes
------------------------------------------------------------------------
(* The operators of NoteRow return rows. *)

LEMMA ConstantRows ==
    NoRow \in Row /\ GoneRow \in Row /\ NoCloud \in CloudRow /\ NoFlight \in Flight
BY DEF NoRow, GoneRow, NoCloud, NoFlight, Row, CloudRow, Flight, Status, Op, Reply

LEMMA NamedRows ==
    ASSUME NEW r \in Row, NEW n \in Note, NEW t \in Nat
    PROVE  SavedNote(n, t) \in Row /\ ForkedNote(r, n, t) \in Row
<1>1. SavedNote(n, t) \in Row
  BY DEF SavedNote, Row, Status
<1>2. ForkedNote(r, n, t) \in Row
  BY DEF ForkedNote, Row, Status
<1>3. QED
  BY <1>1, <1>2

LEMMA LocalWrites ==
    ASSUME NEW r \in Row, NEW t \in Nat
    PROVE  /\ EditedNote(r, t) \in Row
           /\ DeletedNote(r, t) \in Row
           /\ KeptNote(r, t) \in Row
           /\ ErroredNote(r) \in Row
           /\ HardDeletedNote(r) \in Row
           /\ RestoredNote(r) \in Row
<1>1. EditedNote(r, t) \in Row /\ DeletedNote(r, t) \in Row
  BY DEF EditedNote, DeletedNote, Row, Status
<1>2. KeptNote(r, t) \in Row
  BY DEF KeptNote, Row
<1>3. ErroredNote(r) \in Row
  BY DEF ErroredNote, Row, Status
<1>4. HardDeletedNote(r) \in Row
  BY ConstantRows DEF HardDeletedNote
<1>5. RestoredNote(r) \in Row
  BY DEF RestoredNote, Row, Status
<1>6. QED
  BY <1>1, <1>2, <1>3, <1>4, <1>5

LEMMA AppliedCopies ==
    ASSUME NEW r \in Row, NEW c \in CloudRow, NEW n \in Note
    PROVE  UpsertedNote(r, c) \in Row /\ InsertedNote(n, c) \in Row
BY DEF UpsertedNote, InsertedNote, Row, CloudRow, Status

LEMMA AppliedAnswers ==
    ASSUME NEW r \in Row, NEW snap \in Row, NEW t \in Nat
    PROVE  SettledNote(r, snap, t) \in Row /\ AdoptedNote(r, snap, t) \in Row
<1>1. Later(r.base, t) \in Nat
  BY DEF Later, Row
<1>2. SettledNote(r, snap, t) \in Row
  BY <1>1 DEF SettledNote, Row, Status
<1>3. AdoptedNote(r, snap, t) \in Row
  BY DEF AdoptedNote, Row, Status
<1>4. QED
  BY <1>2, <1>3
------------------------------------------------------------------------
(* Every action keeps the types and the names. *)

LEMMA UserTypes ==
    ASSUME TypeInv, UserStep
    PROVE  TypeInv'
<1> USE DEF TypeInv
<1>0. clock + 1 \in Nat \ {0} /\ \A i \in Id : row[i] \in Row
  BY DEF TypeOK
<1>1. ASSUME NEW i \in Id, NEW n \in Note, CreateNote(i, n)
      PROVE  TypeInv'
  <2>1. clock + 1 \in Nat \ {0} /\ SavedNote(n, clock + 1) \in Row
    BY <1>0, NamedRows, ConstantRows
  <2>2. TypeOK'
    BY <1>1, <2>1 DEF CreateNote, Act, TypeOK, cloudVars, passVars
  <2>3. NamesNotes'
    BY <1>1, <2>1 DEF CreateNote, TypeOK, NamesNotes, passVars, SavedNote
  <2>4. QED
    BY <2>2, <2>3
<1>2. ASSUME NEW i \in Id, EditNote(i)
      PROVE  TypeInv'
  <2>1. clock + 1 \in Nat \ {0} /\ EditedNote(row[i], clock + 1) \in Row
    BY <1>0, LocalWrites
  <2>2. TypeOK'
    BY <1>2, <2>1 DEF EditNote, Act, TypeOK, cloudVars, passVars
  <2>3. EditedNote(row[i], clock + 1).cid = row[i].cid
    BY DEF EditedNote, TypeOK, Row
  <2>4. NamesNotes'
    BY <1>2, <2>1, <2>3 DEF EditNote, TypeOK, NamesNotes, passVars, Exists
  <2>5. QED
    BY <2>2, <2>4
<1>3. ASSUME NEW i \in Id, DeleteNote(i)
      PROVE  TypeInv'
  <2>1. clock + 1 \in Nat \ {0} /\ DeletedNote(row[i], clock + 1) \in Row
    BY <1>0, LocalWrites
  <2>2. TypeOK'
    BY <1>3, <2>1 DEF DeleteNote, Act, TypeOK, cloudVars, passVars
  <2>3. DeletedNote(row[i], clock + 1).cid = row[i].cid
    BY DEF DeletedNote, TypeOK, Row
  <2>4. NamesNotes'
    BY <1>3, <2>1, <2>3 DEF DeleteNote, TypeOK, NamesNotes, passVars, Exists
  <2>5. QED
    BY <2>2, <2>4
<1>4. ASSUME NEW i \in Id, KeepConflict(i)
      PROVE  TypeInv'
  <2> DEFINE n == row[i].cid
  <2>1. n \in Note /\ conflict[n] \in CloudRow /\ conflict[n].at \in Nat
    BY <1>4 DEF TypeOK, NamesNotes, KeepConflict, Exists, CloudRow
  <2>2. KeptNote(row[i], conflict[n].at) \in Row
    BY <2>1, LocalWrites DEF TypeOK
  <2>3. TypeOK'
    BY <1>4, <2>1, <2>2, ConstantRows
       DEF KeepConflict, TypeOK, cloudVars, passVars, boundVars
  <2>4. KeptNote(row[i], conflict[n].at).cid = row[i].cid
    BY DEF KeptNote, TypeOK, Row
  <2>5. NamesNotes'
    BY <1>4, <2>2, <2>4 DEF KeepConflict, TypeOK, NamesNotes, passVars, Exists
  <2>6. QED
    BY <2>3, <2>5
<1>5. ASSUME NEW i \in Id, RefreshConflict(i)
      PROVE  TypeInv'
  <2> DEFINE n == row[i].cid
  <2>1. n \in Note /\ conflict[n] \in CloudRow
    BY <1>5 DEF TypeOK, NamesNotes, RefreshConflict, Exists
  <2>2. UpsertedNote(row[i], conflict[n]) \in Row
    BY <2>1, AppliedCopies DEF TypeOK
  <2>3. TypeOK'
    BY <1>5, <2>1, <2>2, ConstantRows
       DEF RefreshConflict, TypeOK, cloudVars, passVars, boundVars
  <2>4. UpsertedNote(row[i], conflict[n]).cid = row[i].cid
    BY DEF UpsertedNote, TypeOK, Row
  <2>5. NamesNotes'
    BY <1>5, <2>2, <2>4 DEF RefreshConflict, TypeOK, NamesNotes, passVars, Exists
  <2>6. QED
    BY <2>3, <2>5
<1>6. QED
  BY <1>1, <1>2, <1>3, <1>4, <1>5 DEF UserStep

(* Requests in flight *)

LEMMA Requests ==
    ASSUME TypeOK, NEW i \in Id, NEW ch \in Channel, NEW f \in Flight,
           flight' = [flight EXCEPT ![i][ch] = f]
    PROVE  /\ flight' \in [Id -> [Channel -> Flight]]
           /\ flight'[i][ch] = f
           /\ \A j \in Id, c \in Channel :
                 j # i \/ c # ch => flight'[j][c] = flight[j][c]
BY DEF TypeOK

LEMMA RequestTypes ==
    ASSUME NEW op \in Op, NEW snap \in Row
    PROVE  /\ Request(op, snap) \in Flight
           /\ Request(op, snap).op = op
           /\ Request(op, snap).snap = snap
           /\ Request(op, snap).reply = "none"
BY ConstantRows DEF Request, Flight, Reply

LEMMA Answers ==
    ASSUME TypeOK, NEW i \in Id, NEW ch \in Channel,
           NEW reply \in Reply, NEW copy \in CloudRow,
           Answer(i, ch, reply, copy)
    PROVE  /\ flight' \in [Id -> [Channel -> Flight]]
           /\ flight'[i][ch] = [flight[i][ch] EXCEPT !.reply = reply, !.copy = copy]
           /\ \A j \in Id, c \in Channel :
                 j # i \/ c # ch => flight'[j][c] = flight[j][c]
<1> DEFINE f == [flight[i][ch] EXCEPT !.reply = reply, !.copy = copy]
<1>1. flight[i][ch] \in Flight
  BY DEF TypeOK
<1>. HIDE DEF f
<1>2. f \in Flight
  BY <1>1 DEF Flight, f
<1>3. flight' = [flight EXCEPT ![i][ch] = f]
  BY <1>1 DEF Answer, TypeOK, f
<1>4. /\ flight' \in [Id -> [Channel -> Flight]]
      /\ flight'[i][ch] = f
      /\ \A j \in Id, c \in Channel : j # i \/ c # ch => flight'[j][c] = flight[j][c]
  BY <1>2, <1>3, Requests, ZenonT(30)
<1>5. f = [flight[i][ch] EXCEPT !.reply = reply, !.copy = copy]
  BY DEF f
<1>6. QED
  BY <1>4, <1>5

LEMMA SendTypes ==
    ASSUME TypeInv,
           \/ \E i \in Id, s \in Slot : DebouncedPush(i, s)
           \/ StartPass \/ SkipConflicted \/ StartDeletes \/ StartPull
           \/ \E i \in Id : PassPush(i) \/ PassDelete(i)
    PROVE  TypeInv'
<1> USE DEF TypeInv
<1>0. /\ Pass \in Channel /\ Slot \subseteq Channel
      /\ \A i \in Id : row[i] \in Row /\ todo[i] \in Row
      /\ \A r : r.life = "live" \/ r.life = "tomb" => Exists(r)
      /\ NoRow.life = "unused"
  BY DEF TypeOK, Channel, Exists, NoRow
<1>1. ASSUME NEW i \in Id, NEW ch \in Channel, NEW op \in Op, NEW r \in Row,
             r.cid \in Note,
             flight' = [flight EXCEPT ![i][ch] = Request(op, r)]
      PROVE  /\ flight' \in [Id -> [Channel -> Flight]]
             /\ \A j \in Id, c \in Channel :
                   flight'[j][c].op # "none" => flight'[j][c].snap.cid \in Note
  <2>1. Request(op, r) \in Flight /\ Request(op, r).snap = r
    BY RequestTypes
  <2> HIDE DEF TypeInv
  <2>2. /\ flight' \in [Id -> [Channel -> Flight]]
        /\ flight'[i][ch] = Request(op, r)
        /\ \A j \in Id, c \in Channel :
              j # i \/ c # ch => flight'[j][c] = flight[j][c]
    BY <1>1, <2>1 DEF TypeInv, TypeOK
  <2>3. ASSUME NEW j \in Id, NEW c \in Channel, flight'[j][c].op # "none"
        PROVE  flight'[j][c].snap.cid \in Note
    <3>1. CASE j = i /\ c = ch
      BY <1>1, <2>1, <2>2, <3>1
    <3>2. CASE ~(j = i /\ c = ch)
      BY <2>2, <2>3, <3>2 DEF TypeInv, NamesNotes
    <3>3. QED
      BY <3>1, <3>2
  <2>4. QED
    BY <2>2, <2>3
<1>2. ASSUME NEW i \in Id, NEW s \in Slot, DebouncedPush(i, s)
      PROVE  TypeInv'
  <2>1. CASE ~Exists(row[i]) \/ Conflicted(row[i].cid)
    <3>1. TypeOK'
      BY <1>2, <2>1 DEF DebouncedPush, TypeOK, cloudVars, passVars, boundVars
    <3>2. NamesNotes'
      BY <1>2, <2>1 DEF DebouncedPush, NamesNotes, passVars
    <3>3. QED
      BY <3>1, <3>2
  <2>2. CASE ~(~Exists(row[i]) \/ Conflicted(row[i].cid))
    <3> DEFINE op == IF row[i].linked THEN "patch" ELSE "post"
    <3>1. /\ op \in Op /\ row[i].cid \in Note
          /\ flight' = [flight EXCEPT ![i][s] = Request(op, row[i])]
      BY <1>2, <2>2 DEF DebouncedPush, NamesNotes, Op
    <3>2. /\ flight' \in [Id -> [Channel -> Flight]]
          /\ \A j \in Id, c \in Channel :
                flight'[j][c].op # "none" => flight'[j][c].snap.cid \in Note
      BY <1>0, <1>1, <3>1
    <3>3. TypeOK'
      BY <1>2, <3>2 DEF DebouncedPush, TypeOK, cloudVars, passVars, boundVars
    <3>4. NamesNotes'
      BY <1>2, <3>2 DEF DebouncedPush, NamesNotes, passVars
    <3>5. QED
      BY <3>3, <3>4
  <2>3. QED
    BY <2>1, <2>2
<1>3. CASE StartPass
  <2>1. TypeOK'
    BY <1>3, <1>0, ConstantRows
       DEF StartPass, TypeOK, PC, userVars, cloudVars, boundVars
  <2>2. NamesNotes'
    BY <1>3, <1>0 DEF StartPass, NamesNotes, userVars, Exists
  <2>3. QED
    BY <2>1, <2>2
<1>4. CASE StartDeletes
  <2>1. TypeOK'
    BY <1>4, <1>0, ConstantRows
       DEF StartDeletes, TypeOK, PC, userVars, cloudVars, boundVars
  <2>2. NamesNotes'
    BY <1>4, <1>0 DEF StartDeletes, NamesNotes, userVars, Exists
  <2>3. QED
    BY <2>1, <2>2
<1>5. CASE StartPull
  <2>1. TypeOK'
    BY <1>5 DEF StartPull, TypeOK, PC, userVars, cloudVars, boundVars
  <2>2. NamesNotes'
    BY <1>5 DEF StartPull, NamesNotes, userVars
  <2>3. QED
    BY <2>1, <2>2
<1>6. ASSUME NEW i \in Id, PassPush(i) \/ PassDelete(i)
      PROVE  TypeInv'
  <2>1. PICK op \in Op :
          /\ Exists(todo[i])
          /\ flight' = [flight EXCEPT ![i][Pass] = Request(op, todo[i])]
    BY <1>6, <1>0 DEF PassPush, PassDelete, Op
  <2>2. todo[i].cid \in Note
    BY <2>1 DEF NamesNotes
  <2>3. /\ flight' \in [Id -> [Channel -> Flight]]
        /\ \A j \in Id, c \in Channel :
              flight'[j][c].op # "none" => flight'[j][c].snap.cid \in Note
    BY <1>0, <1>1, <2>1, <2>2
  <2>4. /\ todo' = [todo EXCEPT ![i] = NoRow]
        /\ UNCHANGED <<userVars, pc, cursor, started, page, reading, readIds,
                       readRow, denied, cloudVars, clock, boundVars, seen>>
    BY <1>6 DEF PassPush, PassDelete
  <2>5. TypeOK'
    BY <2>3, <2>4, ConstantRows
       DEF TypeOK, userVars, cloudVars, boundVars
  <2>6. NamesNotes'
    BY <2>3, <2>4, <1>0 DEF NamesNotes, TypeOK, userVars, Exists
  <2>7. QED
    BY <2>5, <2>6
<1>7. CASE SkipConflicted
  <2>1. TypeOK'
    BY <1>7, <1>0, ConstantRows
       DEF SkipConflicted, TypeOK, PC, userVars, cloudVars, boundVars
  <2>2. NamesNotes'
    BY <1>7, <1>0 DEF SkipConflicted, NamesNotes, userVars, Exists
  <2>3. QED
    BY <2>1, <2>2
<1>8. QED
  BY <1>2, <1>3, <1>4, <1>5, <1>6, <1>7

LEMMA CloudTypes ==
    ASSUME TypeInv,
           \/ PeerStep
           \/ \E i \in Id, ch \in Channel : Serve(i, ch) \/ LoseRequest(i, ch)
    PROVE  TypeInv'
<1> USE DEF TypeInv
<1>0. clock + 1 \in Nat \ {0} /\ NoCloud \in CloudRow
  BY ConstantRows DEF TypeOK
<1>1. ASSUME NEW i \in Id, NEW ch \in Channel, NEW reply \in Reply,
             NEW copy \in CloudRow, Answer(i, ch, reply, copy), todo' = todo, row' = row
      PROVE  flight' \in [Id -> [Channel -> Flight]] /\ NamesNotes'
  <2>1. /\ flight' \in [Id -> [Channel -> Flight]]
        /\ flight'[i][ch] = [flight[i][ch] EXCEPT !.reply = reply, !.copy = copy]
        /\ \A j \in Id, c \in Channel :
              j # i \/ c # ch => flight'[j][c] = flight[j][c]
    BY <1>1, Answers
  <2>2. flight[i][ch] \in Flight
    BY DEF TypeOK
  <2>3. /\ flight'[i][ch].op = flight[i][ch].op
        /\ flight'[i][ch].snap = flight[i][ch].snap
    BY <2>1, <2>2 DEF Flight
  <2>4. ASSUME NEW j \in Id, NEW c \in Channel, flight'[j][c].op # "none"
        PROVE  flight'[j][c].snap.cid \in Note
    <3>1. flight[j][c].op # "none" /\ flight'[j][c].snap = flight[j][c].snap
      BY <2>1, <2>3, <2>4
    <3>2. QED
      BY <3>1 DEF NamesNotes
  <2>5. QED
    BY <1>1, <2>1, <2>4 DEF NamesNotes
<1>2. ASSUME NEW i \in Id, NEW ch \in Channel, NEW n \in Note, NEW body \in Nat,
             NEW life \in {"live", "tomb"}, Store(i, ch, n, life, body),
             UNCHANGED <<userVars, passVars, boundVars, seen>>
      PROVE  TypeInv'
  <2> DEFINE c == [life |-> life, body |-> body, at |-> clock + 1]
  <2>1. c \in CloudRow /\ "ok" \in Reply
    BY <1>0 DEF CloudRow, Reply
  <2>2. Answer(i, ch, "ok", c) /\ todo' = todo /\ row' = row
    BY <1>2 DEF Store, passVars, userVars
  <2>3. flight' \in [Id -> [Channel -> Flight]] /\ NamesNotes'
    BY <1>1, <2>1, <2>2
  <2>4. TypeOK'
    BY <1>0, <1>2, <2>1, <2>3 DEF Store, TypeOK, userVars, passVars, boundVars
  <2>5. QED
    BY <2>3, <2>4
<1>3. ASSUME NEW i \in Id, NEW ch \in Channel, NEW reply \in Reply,
             NEW copy \in CloudRow, Refuse(i, ch, reply, copy),
             UNCHANGED <<userVars, passVars, boundVars, seen>>
      PROVE  TypeInv'
  <2>1. Answer(i, ch, reply, copy) /\ todo' = todo /\ row' = row
    BY <1>3 DEF Refuse, passVars, userVars
  <2>2. flight' \in [Id -> [Channel -> Flight]] /\ NamesNotes'
    BY <1>1, <2>1
  <2>3. TypeOK'
    BY <1>3, <2>2 DEF Refuse, TypeOK, userVars, passVars, boundVars, cloudVars
  <2>4. QED
    BY <2>2, <2>3
<1>4. ASSUME NEW i \in Id, NEW ch \in Channel, flight[i][ch].op # "none"
      PROVE  /\ flight[i][ch].snap.cid \in Note
             /\ flight[i][ch].snap.body \in Nat
             /\ cloud[flight[i][ch].snap.cid] \in CloudRow
             /\ cloud[flight[i][ch].snap.cid].body \in Nat
  BY <1>4 DEF TypeOK, NamesNotes, Flight, Row, CloudRow
<1>5. {"ok", "conflict", "gone", "revoked", "denied", "fail"} \subseteq Reply
  BY DEF Reply
<1>6. ASSUME NEW i \in Id, NEW ch \in Channel, ServePatch(i, ch)
      PROVE  TypeInv'
  BY <1>0, <1>2, <1>3, <1>4, <1>5, <1>6 DEF ServePatch, Waiting
<1>7. ASSUME NEW i \in Id, NEW ch \in Channel, ServePost(i, ch)
      PROVE  TypeInv'
  BY <1>0, <1>2, <1>3, <1>4, <1>5, <1>7 DEF ServePost, Waiting
<1>8. ASSUME NEW i \in Id, NEW ch \in Channel, ServeDelete(i, ch)
      PROVE  TypeInv'
  BY <1>0, <1>2, <1>3, <1>4, <1>5, <1>8 DEF ServeDelete, Waiting
<1>9. ASSUME NEW i \in Id, NEW ch \in Channel, LoseRequest(i, ch)
      PROVE  TypeInv'
  <2>1. /\ Answer(i, ch, "fail", NoCloud) /\ todo' = todo /\ row' = row
    BY <1>9 DEF LoseRequest, passVars, userVars
  <2>2. flight' \in [Id -> [Channel -> Flight]] /\ NamesNotes'
    BY <1>0, <1>1, <1>5, <2>1
  <2>3. TypeOK'
    BY <1>9, <2>2 DEF LoseRequest, Fault, TypeOK, userVars, passVars, cloudVars
  <2>4. QED
    BY <2>2, <2>3
<1>10. ASSUME NEW n \in Note, PeerCreate(n) \/ PeerWrite(n)
       PROVE  TypeInv'
  <2>3. cloud' \in [Note -> CloudRow]
    <3>1. [life |-> "live", body |-> clock + 1, at |-> clock + 1] \in CloudRow
      BY <1>0 DEF CloudRow
    <3>2. [cloud[n] EXCEPT !.body = clock + 1, !.at = clock + 1] \in CloudRow
      BY <1>0 DEF CloudRow, TypeOK
    <3>3. QED
      BY <1>10, <3>1, <3>2 DEF PeerCreate, PeerWrite, TypeOK
  <2>1. TypeOK'
    BY <1>10, <1>0, <2>3
       DEF PeerCreate, PeerWrite, Act, TypeOK, userVars, passVars
  <2>2. NamesNotes'
    BY <1>10 DEF PeerCreate, PeerWrite, NamesNotes, userVars, passVars
  <2>4. QED
    BY <2>1, <2>2
<1>11. ASSUME NEW n \in Note, NEW life \in {"tomb", "lost"}, PeerRemove(n, life)
       PROVE  TypeInv'
  <2>4. [cloud[n] EXCEPT !.life = life, !.at = clock + 1] \in CloudRow
    BY <1>0 DEF CloudRow, TypeOK
  <2>3. cloud' \in [Note -> CloudRow]
    BY <1>11, <2>4 DEF PeerRemove, TypeOK
  <2>1. TypeOK'
    BY <1>11, <1>0, <2>3 DEF PeerRemove, Act, TypeOK, userVars, passVars
  <2>2. NamesNotes'
    BY <1>11 DEF PeerRemove, NamesNotes, userVars, passVars
  <2>5. QED
    BY <2>1, <2>2
<1>12. QED
  BY <1>6, <1>7, <1>8, <1>9, <1>10, <1>11 DEF PeerStep, Serve

(* What taking an answer leaves in place: types and names of all it may   *)
(* write.                                                                  *)

LEMMA FreedTypes ==
    ASSUME TypeInv, NEW i \in Id, NEW ch \in Channel,
           \/ Free(i, ch)
           \/ /\ flight[i][ch].op # "none"
              /\ flight' = [flight EXCEPT ![i][ch] =
                               Request("cleanup", flight[i][ch].snap)]
    PROVE  /\ flight' \in [Id -> [Channel -> Flight]]
           /\ \A j \in Id, c \in Channel :
                 flight'[j][c].op # "none" => flight'[j][c].snap.cid \in Note
<1>1. PICK f \in Flight : /\ flight' = [flight EXCEPT ![i][ch] = f]
                          /\ f.op # "none" => f.snap.cid \in Note
  <2>1. CASE Free(i, ch)
    BY <2>1, ConstantRows DEF Free, NoFlight
  <2>2. CASE ~Free(i, ch)
    <3>1. flight[i][ch].snap \in Row /\ flight[i][ch].snap.cid \in Note
      BY <2>2 DEF TypeInv, TypeOK, NamesNotes, Flight
    <3>2. "cleanup" \in Op
      BY DEF Op
    <3>3. Request("cleanup", flight[i][ch].snap) \in Flight
      BY <3>1, <3>2, RequestTypes
    <3>4. Request("cleanup", flight[i][ch].snap).snap.cid \in Note
      BY <3>1 DEF Request
    <3>5. QED
      BY <2>2, <3>3, <3>4
  <2>3. QED
    BY <2>1, <2>2
<1>2. /\ flight' \in [Id -> [Channel -> Flight]]
      /\ flight'[i][ch] = f
      /\ \A j \in Id, c \in Channel :
            j # i \/ c # ch => flight'[j][c] = flight[j][c]
  BY <1>1 DEF TypeInv, TypeOK
<1>3. ASSUME NEW j \in Id, NEW c \in Channel, flight'[j][c].op # "none"
      PROVE  flight'[j][c].snap.cid \in Note
  <2>1. CASE j = i /\ c = ch
    BY <1>1, <1>2, <1>3, <2>1
  <2>2. CASE ~(j = i /\ c = ch)
    BY <1>2, <1>3, <2>2 DEF TypeInv, NamesNotes
  <2>3. QED
    BY <2>1, <2>2
<1>4. QED
  BY <1>2, <1>3

LEMMA ForkTypes ==
    ASSUME TypeInv, NEW ids, Fork(ids)
    PROVE  /\ row' \in [Id -> Row]
           /\ origin' \in [Note -> {"unused", "shared", "private"}]
           /\ clock' \in Nat \ {0}
           /\ \A j \in Id : Exists(row'[j]) => row'[j].cid \in Note
<1>1. clock + 1 \in Nat \ {0} /\ \A j \in Id : row[j] \in Row
  BY DEF TypeInv, TypeOK
<1>2. PICK m \in Note :
        /\ origin' = [origin EXCEPT ![m] = "private"]
        /\ row' = [j \in Id |-> IF j \in ids /\ Exists(row[j])
                                THEN ForkedNote(row[j], m, clock + 1)
                                ELSE row[j]]
        /\ clock' = clock + 1
  BY DEF Fork
<1>3. \A j \in Id : /\ ForkedNote(row[j], m, clock + 1) \in Row
                    /\ ForkedNote(row[j], m, clock + 1).cid = m
  <2>1. TAKE j \in Id
  <2>2. ForkedNote(row[j], m, clock + 1) \in Row
    BY <1>1, NamedRows
  <2>3. ForkedNote(row[j], m, clock + 1).cid = m
    BY <1>1 DEF ForkedNote, Row
  <2>4. QED
    BY <2>2, <2>3
<1>4. row' \in [Id -> Row]
  BY <1>1, <1>2, <1>3
<1>5. origin' \in [Note -> {"unused", "shared", "private"}]
  BY <1>2 DEF TypeInv, TypeOK
<1>6. \A j \in Id : Exists(row'[j]) => row'[j].cid \in Note
  BY <1>2, <1>3 DEF TypeInv, NamesNotes
<1>7. QED
  BY <1>1, <1>2, <1>4, <1>5, <1>6

LEMMA SetRowTypes ==
    ASSUME TypeInv, NEW i \in Id, NEW r \in Row, SetRow(i, r),
           Exists(r) => r.cid \in Note
    PROVE  /\ row' \in [Id -> Row]
           /\ origin' \in [Note -> {"unused", "shared", "private"}]
           /\ clock' \in Nat \ {0}
           /\ \A j \in Id : Exists(row'[j]) => row'[j].cid \in Note
<1>1. /\ row' \in [Id -> Row]
      /\ row'[i] = r
      /\ \A j \in Id : j # i => row'[j] = row[j]
  BY DEF SetRow, TypeInv, TypeOK
<1>2. \A j \in Id : Exists(row'[j]) => row'[j].cid \in Note
  BY <1>1 DEF TypeInv, NamesNotes
<1>3. QED
  BY <1>1, <1>2 DEF SetRow, TypeInv, TypeOK

(* An answer keeps the identity of a row that stays. *)
LEMMA AnsweredNames ==
    ASSUME NEW r \in Row, NEW snap \in Row, NEW t \in Nat
    PROVE  /\ Exists(SettledNote(r, snap, t)) => Exists(r)
           /\ SettledNote(r, snap, t).cid = r.cid
           /\ Exists(AdoptedNote(r, snap, t)) => Exists(r)
           /\ AdoptedNote(r, snap, t).cid = r.cid
           /\ Exists(ErroredNote(r)) => Exists(r)
           /\ ErroredNote(r).cid = r.cid
<1>1. /\ Exists(SettledNote(r, snap, t)) => Exists(r)
      /\ SettledNote(r, snap, t).cid = r.cid
  BY DEF SettledNote, SamePatchIdentity, Row
<1>2. /\ Exists(AdoptedNote(r, snap, t)) => Exists(r)
      /\ AdoptedNote(r, snap, t).cid = r.cid
  BY DEF AdoptedNote, CreateAdoptable, Row
<1>3. (Exists(ErroredNote(r)) => Exists(r)) /\ ErroredNote(r).cid = r.cid
  BY DEF ErroredNote, Row
<1>4. QED
  BY <1>1, <1>2, <1>3

LEMMA TakeTypes ==
    ASSUME TypeInv, NEW i \in Id, NEW ch \in Channel, Take(i, ch)
    PROVE  TypeInv'
<1> DEFINE f == flight[i][ch]
           n == f.snap.cid
<1>1. f \in Flight /\ f.snap \in Row /\ f.copy \in CloudRow /\ f.copy.at \in Nat
  BY DEF TypeInv, TypeOK, Flight, CloudRow
<1>2. f.op # "none" => n \in Note
  BY DEF TypeInv, NamesNotes
<1>3. row[i] \in Row /\ (Exists(row[i]) => row[i].cid \in Note)
  BY DEF TypeInv, TypeOK, NamesNotes
<1>4. /\ SettledNote(row[i], f.snap, f.copy.at) \in Row
      /\ AdoptedNote(row[i], f.snap, f.copy.at) \in Row
      /\ ErroredNote(row[i]) \in Row
      /\ HardDeletedNote(row[i]) \in Row
      /\ RestoredNote(row[i]) \in Row
  BY <1>1, <1>3, AppliedAnswers, LocalWrites
<1>5. ASSUME /\ row' \in [Id -> Row]
             /\ origin' \in [Note -> {"unused", "shared", "private"}]
             /\ clock' \in Nat \ {0}
             /\ \A j \in Id : Exists(row'[j]) => row'[j].cid \in Note,
             flight' \in [Id -> [Channel -> Flight]],
             \A j \in Id, c \in Channel :
                flight'[j][c].op # "none" => flight'[j][c].snap.cid \in Note,
             conflict' \in [Note -> CloudRow],
             streak' \in [Note -> Nat],
             seen' \in SUBSET (Note \X Nat),
             UNCHANGED <<armed, passVars, cloudVars, boundVars>>
      PROVE  TypeInv'
  BY <1>5 DEF TypeInv, TypeOK, NamesNotes, passVars, cloudVars, boundVars
<1>6. \A k \in Nat : n \in Note => Note404(ch, n, k) \in [Note -> Nat]
  BY DEF Note404, TypeInv, TypeOK
<1>7. CASE PatchSettled(i, ch)
  <2>1. SetRow(i, SettledNote(row[i], f.snap, f.copy.at)) /\ Free(i, ch) /\ n \in Note
    BY <1>2, <1>7 DEF PatchSettled
  <2> DEFINE r == SettledNote(row[i], f.snap, f.copy.at)
  <2>2. /\ row' \in [Id -> Row]
        /\ origin' \in [Note -> {"unused", "shared", "private"}]
        /\ clock' \in Nat \ {0}
        /\ \A j \in Id : Exists(row'[j]) => row'[j].cid \in Note
    <3>1. r \in Row /\ SetRow(i, r)
      BY <1>4, <2>1
    <3>2. Exists(r) => r.cid \in Note
      BY <1>1, <1>3, AnsweredNames
    <3> HIDE DEF r
    <3>3. QED
      BY <3>1, <3>2, SetRowTypes
  <2>3. /\ flight' \in [Id -> [Channel -> Flight]]
        /\ \A j \in Id, c \in Channel :
              flight'[j][c].op # "none" => flight'[j][c].snap.cid \in Note
    BY <2>1, FreedTypes
  <2>4. /\ conflict' \in [Note -> CloudRow]
        /\ streak' \in [Note -> Nat]
        /\ seen' \in SUBSET (Note \X Nat)
    BY <1>1, <1>7, <2>1 DEF PatchSettled, Note404, TypeInv, TypeOK
  <2>5. UNCHANGED <<armed, passVars, cloudVars, boundVars>>
    BY <1>7 DEF PatchSettled
  <2>6. QED
    BY <1>5, <2>2, <2>3, <2>4, <2>5
<1>8. CASE PatchConflicted(i, ch)
  <2>1. Free(i, ch) /\ n \in Note
    BY <1>2, <1>8 DEF PatchConflicted
  <2>2. /\ row' \in [Id -> Row]
        /\ origin' \in [Note -> {"unused", "shared", "private"}]
        /\ clock' \in Nat \ {0}
        /\ \A j \in Id : Exists(row'[j]) => row'[j].cid \in Note
    BY <1>8 DEF PatchConflicted, TypeInv, TypeOK, NamesNotes
  <2>3. /\ flight' \in [Id -> [Channel -> Flight]]
        /\ \A j \in Id, c \in Channel :
              flight'[j][c].op # "none" => flight'[j][c].snap.cid \in Note
    BY <2>1, FreedTypes
  <2>4. /\ conflict' \in [Note -> CloudRow]
        /\ streak' \in [Note -> Nat]
        /\ seen' \in SUBSET (Note \X Nat)
    BY <1>1, <1>6, <1>8, <2>1 DEF PatchConflicted, TypeInv, TypeOK
  <2>5. UNCHANGED <<armed, passVars, cloudVars, boundVars>>
    BY <1>8 DEF PatchConflicted
  <2>6. QED
    BY <1>5, <2>2, <2>3, <2>4, <2>5
<1>9. CASE PatchGone(i, ch)
  <2>1. Free(i, ch) /\ n \in Note
    BY <1>2, <1>9 DEF PatchGone
  <2>2. Fork({i}) \/ SetRow(i, ErroredNote(row[i]))
    BY <1>9 DEF PatchGone
  <2>3. /\ row' \in [Id -> Row]
        /\ origin' \in [Note -> {"unused", "shared", "private"}]
        /\ clock' \in Nat \ {0}
        /\ \A j \in Id : Exists(row'[j]) => row'[j].cid \in Note
    BY <1>1, <1>3, <1>4, <2>2, SetRowTypes, ForkTypes, AnsweredNames
  <2>4. /\ flight' \in [Id -> [Channel -> Flight]]
        /\ \A j \in Id, c \in Channel :
              flight'[j][c].op # "none" => flight'[j][c].snap.cid \in Note
    BY <2>1, FreedTypes
  <2>5. streak[n] + 1 \in Nat
    BY <2>1 DEF TypeInv, TypeOK
  <2>6. streak' \in [Note -> Nat]
    <3>1. \/ streak' = [streak EXCEPT ![n] = 0]
          \/ streak' = Note404(ch, n, streak[n] + 1)
      BY <1>9 DEF PatchGone
    <3>2. QED
      BY <2>1, <2>5, <3>1 DEF Note404, TypeInv, TypeOK
  <2>7. conflict' \in [Note -> CloudRow] /\ seen' \in SUBSET (Note \X Nat)
    BY <1>9 DEF PatchGone, TypeInv, TypeOK
  <2>8. UNCHANGED <<armed, passVars, cloudVars, boundVars>>
    BY <1>9 DEF PatchGone
  <2>9. QED
    BY <1>5, <2>3, <2>4, <2>6, <2>7, <2>8
<1>10. CASE PushRevoked(i, ch)
  <2>1. Fork({i}) /\ Free(i, ch) /\ n \in Note
    BY <1>2, <1>10 DEF PushRevoked
  <2>2. /\ row' \in [Id -> Row]
        /\ origin' \in [Note -> {"unused", "shared", "private"}]
        /\ clock' \in Nat \ {0}
        /\ \A j \in Id : Exists(row'[j]) => row'[j].cid \in Note
    BY <2>1, ForkTypes
  <2>3. /\ flight' \in [Id -> [Channel -> Flight]]
        /\ \A j \in Id, c \in Channel :
              flight'[j][c].op # "none" => flight'[j][c].snap.cid \in Note
    BY <2>1, FreedTypes
  <2>4. /\ conflict' \in [Note -> CloudRow]
        /\ streak' \in [Note -> Nat]
        /\ seen' \in SUBSET (Note \X Nat)
    BY <1>6, <1>10, <2>1 DEF PushRevoked, TypeInv, TypeOK
  <2>5. UNCHANGED <<armed, passVars, cloudVars, boundVars>>
    BY <1>10 DEF PushRevoked
  <2>6. QED
    BY <1>5, <2>2, <2>3, <2>4, <2>5
<1>11. CASE PushFailed(i, ch)
  <2>1. /\ SetRow(i, IF ch = Pass THEN ErroredNote(row[i]) ELSE row[i])
        /\ Free(i, ch)
    BY <1>11 DEF PushFailed
  <2>2. /\ row' \in [Id -> Row]
        /\ origin' \in [Note -> {"unused", "shared", "private"}]
        /\ clock' \in Nat \ {0}
        /\ \A j \in Id : Exists(row'[j]) => row'[j].cid \in Note
    BY <1>1, <1>3, <1>4, <2>1, SetRowTypes, AnsweredNames
  <2>3. /\ flight' \in [Id -> [Channel -> Flight]]
        /\ \A j \in Id, c \in Channel :
              flight'[j][c].op # "none" => flight'[j][c].snap.cid \in Note
    BY <2>1, FreedTypes
  <2>4. UNCHANGED <<conflict, streak, seen, armed, passVars, cloudVars, boundVars>>
    BY <1>11 DEF PushFailed
  <2>5. /\ conflict' \in [Note -> CloudRow]
        /\ streak' \in [Note -> Nat]
        /\ seen' \in SUBSET (Note \X Nat)
    BY <2>4 DEF TypeInv, TypeOK
  <2>6. QED
    BY <1>5, <2>2, <2>3, <2>4, <2>5
<1>12. CASE PostAcknowledged(i, ch)
  <2>1. /\ SetRow(i, AdoptedNote(row[i], f.snap, f.copy.at))
        /\ n \in Note
        /\ f.op # "none"
    BY <1>2, <1>12 DEF PostAcknowledged
  <2>2. \/ Free(i, ch)
        \/ flight' = [flight EXCEPT ![i][ch] = Request("cleanup", f.snap)]
    BY <1>12 DEF PostAcknowledged, Free
  <2> DEFINE r == AdoptedNote(row[i], f.snap, f.copy.at)
  <2>3. /\ row' \in [Id -> Row]
        /\ origin' \in [Note -> {"unused", "shared", "private"}]
        /\ clock' \in Nat \ {0}
        /\ \A j \in Id : Exists(row'[j]) => row'[j].cid \in Note
    <3>1. r \in Row /\ SetRow(i, r)
      BY <1>4, <2>1
    <3>2. Exists(r) => r.cid \in Note
      BY <1>1, <1>3, AnsweredNames
    <3> HIDE DEF r
    <3>3. QED
      BY <3>1, <3>2, SetRowTypes
  <2>4. /\ flight' \in [Id -> [Channel -> Flight]]
        /\ \A j \in Id, c \in Channel :
              flight'[j][c].op # "none" => flight'[j][c].snap.cid \in Note
    BY <2>1, <2>2, FreedTypes
  <2>5. /\ conflict' \in [Note -> CloudRow]
        /\ streak' \in [Note -> Nat]
        /\ seen' \in SUBSET (Note \X Nat)
    BY <1>1, <1>12, <2>1 DEF PostAcknowledged, TypeInv, TypeOK
  <2>6. UNCHANGED <<armed, passVars, cloudVars, boundVars>>
    BY <1>12 DEF PostAcknowledged
  <2>7. QED
    BY <1>5, <2>3, <2>4, <2>5, <2>6
<1>13. CASE CleanupDone(i, ch)
  <2>1. /\ flight' \in [Id -> [Channel -> Flight]]
        /\ \A j \in Id, c \in Channel :
              flight'[j][c].op # "none" => flight'[j][c].snap.cid \in Note
    BY <1>13, FreedTypes DEF CleanupDone
  <2>2. QED
    BY <1>13, <2>1 DEF CleanupDone, TypeInv, TypeOK, NamesNotes, userVars,
                       passVars, cloudVars, boundVars
<1>14. CASE DeleteDone(i, ch)
  <2>1. Free(i, ch) /\ n \in Note
    BY <1>2, <1>14 DEF DeleteDone
  <2>2. /\ row' \in [Id -> Row]
        /\ \A j \in Id : Exists(row'[j]) => row'[j].cid \in Note
    <3>1. \/ row' = row
          \/ row' = [row EXCEPT ![i] = HardDeletedNote(row[i])]
          \/ row' = [row EXCEPT ![i] = RestoredNote(row[i])]
      BY <1>14 DEF DeleteDone
    <3>2. ~Exists(HardDeletedNote(row[i]))
      BY DEF HardDeletedNote, GoneRow, NoRow, Exists
    <3>3. /\ Exists(RestoredNote(row[i])) => Exists(row[i])
          /\ RestoredNote(row[i]).cid = row[i].cid
      BY <1>3 DEF RestoredNote, Exists, Row
    <3>4. QED
      BY <1>4, <3>1, <3>2, <3>3 DEF TypeInv, TypeOK, NamesNotes
  <2>3. /\ flight' \in [Id -> [Channel -> Flight]]
        /\ \A j \in Id, c \in Channel :
              flight'[j][c].op # "none" => flight'[j][c].snap.cid \in Note
    BY <2>1, FreedTypes
  <2>4. conflict' \in [Note -> CloudRow] /\ streak' \in [Note -> Nat]
    <3>1. conflict' = conflict \/ conflict' = [conflict EXCEPT ![n] = NoCloud]
      BY <1>14 DEF DeleteDone
    <3>2. streak' = streak \/ streak' = [streak EXCEPT ![n] = 0]
      BY <1>14 DEF DeleteDone
    <3>3. conflict' \in [Note -> CloudRow]
      BY <2>1, <3>1, ConstantRows DEF TypeInv, TypeOK
    <3>4. streak' \in [Note -> Nat]
      BY <2>1, <3>2 DEF TypeInv, TypeOK
    <3>5. QED
      BY <3>3, <3>4
  <2>5. denied' \in BOOLEAN
    BY <1>14 DEF DeleteDone, TypeInv, TypeOK
  <2>6. UNCHANGED <<origin, clock, armed, pc, todo, started, page, reading,
                    readIds, readRow, cursor, cloudVars, boundVars, seen>>
    BY <1>14 DEF DeleteDone
  <2>7. QED
    BY <2>2, <2>3, <2>4, <2>5, <2>6 DEF TypeInv, TypeOK, NamesNotes, cloudVars, boundVars
<1>15. QED
  BY <1>7, <1>8, <1>9, <1>10, <1>11, <1>12, <1>13, <1>14 DEF Take

(* The rows a pull step may leave behind. *)
LEMMA PulledRows ==
    ASSUME TypeInv, NEW n \in Note, PullUpserts(n)
    PROVE  /\ row' \in [Id -> Row]
           /\ \A j \in Id : Exists(row'[j]) => row'[j].cid \in Note
<1>1. page[n] \in CloudRow /\ \A j \in Id : row[j] \in Row
  BY DEF TypeInv, TypeOK
<1>2. \A j \in Id : /\ UpsertedNote(row[j], page[n]) \in Row
                    /\ UpsertedNote(row[j], page[n]).cid = row[j].cid
  <2>1. TAKE j \in Id
  <2>2. UpsertedNote(row[j], page[n]) \in Row
    BY <1>1, AppliedCopies
  <2>3. UpsertedNote(row[j], page[n]).cid = row[j].cid
    BY <1>1 DEF UpsertedNote, Row
  <2>4. QED
    BY <2>2, <2>3
<1>3. InsertedNote(n, page[n]) \in Row /\ InsertedNote(n, page[n]).cid = n
  <2>1. PICK r \in Row : TRUE
    BY ConstantRows
  <2>2. InsertedNote(n, page[n]) \in Row
    BY <1>1, <2>1, AppliedCopies
  <2>3. QED
    BY <2>2 DEF InsertedNote
<1>4. \/ \E i \in Id : /\ Exists(row[i])
                       /\ row' = [row EXCEPT ![i] = UpsertedNote(row[i], page[n])]
      \/ \E i \in Id : row' = [row EXCEPT ![i] = InsertedNote(n, page[n])]
  BY DEF PullUpserts, RowsOf
<1>5. CASE \E i \in Id :
             /\ Exists(row[i])
             /\ row' = [row EXCEPT ![i] = UpsertedNote(row[i], page[n])]
  BY <1>2, <1>5 DEF TypeInv, TypeOK, NamesNotes
<1>6. CASE \E i \in Id : row' = [row EXCEPT ![i] = InsertedNote(n, page[n])]
  BY <1>3, <1>6 DEF TypeInv, TypeOK, NamesNotes
<1>7. QED
  BY <1>4, <1>5, <1>6

LEMMA RemovedRows ==
    ASSUME TypeInv, HardDeleteRead
    PROVE  /\ row' \in [Id -> Row]
           /\ \A j \in Id : Exists(row'[j]) => row'[j].cid \in Note
<1>1. \A j \in Id : /\ HardDeletedNote(row[j]) \in Row
                    /\ ~Exists(HardDeletedNote(row[j]))
  <2>1. TAKE j \in Id
  <2>2. HardDeletedNote(row[j]) \in Row
    BY LocalWrites DEF TypeInv, TypeOK
  <2>3. ~Exists(HardDeletedNote(row[j]))
    BY DEF HardDeletedNote, GoneRow, NoRow, Exists
  <2>4. QED
    BY <2>2, <2>3
<1>2. QED
  BY <1>1 DEF HardDeleteRead, TypeInv, TypeOK, NamesNotes

LEMMA PullTypes ==
    ASSUME TypeInv,
           \/ PullList \/ PullFailed \/ EndPull \/ Restart
           \/ \E n \in Note : PullRead(n) \/ PullApply(n)
    PROVE  TypeInv'
<1>1. CASE PullList
  BY <1>1, ConstantRows DEF PullList, TypeInv, TypeOK, PC, NamesNotes, userVars,
                            cloudVars, boundVars
<1>2. CASE PullFailed
  <2>1. pc' \in PC /\ denied' \in BOOLEAN
    BY <1>2 DEF PullFailed, PullOver, PC
  <2>2. QED
    BY <1>2, <2>1 DEF PullFailed, Fault, TypeInv, TypeOK, NamesNotes, userVars, cloudVars
<1>3. CASE EndPull
  BY <1>3 DEF EndPull, PullOver, TypeInv, TypeOK, PC, NamesNotes, userVars, cloudVars, boundVars
<1>4. CASE Restart
  <2>1. flight' \in [Id -> [Channel -> Flight]]
    BY <1>4, ConstantRows DEF Restart
  <2>2. TypeOK'
    <3>1. pc' \in PC /\ denied' \in BOOLEAN
      BY <1>4 DEF Restart, PC
    <3>2. QED
      BY <1>4, <2>1, <3>1, ConstantRows DEF Restart, Fault, TypeInv, TypeOK, cloudVars
  <2>3. NamesNotes'
    BY <1>4 DEF Restart, TypeInv, NamesNotes, NoRow, Exists, NoFlight
  <2>4. QED
    BY <2>2, <2>3 DEF TypeInv
<1>5. ASSUME NEW n \in Note, PullRead(n)
      PROVE  TypeInv'
  <2>1. RowsOf(n) \subseteq Id
    BY DEF RowsOf
  <2>2. RowsOf(n) # {} => (CHOOSE i \in RowsOf(n) : TRUE) \in RowsOf(n)
    OBVIOUS
  <2>3. readRow' \in Row
    BY <1>5, <2>1, <2>2, ConstantRows DEF PullRead, TypeInv, TypeOK
  <2>4. QED
    BY <1>5, <2>1, <2>3 DEF PullRead, TypeInv, TypeOK, NamesNotes, userVars,
                            cloudVars, boundVars
<1>6. ASSUME NEW n \in Note, PullApply(n)
      PROVE  TypeInv'
  <2>1. Applied(n)
    BY <1>6 DEF PullApply, PullRemoves, PullForks, PullKeepsLocal, PullConflicts,
                PullUpserts
  <2>2. /\ page' \in [Note -> CloudRow] /\ reading' \in SUBSET Note
        /\ readIds' \in SUBSET Id /\ readRow' \in Row
        /\ UNCHANGED <<pc, denied, todo, cursor, started>>
    BY <2>1, ConstantRows DEF Applied, TypeInv, TypeOK
  <2>3. /\ UNCHANGED <<armed, flight, cloudVars, boundVars>>
    BY <1>6 DEF PullApply, PullRemoves, PullForks, PullKeepsLocal, PullConflicts,
                PullUpserts, userVars
  <2>4. ASSUME /\ row' \in [Id -> Row]
               /\ \A j \in Id : Exists(row'[j]) => row'[j].cid \in Note,
               origin' \in [Note -> {"unused", "shared", "private"}],
               clock' \in Nat \ {0},
               conflict' \in [Note -> CloudRow],
               streak' \in [Note -> Nat],
               seen' \in SUBSET (Note \X Nat)
        PROVE  TypeInv'
    BY <2>2, <2>3, <2>4 DEF TypeInv, TypeOK, NamesNotes, cloudVars, boundVars
  <2>5. [conflict EXCEPT ![n] = NoCloud] \in [Note -> CloudRow]
    BY ConstantRows DEF TypeInv, TypeOK
  <2>6. [streak EXCEPT ![n] = 0] \in [Note -> Nat]
    BY DEF TypeInv, TypeOK
  <2>7. seen \cup {<<n, page[n].at>>} \in SUBSET (Note \X Nat)
    BY DEF TypeInv, TypeOK, CloudRow
  <2>8. CASE PullRemoves(n)
    <3>1. HardDeleteRead \/ row' = row
      BY <2>8 DEF PullRemoves
    <3>2. /\ row' \in [Id -> Row]
          /\ \A j \in Id : Exists(row'[j]) => row'[j].cid \in Note
      BY <3>1, RemovedRows DEF TypeInv, TypeOK, NamesNotes
    <3>3. conflict' = conflict \/ conflict' = [conflict EXCEPT ![n] = NoCloud]
      BY <2>8 DEF PullRemoves, Settle
    <3>4. streak' = streak \/ streak' = [streak EXCEPT ![n] = 0]
      BY <2>8 DEF PullRemoves
    <3>5. UNCHANGED <<origin, clock, seen>>
      BY <2>8 DEF PullRemoves
    <3>6. QED
      BY <2>4, <2>5, <2>6, <3>2, <3>3, <3>4, <3>5 DEF TypeInv, TypeOK
  <2>9. CASE PullForks(n)
    <3>1. /\ row' \in [Id -> Row]
          /\ origin' \in [Note -> {"unused", "shared", "private"}]
          /\ clock' \in Nat \ {0}
          /\ \A j \in Id : Exists(row'[j]) => row'[j].cid \in Note
      BY <2>9, ForkTypes DEF PullForks
    <3>2. QED
      BY <2>4, <2>5, <2>6, <2>9, <3>1 DEF PullForks, Settle, TypeInv, TypeOK
  <2>10. CASE PullKeepsLocal(n)
    BY <2>4, <2>10 DEF PullKeepsLocal, TypeInv, TypeOK, NamesNotes, userVars
  <2>11. CASE PullConflicts(n)
    BY <2>4, <2>7, <2>11 DEF PullConflicts, TypeInv, TypeOK, NamesNotes
  <2>12. CASE PullUpserts(n)
    <3>1. conflict' = conflict \/ conflict' = [conflict EXCEPT ![n] = NoCloud]
      BY <2>12 DEF PullUpserts, Settle
    <3>2. QED
      BY <2>4, <2>5, <2>7, <2>12, <3>1, PulledRows DEF PullUpserts, TypeInv, TypeOK
  <2>13. QED
    BY <1>6, <2>8, <2>9, <2>10, <2>11, <2>12 DEF PullApply
<1>7. QED
  BY <1>1, <1>2, <1>3, <1>4, <1>5, <1>6

LEMMA TypeStep == TypeInv /\ [Next]_vars => TypeInv'
<1> SUFFICES ASSUME TypeInv, [Next]_vars PROVE TypeInv'
  OBVIOUS
<1>1. CASE UNCHANGED vars
  BY <1>1 DEF vars, TypeInv, TypeOK, NamesNotes
<1>2. CASE Next
  BY <1>2, UserTypes, SendTypes, CloudTypes, TakeTypes, PullTypes
     DEF Next, PassStep, FaultStep
<1>3. QED
  BY <1>1, <1>2

LEMMA TypeInit == Init => TypeInv
<1> SUFFICES ASSUME Init PROVE TypeInv
  OBVIOUS
<1>1. TypeOK
  <2>1. pc \in PC /\ denied \in BOOLEAN
    BY DEF Init, PC
  <2>2. QED
    BY <2>1, ConstantRows DEF Init, TypeOK
<1>2. NamesNotes
  BY DEF Init, NamesNotes, NoRow, NoFlight, Exists
<1>3. QED
  BY <1>1, <1>2 DEF TypeInv

(* Rows, requests, copies and the pass always hold what their types say,  *)
(* and nothing under way names a note that does not exist.                 *)
THEOREM TypesHold == Spec => []TypeOK
<1>1. Spec => []TypeInv
  BY TypeInit, TypeStep, PTL DEF Spec
<1>2. TypeInv => TypeOK
  BY DEF TypeInv
<1>3. QED
  BY <1>1, <1>2, PTL
========================================================================
