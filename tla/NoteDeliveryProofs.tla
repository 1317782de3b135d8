---------------------- MODULE NoteDeliveryProofs ----------------------
(* Theorems about NoteSync for every instance: the text of a settled row   *)
(* was delivered, deleted rows stay deleted, no answer rewinds a base,     *)
(* unpushed text survives answers and foreign pulls, linked rows have the  *)
(* copy they claim, and no revision is overwritten unseen.                 *)
EXTENDS NoteSyncProofs

IInv == TypeInv /\ DeliveryInv

(* The frame of every action that neither the cloud nor a peer takes. *)
LEMMA CloudFrame ==
    ASSUME TypeInv, Next
    PROVE  \/ UNCHANGED <<cloud, held>>
           \/ PeerStep
           \/ \E i \in Id, ch \in Channel : Serve(i, ch)
<1>1. CASE UserStep
  BY <1>1 DEF UserStep, CreateNote, EditNote, DeleteNote, KeepConflict,
              RefreshConflict, cloudVars
<1>2. CASE PassStep
  <2>1. CASE StartPass \/ SkipConflicted \/ StartDeletes \/ StartPull \/ PullList \/ EndPull
    BY <2>1 DEF StartPass, SkipConflicted, StartDeletes, StartPull, PullList, EndPull, cloudVars
  <2>2. CASE \E i \in Id : PassPush(i) \/ PassDelete(i)
    BY <2>2 DEF PassPush, PassDelete, cloudVars
  <2>3. CASE \E n \in Note : PullRead(n) \/ PullApply(n)
    BY <2>3 DEF PullRead, PullApply, PullRemoves, PullForks, PullKeepsLocal,
                PullConflicts, PullUpserts, cloudVars
  <2>4. QED
    BY <1>2, <2>1, <2>2, <2>3 DEF PassStep
<1>3. CASE \E i \in Id, s \in Slot : DebouncedPush(i, s)
  BY <1>3 DEF DebouncedPush, cloudVars
<1>4. CASE \E i \in Id, ch \in Channel : Take(i, ch)
  <2>1. PICK i \in Id, ch \in Channel : Take(i, ch)
    BY <1>4
  <2>2. CASE PatchSettled(i, ch) \/ PatchConflicted(i, ch) \/ PatchGone(i, ch)
    BY <2>2 DEF PatchSettled, PatchConflicted, PatchGone, cloudVars
  <2>3. CASE PushRevoked(i, ch) \/ PushFailed(i, ch) \/ PostAcknowledged(i, ch)
    BY <2>3 DEF PushRevoked, PushFailed, PostAcknowledged, cloudVars
  <2>4. CASE CleanupDone(i, ch) \/ DeleteDone(i, ch)
    BY <2>4 DEF CleanupDone, DeleteDone, cloudVars
  <2>5. QED
    BY <2>1, <2>2, <2>3, <2>4 DEF Take
<1>5. CASE FaultStep
  BY <1>5 DEF FaultStep, PullFailed, Restart, LoseRequest, cloudVars
<1>6. QED
  BY <1>1, <1>2, <1>3, <1>4, <1>5 DEF Next

(* What the cloud has held stays held, and a tombstone stays one. *)
LEMMA CloudRemembers ==
    ASSUME TypeInv, CopiesWereHeld, Next
    PROVE  /\ held \subseteq held'
           /\ \A n \in Note :
                 /\ cloud[n].life = "tomb" => cloud'[n].life = "tomb"
                 /\ cloud'[n].life = "live" => <<n, cloud'[n].body>> \in held'
<1> DEFINE Remembers ==
             /\ held \subseteq held'
             /\ \A n \in Note :
                   /\ cloud[n].life = "tomb" => cloud'[n].life = "tomb"
                   /\ cloud'[n].life = "live" => <<n, cloud'[n].body>> \in held'
<1>0. /\ cloud \in [Note -> CloudRow]
      /\ \A n \in Note : cloud[n].life = "live" => <<n, cloud[n].body>> \in held
      /\ \A i \in Id, ch \in Channel :
            flight[i][ch].op # "none" => flight[i][ch].snap.cid \in Note
  BY DEF TypeInv, TypeOK, NamesNotes, CopiesWereHeld
<1>1. CASE UNCHANGED <<cloud, held>>
  BY <1>0, <1>1
<1>2. ASSUME NEW i \in Id, NEW ch \in Channel, NEW n \in Note, NEW life, NEW body,
             cloud[n].life # "tomb", Store(i, ch, n, life, body)
      PROVE  Remembers
  BY <1>0, <1>2 DEF Store
<1>3. ASSUME NEW i \in Id, NEW ch \in Channel, NEW reply, NEW copy,
             Refuse(i, ch, reply, copy)
      PROVE  Remembers
  BY <1>0, <1>3 DEF Refuse, cloudVars
<1>4. ASSUME NEW i \in Id, NEW ch \in Channel, Serve(i, ch)
      PROVE  Remembers
  <2>1. flight[i][ch].snap.cid \in Note
    BY <1>0, <1>4 DEF Serve, ServePatch, ServePost, ServeDelete, Waiting
  <2>2. CASE ServePatch(i, ch)
    BY <2>1, <2>2, <1>2, <1>3 DEF ServePatch
  <2>3. CASE ServePost(i, ch)
    BY <2>1, <2>3, <1>2, <1>3 DEF ServePost
  <2>4. CASE ServeDelete(i, ch)
    BY <2>1, <2>4, <1>2, <1>3 DEF ServeDelete
  <2>5. QED
    BY <1>4, <2>2, <2>3, <2>4 DEF Serve
<1>5. ASSUME NEW n \in Note, PeerCreate(n)
      PROVE  Remembers
  BY <1>0, <1>5 DEF PeerCreate
<1>6. ASSUME NEW n \in Note, PeerWrite(n)
      PROVE  Remembers
  BY <1>0, <1>6 DEF PeerWrite, CloudRow
<1>7. ASSUME NEW n \in Note, NEW life \in {"tomb", "lost"}, PeerRemove(n, life)
      PROVE  Remembers
  BY <1>0, <1>7 DEF PeerRemove, CloudRow
<1>8. QED
  BY CloudFrame, <1>1, <1>4, <1>5, <1>6, <1>7 DEF PeerStep

(* Delivery is never taken back. *)
LEMMA DeliveredStays ==
    ASSUME TypeInv, CopiesWereHeld, Next, NEW n \in Note, NEW b
    PROVE  <<n, b>> \in held \/ cloud[n].life = "tomb"
             => <<n, b>> \in held' \/ cloud'[n].life = "tomb"
BY CloudRemembers

LEMMA CopiesStep ==
    ASSUME TypeInv, DeliveryInv, Next
    PROVE  CopiesWereHeld'
<1>0. /\ held \subseteq held'
      /\ \A n \in Note :
            /\ cloud'[n].life = "live" => <<n, cloud'[n].body>> \in held'
            /\ cloud[n].life = "live" => <<n, cloud[n].body>> \in held'
            /\ page[n].life = "live" => <<n, page[n].body>> \in held'
            /\ conflict[n].life # "none" => <<n, conflict[n].body>> \in held'
      /\ NoCloud.life = "none"
  BY CloudRemembers DEF DeliveryInv, CopiesWereHeld, NoCloud
<1>1. ASSUME page' = page \/ (\E n \in Note : Applied(n)) \/ PullList \/ Restart
      PROVE  \A n \in Note : page'[n].life = "live" => <<n, page'[n].body>> \in held'
  BY <1>0, <1>1 DEF Applied, PullList, Listed, Restart, TypeInv, TypeOK
<1>2. ASSUME NEW n \in Note, NEW c \in CloudRow,
             conflict' = [conflict EXCEPT ![n] = c],
             c.life # "none" => <<n, c.body>> \in held'
      PROVE  \A m \in Note :
                conflict'[m].life # "none" => <<m, conflict'[m].body>> \in held'
  BY <1>0, <1>2 DEF TypeInv, TypeOK
<1> DEFINE PageHeld == \A n \in Note :
             page'[n].life = "live" => <<n, page'[n].body>> \in held'
           ConflictHeld == \A n \in Note :
             conflict'[n].life # "none" => <<n, conflict'[n].body>> \in held'
<1>3. ASSUME UNCHANGED <<page, conflict>> PROVE PageHeld /\ ConflictHeld
  BY <1>0, <1>3
<1>4. CASE UserStep
  <2>1. page' = page
    BY <1>4 DEF UserStep, CreateNote, EditNote, DeleteNote, KeepConflict,
                RefreshConflict, passVars
  <2>2. \/ conflict' = conflict
        \/ \E i \in Id : /\ Exists(row[i])
                        /\ conflict' = [conflict EXCEPT ![row[i].cid] = NoCloud]
    BY <1>4 DEF UserStep, CreateNote, EditNote, DeleteNote, KeepConflict,
                RefreshConflict, Exists
  <2>3. ConflictHeld
    BY <1>0, <2>2, ConstantRows DEF TypeInv, TypeOK
  <2>4. QED
    BY <1>0, <1>1, <2>1, <2>3 DEF CopiesWereHeld
<1>5. CASE PeerStep
  BY <1>0, <1>3, <1>5 DEF PeerStep, PeerCreate, PeerWrite, PeerRemove, userVars,
                          passVars, CopiesWereHeld
<1>6. CASE \/ StartPass \/ SkipConflicted \/ StartDeletes \/ StartPull \/ EndPull
           \/ \E i \in Id : PassPush(i) \/ PassDelete(i)
           \/ \E n \in Note : PullRead(n)
  BY <1>0, <1>3, <1>6 DEF StartPass, SkipConflicted, StartDeletes, StartPull, EndPull, PassPush,
                          PassDelete, PullRead, userVars, CopiesWereHeld
<1>7. CASE PullList
  <2>1. conflict' = conflict
    BY <1>7 DEF PullList, userVars
  <2>2. QED
    BY <1>0, <1>1, <1>7, <2>1 DEF CopiesWereHeld
<1>8. ASSUME NEW n \in Note, PullApply(n)
      PROVE  CopiesWereHeld'
  <2>1. Applied(n)
    BY <1>8 DEF PullApply, PullRemoves, PullForks, PullKeepsLocal, PullConflicts,
                PullUpserts
  <2>2. \/ conflict' = conflict
        \/ conflict' = [conflict EXCEPT ![n] = NoCloud]
        \/ /\ conflict' = [conflict EXCEPT ![n] = page[n]]
           /\ page[n].life = "live"
    BY <1>8 DEF PullApply, PullRemoves, PullForks, PullKeepsLocal, PullConflicts,
                PullUpserts, Settle, Wins, userVars
  <2>3. page[n] \in CloudRow
    BY DEF TypeInv, TypeOK
  <2>4. ConflictHeld
    BY <1>0, <1>2, <2>2, <2>3, ConstantRows
  <2>5. QED
    BY <1>0, <1>1, <2>1, <2>4 DEF CopiesWereHeld
<1>9. CASE \E i \in Id, s \in Slot : DebouncedPush(i, s)
  BY <1>0, <1>3, <1>9 DEF DebouncedPush, passVars, CopiesWereHeld
<1>10. CASE \E i \in Id, ch \in Channel : Serve(i, ch)
  <2>1. UNCHANGED <<page, conflict>>
    BY <1>10, ZenonT(30) DEF Serve, ServePatch, ServePost, ServeDelete, userVars, passVars
  <2>2. QED
    BY <1>0, <1>3, <2>1 DEF CopiesWereHeld
<1>11. ASSUME NEW i \in Id, NEW ch \in Channel, Take(i, ch)
       PROVE  CopiesWereHeld'
  <2> DEFINE f == flight[i][ch]
             n == f.snap.cid
  <2>1. page' = page
    BY <1>11 DEF Take, PatchSettled, PatchConflicted, PatchGone, PushRevoked,
                 PushFailed, PostAcknowledged, CleanupDone, DeleteDone, passVars
  <2>2. \/ conflict' = conflict
        \/ /\ f.op # "none"
           /\ conflict' = [conflict EXCEPT ![n] = NoCloud]
        \/ /\ f.op # "none" /\ f.reply = "conflict"
           /\ conflict' = [conflict EXCEPT ![n] = f.copy]
    BY <1>11 DEF Take, PatchSettled, PatchConflicted, PatchGone, PushRevoked,
                 PushFailed, PostAcknowledged, CleanupDone, DeleteDone, userVars
  <2>3. f.op # "none" => n \in Note
    BY DEF TypeInv, NamesNotes
  <2>4. f.copy \in CloudRow
    BY DEF TypeInv, TypeOK, Flight
  <2>5. f.reply = "conflict" => <<n, f.copy.body>> \in held'
    BY <1>0 DEF DeliveryInv, AnswersWereHeld
  <2>6. ConflictHeld
    BY <1>0, <1>2, <2>2, <2>3, <2>4, <2>5, ConstantRows
  <2>7. QED
    BY <1>0, <1>1, <2>1, <2>6 DEF CopiesWereHeld
<1>12. CASE Restart
  <2>1. conflict' = conflict
    BY <1>12 DEF Restart
  <2>2. QED
    BY <1>0, <1>1, <1>12, <2>1 DEF CopiesWereHeld
<1>13. CASE PullFailed \/ \E i \in Id, ch \in Channel : LoseRequest(i, ch)
  BY <1>0, <1>3, <1>13 DEF PullFailed, LoseRequest, userVars, passVars, CopiesWereHeld
<1>14. QED
  BY <1>4, <1>5, <1>6, <1>7, <1>8, <1>9, <1>10, <1>11, <1>12, <1>13
     DEF Next, PassStep, FaultStep

LEMMA AnswersStep ==
    ASSUME TypeInv, DeliveryInv, Next
    PROVE  AnswersWereHeld'
<1> DEFINE Was(r) == <<r.cid, r.body>> \in held' \/ cloud'[r.cid].life = "tomb"
           Confirmed(f) ==
             /\ f.op \in {"patch", "post"} /\ f.reply = "ok" => Was(f.snap)
             /\ f.reply = "conflict" => <<f.snap.cid, f.copy.body>> \in held'
           Sent(f) == f.op # "none" => f.snap.cid \in Note
<1>0. \A i \in Id, ch \in Channel : flight[i][ch] \in Flight /\ Sent(flight[i][ch])
  BY DEF TypeInv, TypeOK, NamesNotes
<1>1. \A i \in Id, ch \in Channel : Confirmed(flight[i][ch])
  <2>1. TAKE i \in Id, ch \in Channel
  <2> DEFINE f == flight[i][ch]
  <2>2. /\ f.op \in {"patch", "post"} /\ f.reply = "ok" => Delivered(f.snap)
        /\ f.reply = "conflict" => <<f.snap.cid, f.copy.body>> \in held
    BY DEF DeliveryInv, AnswersWereHeld
  <2>3. f.op \in {"patch", "post"} => f.snap.cid \in Note
    BY <1>0
  <2>4. held \subseteq held'
    BY CloudRemembers DEF DeliveryInv
  <2>5. f.snap.cid \in Note /\ Delivered(f.snap) => Was(f.snap)
    BY DeliveredStays DEF Delivered, DeliveryInv
  <2>6. QED
    BY <2>2, <2>3, <2>4, <2>5
<1>2. ASSUME flight' = flight PROVE AnswersWereHeld'
  BY <1>1, <1>2 DEF AnswersWereHeld, Delivered
<1>3. ASSUME NEW i \in Id, NEW ch \in Channel, NEW f, Confirmed(f),
             flight' = [flight EXCEPT ![i][ch] = f]
      PROVE  AnswersWereHeld'
  <2>1. \A j \in Id, c \in Channel :
          flight'[j][c] = IF j = i /\ c = ch THEN f ELSE flight[j][c]
    BY <1>3 DEF TypeInv, TypeOK
  <2>2. \A j \in Id, c \in Channel : Confirmed(flight'[j][c])
    BY <1>1, <1>3, <2>1
  <2>3. QED
    BY <2>2 DEF AnswersWereHeld, Delivered
<1>4. Confirmed(NoFlight) /\ \A op, snap : Confirmed(Request(op, snap))
  BY DEF NoFlight, Request
<1> HIDE DEF Confirmed
<1>5. CASE UserStep \/ PeerStep
  BY <1>2, <1>5 DEF UserStep, CreateNote, EditNote, DeleteNote, KeepConflict,
                    RefreshConflict, PeerStep, PeerCreate, PeerWrite, PeerRemove
<1>6. CASE \/ StartPass \/ SkipConflicted \/ StartDeletes \/ StartPull \/ PullList \/ EndPull
           \/ PullFailed \/ \E n \in Note : PullRead(n)
  BY <1>2, <1>6 DEF StartPass, SkipConflicted, StartDeletes, StartPull, PullList, EndPull,
                    PullFailed, PullRead
<1>7. CASE \E n \in Note : PullApply(n)
  BY <1>2, <1>7 DEF PullApply, PullRemoves, PullForks, PullKeepsLocal,
                    PullConflicts, PullUpserts
<1>8. CASE \/ \E i \in Id : PassPush(i) \/ PassDelete(i)
           \/ \E i \in Id, s \in Slot : DebouncedPush(i, s)
  <2>1. Pass \in Channel /\ Slot \subseteq Channel
    BY DEF Channel
  <2>2. ASSUME NEW i \in Id, PassPush(i) \/ PassDelete(i)
        PROVE  AnswersWereHeld'
    <3>1. \/ flight' = [flight EXCEPT ![i][Pass] = Request("delete", todo[i])]
          \/ flight' = [flight EXCEPT ![i][Pass] =
                          Request(IF todo[i].linked THEN "patch" ELSE "post", todo[i])]
      BY <2>2 DEF PassPush, PassDelete
    <3>2. QED
      BY <1>3, <1>4, <2>1, <3>1
  <2>3. ASSUME NEW i \in Id, NEW s \in Slot, DebouncedPush(i, s)
        PROVE  AnswersWereHeld'
    <3>1. \/ flight' = flight
          \/ flight' = [flight EXCEPT ![i][s] =
                          Request(IF row[i].linked THEN "patch" ELSE "post", row[i])]
      BY <2>3 DEF DebouncedPush
    <3>2. QED
      BY <1>2, <1>3, <1>4, <2>1, <3>1
  <2>4. QED
    BY <1>8, <2>2, <2>3
<1>9. ASSUME NEW i \in Id, NEW ch \in Channel, NEW reply, NEW copy,
             Answer(i, ch, reply, copy),
             Confirmed([flight[i][ch] EXCEPT !.reply = reply, !.copy = copy])
      PROVE  AnswersWereHeld'
  <2>1. flight' = [flight EXCEPT ![i][ch] =
                     [flight[i][ch] EXCEPT !.reply = reply, !.copy = copy]]
    BY <1>9 DEF Answer, TypeInv, TypeOK
  <2>2. QED
    BY <1>3, <1>9, <2>1
<1>10. ASSUME NEW i \in Id, NEW ch \in Channel, Serve(i, ch) \/ LoseRequest(i, ch)
       PROVE  AnswersWereHeld'
  <2> DEFINE f == flight[i][ch]
             s == f.snap
             n == s.cid
             Filled(reply, copy) == [f EXCEPT !.reply = reply, !.copy = copy]
  <2>1. f \in Flight
    BY <1>0
  <2>2. \A reply, copy : /\ Filled(reply, copy).op = f.op
                         /\ Filled(reply, copy).reply = reply
                         /\ Filled(reply, copy).snap = f.snap
                         /\ Filled(reply, copy).copy = copy
    BY <2>1 DEF Flight
  <2> HIDE DEF Filled
  <2>3. \A reply, copy :
          reply \in {"gone", "revoked", "denied", "fail"} => Confirmed(Filled(reply, copy))
    BY <2>2 DEF Confirmed
  <2>4. ASSUME NEW reply, NEW copy, Answer(i, ch, reply, copy),
               Confirmed(Filled(reply, copy))
        PROVE  AnswersWereHeld'
    BY <1>9, <2>4 DEF Filled
  <2>5. CASE LoseRequest(i, ch)
    BY <2>3, <2>4, <2>5 DEF LoseRequest
  <2>6. CASE ServePatch(i, ch)
    <3>1. f.op = "patch" /\ n \in Note
      BY <1>0, <2>6 DEF ServePatch, Waiting
    <3>2. \/ \E copy : Answer(i, ch, "gone", copy) \/ Answer(i, ch, "revoked", copy)
          \/ Answer(i, ch, "conflict", cloud[n]) /\ cloud[n].life = "live"
          \/ \E copy : Answer(i, ch, "ok", copy) /\ <<n, s.body>> \in held'
      BY <2>6 DEF ServePatch, Refuse, Store
    <3>3. cloud[n].life = "live" => <<n, cloud[n].body>> \in held'
      BY <3>1, CloudRemembers DEF DeliveryInv, CopiesWereHeld
    <3>4. cloud[n].life = "live" => Confirmed(Filled("conflict", cloud[n]))
      <4>1. /\ Filled("conflict", cloud[n]).reply = "conflict"
            /\ Filled("conflict", cloud[n]).snap = s
            /\ Filled("conflict", cloud[n]).copy = cloud[n]
        BY <2>2
      <4>2. QED
        BY <3>3, <4>1 DEF Confirmed
    <3>5. \A copy : <<n, s.body>> \in held' => Confirmed(Filled("ok", copy))
      BY <2>2 DEF Confirmed
    <3>6. QED
      BY <2>3, <2>4, <3>2, <3>4, <3>5
  <2>7. CASE ServePost(i, ch)
    <3>1. n \in Note
      BY <1>0, <2>7 DEF ServePost, Waiting
    <3>2. \/ \E copy : Answer(i, ch, "revoked", copy)
          \/ \E copy : /\ Answer(i, ch, "ok", copy)
                       /\ <<n, s.body>> \in held' \/ cloud[n].life = "tomb"
      BY <2>7 DEF ServePost, Refuse, Store
    <3>3. \A copy : <<n, s.body>> \in held' \/ cloud[n].life = "tomb"
                      => Confirmed(Filled("ok", copy))
      <4>1. <<n, s.body>> \in held' \/ cloud[n].life = "tomb" => Was(s)
        BY <3>1, CloudRemembers DEF DeliveryInv
      <4>2. \A copy : /\ Filled("ok", copy).reply = "ok"
                      /\ Filled("ok", copy).snap = s
        BY <2>2
      <4>3. QED
        BY <4>1, <4>2 DEF Confirmed
    <3>4. QED
      BY <2>3, <2>4, <3>2, <3>3
  <2>8. CASE ServeDelete(i, ch)
    <3>1. f.op \in {"delete", "cleanup"}
      BY <2>8 DEF ServeDelete, Waiting
    <3>2. \E copy : \/ Answer(i, ch, "ok", copy)
                   \/ Answer(i, ch, "gone", copy)
                   \/ Answer(i, ch, "denied", copy)
      BY <2>8 DEF ServeDelete, Refuse, Store
    <3>3. \A copy : Confirmed(Filled("ok", copy))
      BY <2>2, <3>1 DEF Confirmed
    <3>4. QED
      BY <2>3, <2>4, <3>2, <3>3
  <2>9. QED
    BY <1>10, <2>5, <2>6, <2>7, <2>8 DEF Serve
<1>11. ASSUME NEW i \in Id, NEW ch \in Channel, Take(i, ch)
       PROVE  AnswersWereHeld'
  <2>1. \/ flight' = [flight EXCEPT ![i][ch] = NoFlight]
        \/ flight' = [flight EXCEPT ![i][ch] = Request("cleanup", flight[i][ch].snap)]
    BY <1>11 DEF Take, PatchSettled, PatchConflicted, PatchGone, PushRevoked,
                 PushFailed, PostAcknowledged, CleanupDone, DeleteDone, Free
  <2>2. QED
    BY <1>3, <1>4, <2>1
<1>12. CASE Restart
  <2>1. \A i \in Id, ch \in Channel : flight'[i][ch] = NoFlight
    BY <1>12 DEF Restart
  <2>2. QED
    BY <2>1 DEF AnswersWereHeld, NoFlight
<1>13. QED
  BY <1>5, <1>6, <1>7, <1>8, <1>10, <1>11, <1>12
     DEF Next, PassStep, FaultStep

LEMMA SettledStep ==
    ASSUME TypeInv, DeliveryInv, Next
    PROVE  SettledTextWasDelivered'
<1> DEFINE Was(r) == <<r.cid, r.body>> \in held' \/ cloud'[r.cid].life = "tomb"
           Fine(r) == r.life = "live" /\ r.status = "synced" /\ r.at # 0
                        => r.linked /\ Was(r)
<1>0. \A j \in Id : row[j] \in Row /\ Fine(row[j])
  <2>1. TAKE j \in Id
  <2>2. row[j] \in Row /\ (Exists(row[j]) => row[j].cid \in Note)
    BY DEF TypeInv, TypeOK, NamesNotes
  <2>3. row[j].cid \in Note /\ Delivered(row[j]) => Was(row[j])
    BY DeliveredStays DEF Delivered, DeliveryInv
  <2>4. QED
    BY <2>2, <2>3 DEF DeliveryInv, SettledTextWasDelivered, Exists
<1>1. ASSUME \A j \in Id : row'[j] = row[j] \/ Fine(row'[j])
      PROVE  SettledTextWasDelivered'
  <2>1. \A j \in Id : Fine(row'[j])
    BY <1>0, <1>1
  <2>2. QED
    BY <2>1 DEF SettledTextWasDelivered, Delivered
<1>2. ASSUME NEW i \in Id, NEW r, Fine(r), row' = [row EXCEPT ![i] = r]
      PROVE  SettledTextWasDelivered'
  <2>1. \A j \in Id : row'[j] = row[j] \/ Fine(row'[j])
    BY <1>2 DEF TypeInv, TypeOK
  <2>2. QED
    BY <1>1, <2>1
<1>3. ASSUME NEW n \in Note
      PROVE  /\ page[n].life = "live" => <<n, page[n].body>> \in held'
             /\ conflict[n].life # "none" => <<n, conflict[n].body>> \in held'
  BY CloudRemembers DEF DeliveryInv, CopiesWereHeld
<1>4. ASSUME NEW ids, Fork(ids)
      PROVE  SettledTextWasDelivered'
  <2>1. PICK m \in Note :
          row' = [j \in Id |-> IF j \in ids /\ Exists(row[j])
                              THEN ForkedNote(row[j], m, clock + 1)
                              ELSE row[j]]
    BY <1>4 DEF Fork
  <2>2. \A j \in Id : Fine(ForkedNote(row[j], m, clock + 1))
    BY <1>0 DEF ForkedNote, Row
  <2>3. QED
    BY <1>1, <2>1, <2>2
<1>5. /\ \A r : Fine(HardDeletedNote(r)) \/ HardDeletedNote(r) = r
      /\ \A r \in Row : Fine(RestoredNote(r)) \/ RestoredNote(r) = r
  <2>1. \A r : Fine(HardDeletedNote(r)) \/ HardDeletedNote(r) = r
    BY DEF HardDeletedNote, GoneRow, NoRow
  <2>2. \A r \in Row : RestoredNote(r).at = 0 \/ RestoredNote(r) = r
    BY DEF RestoredNote, Row
  <2>3. QED
    BY <2>1, <2>2
<1>6. CASE UserStep
  <2>1. ASSUME NEW i \in Id, NEW n \in Note, CreateNote(i, n)
        PROVE  SettledTextWasDelivered'
    <3>1. Fine(SavedNote(n, clock + 1))
      BY DEF SavedNote
    <3>2. QED
      BY <1>2, <2>1, <3>1 DEF CreateNote
  <2>2. ASSUME NEW i \in Id, EditNote(i)
        PROVE  SettledTextWasDelivered'
    <3>1. Fine(EditedNote(row[i], clock + 1))
      BY <1>0 DEF EditedNote, Row
    <3>2. QED
      BY <1>2, <2>2, <3>1 DEF EditNote
  <2>3. ASSUME NEW i \in Id, DeleteNote(i)
        PROVE  SettledTextWasDelivered'
    <3>1. Fine(DeletedNote(row[i], clock + 1))
      BY <1>0 DEF DeletedNote, Row
    <3>2. QED
      BY <1>2, <2>3, <3>1 DEF DeleteNote
  <2>4. ASSUME NEW i \in Id, KeepConflict(i)
        PROVE  SettledTextWasDelivered'
    <3>1. Fine(KeptNote(row[i], conflict[row[i].cid].at))
      BY <1>0 DEF KeptNote, Row
    <3>2. QED
      BY <1>2, <2>4, <3>1 DEF KeepConflict
  <2>5. ASSUME NEW i \in Id, RefreshConflict(i)
        PROVE  SettledTextWasDelivered'
    <3> DEFINE n == row[i].cid
    <3>1. n \in Note /\ conflict[n].life # "none"
      BY <2>5 DEF RefreshConflict, Conflicted, TypeInv, NamesNotes, Exists
    <3>2. <<n, conflict[n].body>> \in held'
      BY <1>3, <3>1
    <3>3. Fine(UpsertedNote(row[i], conflict[n]))
      BY <1>0, <3>2 DEF UpsertedNote, Row
    <3>4. QED
      BY <1>2, <2>5, <3>3 DEF RefreshConflict
  <2>6. QED
    <3>1. CASE \E i \in Id, n \in Note : CreateNote(i, n)
      BY <2>1, <3>1
    <3>2. CASE \E i \in Id : EditNote(i) \/ DeleteNote(i) \/ KeepConflict(i) \/ RefreshConflict(i)
      BY <2>2, <2>3, <2>4, <2>5, <3>2
    <3>3. QED
      BY <1>6, <3>1, <3>2 DEF UserStep
<1>7. CASE PeerStep
  BY <1>1, <1>7 DEF PeerStep, PeerCreate, PeerWrite, PeerRemove, userVars
<1>8. CASE \/ StartPass \/ SkipConflicted \/ StartDeletes \/ StartPull \/ PullList \/ EndPull
           \/ \E i \in Id : PassPush(i) \/ PassDelete(i)
           \/ \E n \in Note : PullRead(n)
  BY <1>1, <1>8 DEF StartPass, SkipConflicted, StartDeletes, StartPull, PullList, EndPull, PassPush,
                    PassDelete, PullRead, userVars
<1>9. CASE FaultStep \/ \E i \in Id, s \in Slot : DebouncedPush(i, s)
  BY <1>1, <1>9 DEF FaultStep, PullFailed, Restart, LoseRequest, DebouncedPush,
                    userVars
<1>10. CASE \E i \in Id, ch \in Channel : Serve(i, ch)
  <2>1. PICK i \in Id, ch \in Channel : Serve(i, ch)
    BY <1>10
  <2>2. UNCHANGED row
    BY <2>1 DEF Serve, ServePatch, ServePost, ServeDelete, userVars
  <2>3. QED
    BY <1>1, <2>2
<1>11. ASSUME NEW n \in Note, PullApply(n)
       PROVE  SettledTextWasDelivered'
  <2>1. CASE PullRemoves(n)
    <3>1. HardDeleteRead \/ row' = row
      BY <2>1 DEF PullRemoves
    <3>2. \A j \in Id : \/ row'[j] = row[j]
                        \/ row'[j] = HardDeletedNote(row[j])
      BY <3>1 DEF HardDeleteRead
    <3>3. QED
      BY <1>1, <1>5, <3>2
  <2>2. CASE PullForks(n)
    BY <1>4, <2>2 DEF PullForks
  <2>3. CASE PullKeepsLocal(n) \/ PullConflicts(n)
    BY <1>1, <2>3 DEF PullKeepsLocal, PullConflicts, userVars
  <2>4. CASE PullUpserts(n)
    <3>1. page[n].life = "live"
      BY <2>4 DEF PullUpserts, Wins
    <3>2. <<n, page[n].body>> \in held'
      BY <1>3, <3>1
    <3>3. \A i \in RowsOf(n) : Fine(UpsertedNote(row[i], page[n]))
      BY <1>0, <3>2 DEF UpsertedNote, RowsOf, Row
    <3>4. Fine(InsertedNote(n, page[n]))
      BY <3>2 DEF InsertedNote
    <3>5. \E i \in Id :
            \/ /\ i \in RowsOf(n)
               /\ row' = [row EXCEPT ![i] = UpsertedNote(row[i], page[n])]
            \/ row' = [row EXCEPT ![i] = InsertedNote(n, page[n])]
      BY <2>4 DEF PullUpserts, RowsOf
    <3>6. QED
      BY <1>2, <3>3, <3>4, <3>5
  <2>5. QED
    BY <1>11, <2>1, <2>2, <2>3, <2>4 DEF PullApply
<1>12. ASSUME NEW i \in Id, NEW ch \in Channel, Take(i, ch)
       PROVE  SettledTextWasDelivered'
  <2> DEFINE f == flight[i][ch]
             n == f.snap.cid
  <2>1. /\ f.snap \in Row
        /\ f.op \in {"patch", "post"} => n \in Note
    BY DEF TypeInv, TypeOK, NamesNotes, Flight
  <2>2. f.op \in {"patch", "post"} /\ f.reply = "ok" => Was(f.snap)
    <3>1. n \in Note /\ Delivered(f.snap) => Was(f.snap)
      BY DeliveredStays DEF Delivered, DeliveryInv
    <3>2. f.op \in {"patch", "post"} /\ f.reply = "ok" => Delivered(f.snap)
      BY DEF DeliveryInv, AnswersWereHeld
    <3>3. QED
      BY <2>1, <3>1, <3>2
  <2>3. CASE PatchSettled(i, ch)
    <3>1. Was(f.snap)
      BY <2>2, <2>3 DEF PatchSettled
    <3>2. Fine(SettledNote(row[i], f.snap, f.copy.at))
      BY <1>0, <2>1, <3>1 DEF SettledNote, SamePatchIdentity, Row
    <3>3. QED
      BY <1>2, <2>3, <3>2 DEF PatchSettled, SetRow
  <2>4. CASE PatchConflicted(i, ch) \/ CleanupDone(i, ch)
    BY <1>1, <2>4 DEF PatchConflicted, CleanupDone, userVars
  <2>5. Fine(ErroredNote(row[i]))
    BY <1>0 DEF ErroredNote, Exists, Row
  <2>6. CASE PatchGone(i, ch)
    BY <1>2, <1>4, <2>5, <2>6 DEF PatchGone, SetRow
  <2>7. CASE PushRevoked(i, ch)
    BY <1>4, <2>7 DEF PushRevoked
  <2>8. CASE PushFailed(i, ch)
    <3>1. Fine(IF ch = Pass THEN ErroredNote(row[i]) ELSE row[i])
      BY <1>0, <2>5
    <3>2. QED
      BY <1>2, <2>8, <3>1 DEF PushFailed, SetRow
  <2>9. CASE PostAcknowledged(i, ch)
    <3>1. Was(f.snap)
      BY <2>2, <2>9 DEF PostAcknowledged
    <3>2. Fine(AdoptedNote(row[i], f.snap, f.copy.at))
      BY <1>0, <2>1, <3>1 DEF AdoptedNote, CreateAdoptable, Row
    <3>3. QED
      BY <1>2, <2>9, <3>2 DEF PostAcknowledged, SetRow
  <2>10. CASE DeleteDone(i, ch)
    <3>1. \/ row' = row
          \/ row' = [row EXCEPT ![i] = HardDeletedNote(row[i])]
          \/ row' = [row EXCEPT ![i] = RestoredNote(row[i])]
      BY <2>10 DEF DeleteDone
    <3>2. \A j \in Id : \/ row'[j] = row[j]
                        \/ row'[j] = HardDeletedNote(row[j])
                        \/ row'[j] = RestoredNote(row[j])
      BY <3>1 DEF TypeInv, TypeOK
    <3>3. QED
      BY <1>0, <1>1, <1>5, <3>2
  <2>11. QED
    BY <1>12, <2>3, <2>4, <2>6, <2>7, <2>8, <2>9, <2>10 DEF Take
<1>13. QED
  BY <1>6, <1>7, <1>8, <1>9, <1>10, <1>11, <1>12 DEF Next, PassStep
------------------------------------------------------------------------
LEMMA DeliveryStep == IInv /\ [Next]_vars => IInv'
<1> SUFFICES ASSUME IInv, [Next]_vars PROVE IInv'
  OBVIOUS
<1>1. TypeInv'
  BY TypeStep DEF IInv
<1>2. CASE UNCHANGED vars
  BY <1>1, <1>2 DEF vars, IInv, DeliveryInv, SettledTextWasDelivered, Delivered,
                    CopiesWereHeld, AnswersWereHeld
<1>3. CASE Next
  BY <1>1, <1>3, CopiesStep, AnswersStep, SettledStep DEF IInv, DeliveryInv
<1>4. QED
  BY <1>2, <1>3

LEMMA DeliveryInit == Init => IInv
<1> SUFFICES ASSUME Init PROVE IInv
  OBVIOUS
<1>1. TypeInv
  BY TypeInit
<1>2. DeliveryInv
  BY DEF Init, DeliveryInv, SettledTextWasDelivered, CopiesWereHeld,
         AnswersWereHeld, NoRow, NoCloud, NoFlight
<1>3. QED
  BY <1>1, <1>2 DEF IInv

(* Copies, confirmed snapshots and settled rows only ever hold texts the  *)
(* cloud has held under their identity.                                    *)
THEOREM DeliveryHolds == Spec => []DeliveryInv
<1>1. Spec => []IInv
  BY DeliveryInit, DeliveryStep, PTL DEF Spec
<1>2. IInv => DeliveryInv
  BY DEF IInv
<1>3. QED
  BY <1>1, <1>2, PTL

(* A row marked synced holds a text the cloud has held, or its note has   *)
(* been deleted there: no order of edits, answers and pulls strands an     *)
(* edit behind a settled row.                                              *)
THEOREM SettledTextDelivered == Spec => []SettledTextWasDelivered
<1>1. DeliveryInv => SettledTextWasDelivered
  BY DEF DeliveryInv
<1>2. QED
  BY <1>1, DeliveryHolds, PTL
------------------------------------------------------------------------
(* Who writes a row, and what: every step leaves a row alone or applies to *)
(* it one operator of NoteRow, in an action named here.                    *)

(* An action that may continue row j under a fresh identity. *)
Forks(j) ==
    \/ \E ch \in Channel : PatchGone(j, ch) \/ PushRevoked(j, ch)
    \/ \E n \in Note : PullForks(n) /\ j \in readIds

(* The writes of row j, each with the action that makes it. *)
Written(j) ==
    \/ \E n \in Note : CreateNote(j, n) /\ row'[j] = SavedNote(n, clock + 1)
    \/ EditNote(j) /\ row'[j] = EditedNote(row[j], clock + 1)
    \/ DeleteNote(j) /\ row'[j] = DeletedNote(row[j], clock + 1)
    \/ KeepConflict(j) /\ row'[j] = KeptNote(row[j], conflict[row[j].cid].at)
    \/ RefreshConflict(j) /\ row'[j] = UpsertedNote(row[j], conflict[row[j].cid])
    \/ \E ch \in Channel :
          LET f == flight[j][ch] IN
          \/ PatchSettled(j, ch) /\ row'[j] = SettledNote(row[j], f.snap, f.copy.at)
          \/ PostAcknowledged(j, ch) /\ row'[j] = AdoptedNote(row[j], f.snap, f.copy.at)
          \/ /\ DeleteDone(j, ch) /\ f.reply \notin {"fail", "denied"}
             /\ row'[j] = HardDeletedNote(row[j])
          \/ /\ DeleteDone(j, ch) /\ f.reply = "denied"
             /\ row'[j] = RestoredNote(row[j])
    \/ row'[j] = ErroredNote(row[j])
    \/ \E n \in Note : PullRemoves(n) /\ j \in readIds /\ row'[j] = HardDeletedNote(row[j])
    \/ Forks(j) /\ \E m \in Note : /\ origin[m] = "unused" /\ Exists(row[j])
                                   /\ row'[j] = ForkedNote(row[j], m, clock + 1)
    \/ \E n \in Note : /\ PullUpserts(n) /\ j \in RowsOf(n)
                       /\ row'[j] = UpsertedNote(row[j], page[n])
    \/ \E n \in Note : /\ PullUpserts(n) /\ RowsOf(n) = {} /\ row[j].life = "unused"
                       /\ row'[j] = InsertedNote(n, page[n])

LEMMA SetsRow ==
    ASSUME row \in [Id -> Row], NEW i \in Id, NEW r, row' = [row EXCEPT ![i] = r]
    PROVE  row'[i] = r /\ \A j \in Id : j # i => row'[j] = row[j]
OBVIOUS

LEMMA TakeWrites ==
    ASSUME TypeInv, NEW i \in Id, NEW ch \in Channel, Take(i, ch), NEW j \in Id
    PROVE  row'[j] = row[j] \/ (j = i /\ Written(j))
<1>0. row \in [Id -> Row]
  BY DEF TypeInv, TypeOK
<1> DEFINE f == flight[i][ch]
<1>1. CASE PatchSettled(i, ch)
  BY <1>0, <1>1, SetsRow DEF PatchSettled, SetRow, Written
<1>2. CASE PostAcknowledged(i, ch)
  BY <1>0, <1>2, SetsRow DEF PostAcknowledged, SetRow, Written
<1>3. CASE PushFailed(i, ch)
  <2>1. SetRow(i, ErroredNote(row[i])) \/ SetRow(i, row[i])
    BY <1>3 DEF PushFailed
  <2>2. QED
    BY <1>0, <2>1, SetsRow DEF SetRow, Written
<1>4. ASSUME Fork({i}), Forks(i)
      PROVE  row'[j] = row[j] \/ (j = i /\ Written(j))
  BY <1>0, <1>4 DEF Fork, Written
<1>5. CASE PushRevoked(i, ch)
  BY <1>4, <1>5 DEF PushRevoked, Forks
<1>6. CASE PatchGone(i, ch)
  <2>1. SetRow(i, ErroredNote(row[i])) \/ Fork({i})
    BY <1>6 DEF PatchGone
  <2>2. QED
    BY <1>0, <1>4, <1>6, <2>1, SetsRow DEF SetRow, Written, Forks
<1>7. CASE PatchConflicted(i, ch) \/ CleanupDone(i, ch)
  BY <1>7 DEF PatchConflicted, CleanupDone, userVars
<1>8. CASE DeleteDone(i, ch)
  <2>1. \/ row' = row
        \/ /\ f.reply \notin {"fail", "denied"}
           /\ row' = [row EXCEPT ![i] = HardDeletedNote(row[i])]
        \/ /\ f.reply = "denied"
           /\ row' = [row EXCEPT ![i] = RestoredNote(row[i])]
    BY <1>8 DEF DeleteDone
  <2>2. QED
    BY <1>0, <1>8, <2>1, SetsRow DEF Written
<1>9. QED
  BY <1>1, <1>2, <1>3, <1>5, <1>6, <1>7, <1>8 DEF Take

LEMMA PullWrites ==
    ASSUME TypeInv, NEW n \in Note, PullApply(n), NEW j \in Id
    PROVE  row'[j] = row[j] \/ Written(j)
<1>0. row \in [Id -> Row]
  BY DEF TypeInv, TypeOK
<1>1. CASE PullRemoves(n)
  BY <1>0, <1>1 DEF PullRemoves, HardDeleteRead, Written
<1>2. CASE PullForks(n)
  <2>1. Fork(readIds)
    BY <1>2 DEF PullForks
  <2>2. QED
    BY <1>0, <1>2, <2>1 DEF Fork, Forks, Written
<1>3. CASE PullKeepsLocal(n) \/ PullConflicts(n)
  BY <1>3 DEF PullKeepsLocal, PullConflicts, userVars
<1>4. CASE PullUpserts(n)
  <2>1. \/ \E i \in RowsOf(n) : row' = [row EXCEPT ![i] = UpsertedNote(row[i], page[n])]
        \/ /\ RowsOf(n) = {}
           /\ \E i \in Id : /\ row[i].life = "unused"
                            /\ row' = [row EXCEPT ![i] = InsertedNote(n, page[n])]
    BY <1>4 DEF PullUpserts
  <2>2. RowsOf(n) \subseteq Id
    BY DEF RowsOf
  <2>3. QED
    BY <1>0, <1>4, <2>1, <2>2, SetsRow DEF Written
<1>5. QED
  BY <1>1, <1>2, <1>3, <1>4 DEF PullApply

LEMMA RowWrites ==
    ASSUME TypeInv, [Next]_vars, NEW j \in Id
    PROVE  row'[j] = row[j] \/ Written(j)
<1>0. row \in [Id -> Row]
  BY DEF TypeInv, TypeOK
<1>1. CASE UserStep
  <2>1. ASSUME NEW i \in Id, NEW n \in Note, CreateNote(i, n)
        PROVE  row'[j] = row[j] \/ Written(j)
    BY <1>0, <2>1, SetsRow DEF CreateNote, Written
  <2>2. ASSUME NEW i \in Id,
               EditNote(i) \/ DeleteNote(i) \/ KeepConflict(i) \/ RefreshConflict(i)
        PROVE  row'[j] = row[j] \/ Written(j)
    <3>1. CASE EditNote(i)
      BY <1>0, <3>1, SetsRow DEF EditNote, Written
    <3>2. CASE DeleteNote(i)
      BY <1>0, <3>2, SetsRow DEF DeleteNote, Written
    <3>3. CASE KeepConflict(i)
      BY <1>0, <3>3, SetsRow DEF KeepConflict, Written
    <3>4. CASE RefreshConflict(i)
      BY <1>0, <3>4, SetsRow DEF RefreshConflict, Written
    <3>5. QED
      BY <2>2, <3>1, <3>2, <3>3, <3>4
  <2>3. QED
    BY <1>1, <2>1, <2>2 DEF UserStep
<1>2. CASE PeerStep
  BY <1>2 DEF PeerStep, PeerCreate, PeerWrite, PeerRemove, userVars
<1>3. CASE \/ StartPass \/ SkipConflicted \/ StartDeletes \/ StartPull \/ PullList \/ EndPull
           \/ (\E i \in Id : PassPush(i) \/ PassDelete(i))
           \/ \E n \in Note : PullRead(n)
  BY <1>3 DEF StartPass, SkipConflicted, StartDeletes, StartPull, PullList, EndPull, PassPush, PassDelete,
              PullRead, userVars
<1>4. CASE \E n \in Note : PullApply(n)
  BY <1>4, PullWrites
<1>5. CASE \E i \in Id, s \in Slot : DebouncedPush(i, s)
  BY <1>5 DEF DebouncedPush
<1>6. CASE \E i \in Id, ch \in Channel : Serve(i, ch)
  BY <1>6, ZenonT(30) DEF Serve, ServePatch, ServePost, ServeDelete, userVars
<1>7. CASE \E i \in Id, ch \in Channel : Take(i, ch)
  BY <1>7, TakeWrites
<1>8. CASE FaultStep
  BY <1>8 DEF FaultStep, PullFailed, Restart, LoseRequest, userVars
<1>9. CASE UNCHANGED vars
  BY <1>9 DEF vars
<1>10. QED
  BY <1>1, <1>2, <1>3, <1>4, <1>5, <1>6, <1>7, <1>8, <1>9 DEF Next, PassStep

------------------------------------------------------------------------
(* What the operators of NoteRow leave of life, text and identity. *)
LEMMA ErroredLife ==
    ASSUME NEW r \in Row
    PROVE  /\ ErroredNote(r).life = r.life /\ ErroredNote(r).body = r.body
           /\ ErroredNote(r).cid = r.cid /\ ErroredNote(r).linked = r.linked
           /\ ErroredNote(r).base = r.base
BY DEF ErroredNote, Row

LEMMA AnsweredLife ==
    ASSUME NEW r \in Row, NEW snap, NEW t
    PROVE  /\ SettledNote(r, snap, t).life = r.life
           /\ SettledNote(r, snap, t).body = r.body
           /\ AdoptedNote(r, snap, t).life = r.life
           /\ AdoptedNote(r, snap, t).body = r.body
<1>1. SettledNote(r, snap, t).life = r.life /\ SettledNote(r, snap, t).body = r.body
  BY DEF SettledNote, Row
<1>2. AdoptedNote(r, snap, t).life = r.life /\ AdoptedNote(r, snap, t).body = r.body
  BY DEF AdoptedNote, Row
<1>3. QED
  BY <1>1, <1>2

LEMMA LocalLife ==
    ASSUME NEW r \in Row, NEW t, NEW m, NEW c
    PROVE  /\ EditedNote(r, t).life = r.life
           /\ DeletedNote(r, t).life = "tomb" /\ DeletedNote(r, t).body = r.body
           /\ KeptNote(r, t).life = r.life /\ KeptNote(r, t).body = r.body
           /\ ForkedNote(r, m, t).life = r.life /\ ForkedNote(r, m, t).body = r.body
           /\ UpsertedNote(r, c).life = r.life
           /\ HardDeletedNote(r).life \in {r.life, "gone"}
BY DEF EditedNote, DeletedNote, KeptNote, ForkedNote, UpsertedNote, HardDeletedNote,
       GoneRow, NoRow, Row

(* The row has been deleted here, confirmed by the cloud or not. *)
Finished(i) == row[i].life \in {"tomb", "gone"}

(* The cloud refused to delete row j. *)
Revived(j) ==
    /\ \E ch \in Channel : DeleteDone(j, ch) /\ flight[j][ch].reply = "denied"
    /\ row'[j] = RestoredNote(row[j])

(* No other step revives a deleted row, and an id of a removed row is not  *)
(* reused.                                                                 *)
LEMMA Finishes ==
    ASSUME TypeInv, [Next]_vars, NEW j \in Id
    PROVE  /\ row[j].life = "tomb" => row'[j].life \in {"tomb", "gone"} \/ Revived(j)
           /\ row[j].life = "gone" => row'[j].life = "gone"
<1>0. row[j] \in Row
  BY DEF TypeInv, TypeOK
<1>1. CASE row'[j] = row[j]
  BY <1>1
<1>2. CASE /\ row[j].life \in {"tomb", "gone"}
           /\ row'[j].life \in {row[j].life, "gone"} \/ Revived(j)
  <2>1. row[j].life = "gone" /\ Revived(j) => row'[j].life = "gone"
    BY DEF Revived, RestoredNote
  <2>2. QED
    BY <1>2, <2>1
<1>3. CASE row[j].life \notin {"tomb", "gone"}
  BY <1>3
<1>4. ASSUME Written(j), row[j].life \in {"tomb", "gone"}
      PROVE  row'[j].life \in {row[j].life, "gone"} \/ Revived(j)
  <2>1. ~\E n \in Note : CreateNote(j, n)
    BY <1>4 DEF CreateNote
  <2>2. ~(EditNote(j) \/ DeleteNote(j) \/ KeepConflict(j) \/ RefreshConflict(j))
    BY <1>4 DEF EditNote, DeleteNote, KeepConflict, RefreshConflict
  <2>3. row[j].life # "unused"
    BY <1>4
  <2>4. ASSUME NEW ch \in Channel, DeleteDone(j, ch), flight[j][ch].reply = "denied",
               row'[j] = RestoredNote(row[j])
        PROVE  Revived(j)
    BY <2>4 DEF Revived
  <2>5. QED
    BY <1>0, <1>4, <2>1, <2>2, <2>3, <2>4, ErroredLife, AnsweredLife, LocalLife
       DEF Written
<1>5. QED
  BY <1>1, <1>2, <1>3, <1>4, RowWrites

(* A deleted note stays deleted: no answer, fork, insert or pull, in any   *)
(* order, brings its row back, except the cloud's refusal to delete that   *)
(* very row.                                                               *)
THEOREM DeletedNotesStayDeleted == Spec => TombstonesStay
<1>1. TypeInv /\ [Next]_vars =>
        [\A i \in Id :
            row[i].life = "tomb" =>
                \/ row'[i].life \in {"tomb", "gone"}
                \/ \E ch \in Channel :
                      DeleteDone(i, ch) /\ flight[i][ch].reply = "denied"]_vars
  BY Finishes DEF Revived
<1>2. QED
  BY TypeInit, TypeStep, <1>1, PTL DEF Spec, TombstonesStay

(* Taking an answer writes no row but the one the request was for. *)
LEMMA BaseAdvances ==
    ASSUME TypeInv, NEW i \in Id, NEW ch \in Channel, Take(i, ch), NEW j \in Id,
           row'[j].cid = row[j].cid, row'[j].linked, row[j].linked
    PROVE  row'[j].base >= row[j].base
<1>0. row \in [Id -> Row] /\ row[j].base \in Nat
  BY DEF TypeInv, TypeOK, Row
<1> DEFINE f == flight[i][ch]
<1>1. f.copy.at \in Nat
  BY DEF TypeInv, TypeOK, Flight, CloudRow
<1>2. ASSUME NEW r, SetRow(i, r), r.linked => r.base >= row[i].base
      PROVE  row'[j].base >= row[j].base
  BY <1>0, <1>2, SetsRow DEF SetRow
<1>3. ASSUME Fork({i})
      PROVE  row'[j].base >= row[j].base
  <2>1. PICK m \in Note : row'[j] = row[j] \/ row'[j] = ForkedNote(row[j], m, clock + 1)
    BY <1>0, <1>3 DEF Fork
  <2>2. ~ForkedNote(row[j], m, clock + 1).linked
    BY <1>0 DEF ForkedNote, Row
  <2>3. QED
    BY <1>0, <2>1, <2>2
<1>4. CASE row'[j] = row[j]
  BY <1>0, <1>4
<1>5. CASE j # i
  BY <1>0, <1>5, TakeWrites
<1>6. CASE j = i /\ PatchSettled(i, ch)
  <2>1. Later(row[i].base, f.copy.at) >= row[i].base
    BY <1>0, <1>1, <1>6 DEF Later
  <2>2. SettledNote(row[i], f.snap, f.copy.at).base >= row[i].base
    BY <1>0, <1>6, <2>1 DEF SettledNote, Row
  <2>3. QED
    BY <1>2, <1>6, <2>2 DEF PatchSettled
<1>7. CASE j = i /\ PostAcknowledged(i, ch)
  <2>1. AdoptedNote(row[i], f.snap, f.copy.at) = row[i]
    BY <1>7 DEF AdoptedNote, CreateAdoptable
  <2>2. QED
    BY <1>0, <1>2, <1>7, <2>1 DEF PostAcknowledged
<1>8. CASE j = i /\ PushFailed(i, ch)
  <2>1. SetRow(i, ErroredNote(row[i])) \/ SetRow(i, row[i])
    BY <1>8 DEF PushFailed
  <2>2. QED
    BY <1>0, <1>2, <1>8, <2>1, ErroredLife
<1>9. CASE j = i /\ (PatchGone(i, ch) \/ PushRevoked(i, ch))
  <2>1. SetRow(i, ErroredNote(row[i])) \/ Fork({i})
    BY <1>9 DEF PatchGone, PushRevoked
  <2>2. QED
    BY <1>0, <1>2, <1>3, <1>9, <2>1, ErroredLife
<1>10. CASE PatchConflicted(i, ch) \/ CleanupDone(i, ch)
  BY <1>4, <1>10 DEF PatchConflicted, CleanupDone, userVars
<1>11. CASE j = i /\ DeleteDone(i, ch)
  <2>1. \/ row'[i] = row[i]
        \/ row'[i] = HardDeletedNote(row[i])
        \/ row'[i] = RestoredNote(row[i])
    BY <1>0, <1>11, SetsRow DEF DeleteDone
  <2>2. HardDeletedNote(row[i]) = row[i] \/ ~HardDeletedNote(row[i]).linked
    BY DEF HardDeletedNote, GoneRow, NoRow
  <2>3. RestoredNote(row[i]).base = row[i].base
    BY <1>0, <1>11 DEF RestoredNote, Row
  <2>4. QED
    BY <1>0, <1>11, <2>1, <2>2, <2>3
<1>12. QED
  BY <1>5, <1>6, <1>7, <1>8, <1>9, <1>10, <1>11 DEF Take

(* Answers to pushes, taken in any order, never move back the revision a   *)
(* row declares as its base while the row keeps its identity.              *)
THEOREM AnswersNeverRewind == Spec => AnswersAdvanceBase
<1> DEFINE A == \A i \in Id, ch \in Channel :
          Take(i, ch) => \A j \in Id :
              row'[j].cid = row[j].cid /\ row'[j].linked /\ row[j].linked
                  => row'[j].base >= row[j].base
<1>1. TypeInv /\ [Next]_vars => [A]_vars
  BY BaseAdvances
<1>2. QED
  BY TypeInit, TypeStep, <1>1, PTL DEF Spec, AnswersAdvanceBase

------------------------------------------------------------------------
(* Where a snapshot of the pass, a request and an answer come from. *)
LEMMA TodoWrites ==
    ASSUME TypeInv, [Next]_vars, NEW i \in Id
    PROVE  \/ todo'[i] = todo[i]
           \/ todo'[i] = NoRow
           \/ todo'[i] = row[i] /\ PendingPush(row[i])
           \/ todo'[i] = row[i] /\ PendingDelete(row[i]) /\ StartDeletes
<1>0. todo \in [Id -> Row]
  BY DEF TypeInv, TypeOK
<1>1. CASE UNCHANGED todo
  BY <1>1
<1>2. CASE UserStep \/ PeerStep
  BY <1>1, <1>2 DEF UserStep, CreateNote, EditNote, DeleteNote, KeepConflict,
                    RefreshConflict, PeerStep, PeerCreate, PeerWrite, PeerRemove, passVars
<1>3. CASE StartPass \/ SkipConflicted
  BY <1>3 DEF StartPass, SkipConflicted
<1>4. CASE StartDeletes
  BY <1>4 DEF StartDeletes
<1>5. CASE \E k \in Id : PassPush(k) \/ PassDelete(k)
  BY <1>0, <1>5 DEF PassPush, PassDelete
<1>6. CASE \/ StartPull \/ PullList \/ EndPull \/ PullFailed
           \/ \E n \in Note : PullRead(n)
  BY <1>1, <1>6 DEF StartPull, PullList, EndPull, PullFailed, PullRead
<1>7. CASE \E n \in Note : PullApply(n)
  BY <1>1, <1>7 DEF PullApply, PullRemoves, PullForks, PullKeepsLocal, PullConflicts,
                    PullUpserts, Applied
<1>8. CASE \/ \E k \in Id, s \in Slot : DebouncedPush(k, s)
           \/ \E k \in Id, ch \in Channel : LoseRequest(k, ch)
  BY <1>1, <1>8 DEF DebouncedPush, LoseRequest, passVars
<1>9. CASE \E k \in Id, ch \in Channel : Serve(k, ch)
  <2>1. UNCHANGED passVars
    BY <1>9 DEF Serve, ServePatch, ServePost, ServeDelete
  <2>2. QED
    BY <1>1, <2>1 DEF passVars
<1>10. ASSUME NEW k \in Id, NEW ch \in Channel, Take(k, ch)
       PROVE  UNCHANGED todo
  BY <1>10 DEF Take, PatchSettled, PatchConflicted, PatchGone, PushRevoked, PushFailed,
               PostAcknowledged, CleanupDone, DeleteDone, passVars
<1>11. CASE Restart
  BY <1>11 DEF Restart
<1>12. CASE UNCHANGED vars
  BY <1>1, <1>12 DEF vars
<1>13. QED
  BY <1>2, <1>3, <1>4, <1>5, <1>6, <1>7, <1>8, <1>9, <1>10, <1>11, <1>12
     DEF Next, PassStep, FaultStep

(* A request was put in flight: a snapshot of the pass, a row, a cleanup. *)
Sent(i, ch) ==
    \/ /\ todo[i].life = "live"
       /\ flight'[i][ch] = Request(IF todo[i].linked THEN "patch" ELSE "post", todo[i])
    \/ /\ PassDelete(i) /\ ch = Pass
       /\ flight'[i][ch] = Request("delete", todo[i])
    \/ /\ Exists(row[i])
       /\ flight'[i][ch] = Request(IF row[i].linked THEN "patch" ELSE "post", row[i])
    \/ /\ flight[i][ch].op # "none"
       /\ flight'[i][ch] = Request("cleanup", flight[i][ch].snap)

(* A request was answered: a copy that comes with it is the cloud's row.   *)
Answered(i, ch) ==
    /\ flight[i][ch].op # "none"
    /\ \E reply \in Reply, copy \in CloudRow :
          /\ flight'[i][ch] = [flight[i][ch] EXCEPT !.reply = reply, !.copy = copy]
          /\ reply \in {"ok", "conflict"} =>
                copy.life # "none" /\ copy = cloud'[flight[i][ch].snap.cid]

LEMMA FlightWrites ==
    ASSUME TypeInv, [Next]_vars, NEW i \in Id, NEW ch \in Channel
    PROVE  \/ flight'[i][ch] = flight[i][ch]
           \/ flight'[i][ch] = NoFlight
           \/ Sent(i, ch)
           \/ Answered(i, ch)
<1> DEFINE Moves == \/ flight'[i][ch] = flight[i][ch]
                     \/ flight'[i][ch] = NoFlight
                     \/ Sent(i, ch)
                     \/ Answered(i, ch)
<1>0. /\ flight \in [Id -> [Channel -> Flight]]
      /\ cloud \in [Note -> CloudRow]
      /\ \A j \in Id, c \in Channel :
            flight[j][c].op # "none" => flight[j][c].snap.cid \in Note
  BY DEF TypeInv, TypeOK, NamesNotes
<1>1. CASE UNCHANGED flight
  BY <1>1
<1>2. ASSUME NEW j \in Id, NEW c \in Channel, NEW f,
             flight' = [flight EXCEPT ![j][c] = f]
      PROVE  flight'[i][ch] = IF i = j /\ ch = c THEN f ELSE flight[i][ch]
  BY <1>0, <1>2
<1>3. CASE UserStep \/ PeerStep
  BY <1>1, <1>3 DEF UserStep, CreateNote, EditNote, DeleteNote, KeepConflict,
                    RefreshConflict, PeerStep, PeerCreate, PeerWrite, PeerRemove
<1>4. CASE \/ StartPass \/ SkipConflicted \/ StartDeletes \/ StartPull \/ PullList \/ EndPull
           \/ PullFailed \/ \E n \in Note : PullRead(n)
  BY <1>1, <1>4 DEF StartPass, SkipConflicted, StartDeletes, StartPull, PullList, EndPull,
                    PullFailed, PullRead
<1>5. CASE \E n \in Note : PullApply(n)
  BY <1>1, <1>5 DEF PullApply, PullRemoves, PullForks, PullKeepsLocal,
                    PullConflicts, PullUpserts
<1>6. ASSUME NEW j \in Id, PassPush(j)
      PROVE  Moves
  BY <1>2, <1>6 DEF PassPush, Sent, Channel
<1>7. ASSUME NEW j \in Id, PassDelete(j)
      PROVE  Moves
  <2>1. flight' = [flight EXCEPT ![j][Pass] = Request("delete", todo[j])] /\ Pass \in Channel
    BY <1>7 DEF PassDelete, Channel
  <2>2. QED
    BY <1>2, <1>7, <2>1 DEF Sent
<1>8. ASSUME NEW j \in Id, NEW s \in Slot, DebouncedPush(j, s)
      PROVE  Moves
  <2>1. s \in Channel
    BY DEF Channel
  <2>2. \/ flight' = flight
        \/ /\ Exists(row[j])
           /\ flight' = [flight EXCEPT ![j][s] =
                           Request(IF row[j].linked THEN "patch" ELSE "post", row[j])]
    BY <1>8 DEF DebouncedPush
  <2>3. QED
    BY <1>2, <2>1, <2>2 DEF Sent
<1>9. ASSUME NEW j \in Id, NEW c \in Channel, NEW reply \in Reply, NEW copy \in CloudRow,
             Answer(j, c, reply, copy), flight[j][c].op # "none",
             reply \in {"ok", "conflict"} =>
                copy.life # "none" /\ copy = cloud'[flight[j][c].snap.cid]
      PROVE  Moves
  <2>1. flight' = [flight EXCEPT ![j][c] =
                     [flight[j][c] EXCEPT !.reply = reply, !.copy = copy]]
    BY <1>0, <1>9 DEF Answer
  <2>2. CASE i = j /\ ch = c
    <3>1. flight'[i][ch] = [flight[i][ch] EXCEPT !.reply = reply, !.copy = copy]
      BY <1>2, <2>1, <2>2
    <3>2. QED
      BY <1>9, <2>2, <3>1 DEF Answered
  <2>3. CASE ~(i = j /\ ch = c)
    BY <1>2, <2>1, <2>3
  <2>4. QED
    BY <2>2, <2>3
<1>10. ASSUME NEW j \in Id, NEW c \in Channel, Serve(j, c)
       PROVE  Moves
  <2> DEFINE n == flight[j][c].snap.cid
  <2>1. n \in Note /\ flight[j][c].op # "none"
    BY <1>0, <1>10 DEF Serve, ServePatch, ServePost, ServeDelete, Waiting
  <2>2. /\ {"ok", "conflict", "gone", "revoked", "denied", "fail"} \subseteq Reply
        /\ NoCloud \in CloudRow /\ cloud[n] \in CloudRow
    BY <1>0, <2>1, ConstantRows DEF Reply
  <2>3. ASSUME NEW reply \in {"gone", "revoked", "denied", "fail"}, Refuse(j, c, reply, NoCloud)
        PROVE  Moves
    BY <1>9, <2>1, <2>2, <2>3 DEF Refuse
  <2>4. ASSUME NEW reply \in {"ok", "conflict"}, Refuse(j, c, reply, cloud[n]),
               cloud[n].life # "none"
        PROVE  Moves
    BY <1>9, <2>1, <2>2, <2>4 DEF Refuse, cloudVars
  <2>5. ASSUME NEW life \in {"live", "tomb"}, NEW body \in Nat, Store(j, c, n, life, body)
        PROVE  Moves
    <3> DEFINE x == [life |-> life, body |-> body, at |-> clock + 1]
    <3>1. x \in CloudRow /\ x.life # "none"
      BY DEF CloudRow, TypeInv, TypeOK
    <3>2. Answer(j, c, "ok", x) /\ cloud'[n] = x
      BY <1>0, <2>1, <2>5 DEF Store
    <3>3. QED
      BY <1>9, <2>1, <2>2, <3>1, <3>2
  <2>6. flight[j][c].snap.body \in Nat /\ cloud[n].body \in Nat
    BY <1>0, <2>2 DEF Flight, Row, CloudRow
  <2>7. CASE ServePatch(j, c)
    BY <2>3, <2>4, <2>5, <2>6, <2>7 DEF ServePatch
  <2>8. CASE ServePost(j, c)
    BY <2>3, <2>4, <2>5, <2>6, <2>8 DEF ServePost
  <2>9. CASE ServeDelete(j, c)
    BY <2>3, <2>4, <2>5, <2>6, <2>9 DEF ServeDelete
  <2>10. QED
    BY <1>10, <2>7, <2>8, <2>9 DEF Serve
<1>11. ASSUME NEW j \in Id, NEW c \in Channel, LoseRequest(j, c)
       PROVE  Moves
  BY <1>9, <1>11, ConstantRows DEF LoseRequest, Reply
<1>12. ASSUME NEW j \in Id, NEW c \in Channel, Take(j, c)
       PROVE  Moves
  <2>1. \/ Free(j, c)
        \/ /\ flight[j][c].op # "none"
           /\ flight' = [flight EXCEPT ![j][c] = Request("cleanup", flight[j][c].snap)]
    BY <1>12 DEF Take, PatchSettled, PatchConflicted, PatchGone, PushRevoked, PushFailed,
                 PostAcknowledged, CleanupDone, DeleteDone, Free
  <2>2. QED
    BY <1>2, <2>1 DEF Free, Sent
<1>13. CASE Restart
  BY <1>13 DEF Restart
<1>14. CASE UNCHANGED vars
  BY <1>1, <1>14 DEF vars
<1>15. QED
  BY <1>3, <1>4, <1>5, <1>6, <1>7, <1>8, <1>10, <1>11, <1>12, <1>13, <1>14
     DEF Next, PassStep, FaultStep
------------------------------------------------------------------------
(* A DELETE is only sent, or waits to be sent, for a row deleted here, and *)
(* its snapshot waits no longer once it is sent: its answer cannot remove  *)
(* a live row, and a row it revives is not deleted once more.              *)
DeletesInv ==
    /\ \A i \in Id : todo[i].life = "tomb" => Finished(i)
    /\ \A i \in Id, ch \in Channel :
          flight[i][ch].op = "delete" =>
              Finished(i) /\ ch = Pass /\ pc = "delete" /\ todo[i] = NoRow

(* While the deletions are sent the pass only drops snapshots. *)
LEMMA DeletePhase ==
    ASSUME TypeInv, [Next]_vars, pc = "delete", ~PassFree, NEW i \in Id
    PROVE  \/ pc' = pc /\ todo'[i] \in {todo[i], NoRow}
           \/ \A ch \in Channel : flight'[i][ch] = NoFlight
<1>0. todo \in [Id -> Row]
  BY DEF TypeInv, TypeOK
<1>1. CASE UNCHANGED passVars
  BY <1>1 DEF passVars
<1>2. CASE UserStep \/ PeerStep
  BY <1>1, <1>2 DEF UserStep, CreateNote, EditNote, DeleteNote, KeepConflict,
                    RefreshConflict, PeerStep, PeerCreate, PeerWrite, PeerRemove
<1>3. CASE \/ StartPass \/ SkipConflicted \/ StartDeletes \/ StartPull \/ PullList
           \/ EndPull \/ PullFailed
  BY <1>3 DEF StartPass, SkipConflicted, StartDeletes, StartPull, PullList, EndPull,
              PullFailed, PhaseDone
<1>4. CASE \E k \in Id : PassPush(k) \/ PassDelete(k)
  BY <1>0, <1>4 DEF PassPush, PassDelete
<1>5. CASE \E n \in Note : PullRead(n) \/ PullApply(n)
  BY <1>5 DEF PullRead, PullApply, PullRemoves, PullForks, PullKeepsLocal,
              PullConflicts, PullUpserts, Decide
<1>6. CASE \/ \E k \in Id, s \in Slot : DebouncedPush(k, s)
           \/ \E k \in Id, ch \in Channel : LoseRequest(k, ch)
  BY <1>1, <1>6 DEF DebouncedPush, LoseRequest
<1>7. CASE \E k \in Id, ch \in Channel : Serve(k, ch)
  BY <1>1, <1>7 DEF Serve, ServePatch, ServePost, ServeDelete
<1>8. ASSUME NEW k \in Id, NEW ch \in Channel, Take(k, ch)
      PROVE  UNCHANGED <<pc, todo>>
  BY <1>8 DEF Take, PatchSettled, PatchConflicted, PatchGone, PushRevoked, PushFailed,
              PostAcknowledged, CleanupDone, DeleteDone, passVars
<1>9. CASE Restart
  BY <1>9 DEF Restart
<1>10. CASE UNCHANGED vars
  BY <1>1, <1>10 DEF vars, passVars
<1>11. QED
  BY <1>2, <1>3, <1>4, <1>5, <1>6, <1>7, <1>8, <1>9, <1>10
     DEF Next, PassStep, FaultStep

LEMMA DeletesStep ==
    ASSUME TypeInv, DeletesInv, [Next]_vars
    PROVE  DeletesInv'
<1>0. todo \in [Id -> Row] /\ row \in [Id -> Row] /\ flight \in [Id -> [Channel -> Flight]]
  BY DEF TypeInv, TypeOK
<1>1. ASSUME NEW i \in Id, Revived(i)
      PROVE  todo'[i] = NoRow /\ \A ch \in Channel : flight'[i][ch].op # "delete"
  <2>1. PICK c \in Channel : DeleteDone(i, c)
    BY <1>1 DEF Revived
  <2>2. c = Pass /\ todo[i] = NoRow
    BY <2>1 DEF DeleteDone, DeletesInv
  <2>3. todo' = todo /\ flight' = [flight EXCEPT ![i][c] = NoFlight]
    BY <2>1 DEF DeleteDone, Free
  <2>4. \A ch \in Channel : flight[i][ch].op = "delete" => ch = c
    BY <2>2 DEF DeletesInv
  <2>5. \A ch \in Channel : flight'[i][ch] = IF ch = c THEN NoFlight ELSE flight[i][ch]
    BY <1>0, <2>3
  <2>6. QED
    BY <2>2, <2>3, <2>4, <2>5 DEF NoFlight
<1>2. \A i \in Id : Finished(i) => Finished(i)' \/ Revived(i)
  BY Finishes DEF Finished
<1>3. ASSUME NEW i \in Id, todo'[i].life = "tomb"
      PROVE  Finished(i)'
  <2>1. ~Revived(i)
    BY <1>1, <1>3 DEF NoRow
  <2>2. CASE todo'[i] = todo[i]
    BY <1>2, <1>3, <2>1, <2>2 DEF DeletesInv
  <2>3. CASE todo'[i] = row[i]
    BY <1>2, <1>3, <2>1, <2>3 DEF Finished
  <2>4. CASE todo'[i] = NoRow
    BY <1>3, <2>4 DEF NoRow
  <2>5. QED
    BY <2>2, <2>3, <2>4, TodoWrites
<1>4. ASSUME NEW i \in Id, NEW ch \in Channel, flight'[i][ch].op = "delete"
      PROVE  Finished(i)' /\ ch = Pass /\ pc' = "delete" /\ todo'[i] = NoRow
  <2>0. flight[i][ch] \in Flight /\ NoFlight.op = "none"
    BY DEF TypeInv, TypeOK, NoFlight
  <2>1. CASE flight[i][ch].op = "delete"
    <3>1. Finished(i) /\ ch = Pass /\ pc = "delete" /\ todo[i] = NoRow
      BY <2>1 DEF DeletesInv
    <3>2. ~PassFree
      BY <2>1, <3>1 DEF PassFree
    <3>3. pc' = pc /\ todo'[i] \in {todo[i], NoRow}
      BY <1>4, <2>0, <3>1, <3>2, DeletePhase
    <3>4. Finished(i)'
      BY <1>1, <1>2, <1>4, <3>1
    <3>5. QED
      BY <3>1, <3>3, <3>4
  <2>2. CASE Sent(i, ch) /\ flight[i][ch].op # "delete"
    <3>1. PassDelete(i) /\ ch = Pass
      BY <1>4, <2>2 DEF Sent, Request
    <3>2. pc' = "delete" /\ todo'[i] = NoRow /\ row' = row /\ todo[i].life = "tomb"
      BY <1>0, <3>1 DEF PassDelete, userVars
    <3>3. Finished(i)'
      BY <3>2 DEF DeletesInv, Finished
    <3>4. QED
      BY <3>1, <3>2, <3>3
  <2>3. CASE Answered(i, ch) /\ flight[i][ch].op # "delete"
    BY <1>4, <2>0, <2>3 DEF Answered, Flight
  <2>4. QED
    BY <1>4, <2>0, <2>1, <2>2, <2>3, FlightWrites
<1>5. QED
  BY <1>3, <1>4 DEF DeletesInv

------------------------------------------------------------------------
(* Identities.  The identity of a row, a request, a listed copy or a cloud *)
(* row is in use, so the fresh identity of a new row or of a fork is none  *)
(* of them, no two rows share one (the code has a unique index), and a     *)
(* read of the pull found at most one row.                                 *)
Used(n) == origin[n] # "unused"

OneRowPerIdentity ==
    \A i, j \in Id :
        Exists(row[i]) /\ Exists(row[j]) /\ row[i].cid = row[j].cid => i = j

ReadFound ==
    /\ \A i, j \in readIds : i = j
    /\ readIds = {} => readRow = NoRow

NamesUsed ==
    /\ \A i \in Id : Exists(row[i]) => Used(row[i].cid)
    /\ \A i \in Id : Exists(todo[i]) => Used(todo[i].cid)
    /\ \A i \in Id, ch \in Channel :
          flight[i][ch].op # "none" => Used(flight[i][ch].snap.cid)
    /\ \A n \in Note : cloud[n].life # "none" => Used(n)
    /\ \A n \in Note : page[n].life # "none" => Used(n)

(* Row j is not given an identity by the step. *)
Keeps(j) ==
    Exists(row'[j]) => Exists(row[j]) /\ row'[j].cid = row[j].cid

(* An identity no row had, and one that is in use afterwards. *)
Fresh(n) == /\ n \in Note
            /\ origin'[n] # "unused"
            /\ origin[n] = "unused" \/ RowsOf(n) = {}

(* A step gives at most one row an identity, and a fresh one. *)
OneNamed ==
    /\ \A j \in Id : Keeps(j) \/ Fresh(row'[j].cid)
    /\ \A i, j \in Id : i # j => Keeps(i) \/ Keeps(j)

(* An identity in use stays in use. *)
LEMMA OriginsStay ==
    ASSUME TypeInv, [Next]_vars, NEW n \in Note, Used(n)
    PROVE  origin'[n] # "unused"
<1>0. origin \in [Note -> {"unused", "shared", "private"}] /\ origin[n] # "unused"
  BY DEF TypeInv, TypeOK, Used
<1>1. CASE UNCHANGED origin
  BY <1>0, <1>1
<1>2. CASE \E ids : Fork(ids)
  BY <1>0, <1>2 DEF Fork
<1>3. CASE UserStep \/ PeerStep
  BY <1>0, <1>1, <1>3 DEF UserStep, CreateNote, EditNote, DeleteNote, KeepConflict,
                    RefreshConflict, PeerStep, PeerCreate, PeerWrite, PeerRemove, userVars
<1>4. CASE \/ StartPass \/ SkipConflicted \/ StartDeletes \/ StartPull \/ PullList \/ EndPull
           \/ (\E i \in Id : PassPush(i) \/ PassDelete(i))
           \/ \E m \in Note : PullRead(m)
  BY <1>1, <1>4 DEF StartPass, SkipConflicted, StartDeletes, StartPull, PullList, EndPull, PassPush, PassDelete,
              PullRead, userVars
<1>5. ASSUME NEW m \in Note, PullApply(m)
      PROVE  UNCHANGED origin \/ \E ids : Fork(ids)
  BY <1>5 DEF PullApply, PullRemoves, PullForks, PullKeepsLocal, PullConflicts, PullUpserts,
              userVars
<1>6. CASE \/ FaultStep
           \/ \E i \in Id, s \in Slot : DebouncedPush(i, s)
  BY <1>1, <1>6 DEF FaultStep, PullFailed, Restart, LoseRequest, DebouncedPush, userVars
<1>7. ASSUME NEW i \in Id, NEW ch \in Channel, Serve(i, ch)
      PROVE  UNCHANGED origin
  BY <1>7 DEF Serve, ServePatch, ServePost, ServeDelete, userVars
<1>8. ASSUME NEW i \in Id, NEW ch \in Channel, Take(i, ch)
      PROVE  UNCHANGED origin \/ \E ids : Fork(ids)
  BY <1>8 DEF Take, PatchSettled, PatchConflicted, PatchGone, PushRevoked, PushFailed,
              PostAcknowledged, CleanupDone, DeleteDone, SetRow, userVars
<1>9. CASE UNCHANGED vars
  BY <1>1, <1>9 DEF vars
<1>10. QED
  BY <1>1, <1>2, <1>3, <1>4, <1>5, <1>6, <1>7, <1>8, <1>9 DEF Next, PassStep

LEMMA IdentityKept ==
    ASSUME NEW r \in Row, NEW t, NEW c, NEW snap
    PROVE  /\ EditedNote(r, t).cid = r.cid
           /\ DeletedNote(r, t).cid = r.cid
           /\ KeptNote(r, t).cid = r.cid
           /\ UpsertedNote(r, c).cid = r.cid
           /\ SettledNote(r, snap, t).cid = r.cid
           /\ AdoptedNote(r, snap, t).cid = r.cid
           /\ ErroredNote(r).cid = r.cid
           /\ RestoredNote(r).cid = r.cid
           /\ Exists(RestoredNote(r)) => Exists(r)
           /\ Exists(HardDeletedNote(r)) => HardDeletedNote(r) = r
<1>1. /\ EditedNote(r, t).cid = r.cid
      /\ DeletedNote(r, t).cid = r.cid
      /\ KeptNote(r, t).cid = r.cid
      /\ UpsertedNote(r, c).cid = r.cid
  BY DEF EditedNote, DeletedNote, KeptNote, UpsertedNote, Row
<1>2. SettledNote(r, snap, t).cid = r.cid /\ ErroredNote(r).cid = r.cid
  BY DEF SettledNote, ErroredNote, Row
<1>3. AdoptedNote(r, snap, t).cid = r.cid
  BY DEF AdoptedNote, Row
<1>4. Exists(HardDeletedNote(r)) => HardDeletedNote(r) = r
  BY DEF HardDeletedNote, GoneRow, NoRow, Exists
<1>5. RestoredNote(r).cid = r.cid /\ (Exists(RestoredNote(r)) => Exists(r))
  BY DEF RestoredNote, Row, Exists
<1>6. QED
  BY <1>1, <1>2, <1>3, <1>4, <1>5

LEMMA Namings ==
    ASSUME TypeInv, ReadFound, NamesUsed, [Next]_vars
    PROVE  OneNamed
<1>0. /\ row \in [Id -> Row]
      /\ origin \in [Note -> {"unused", "shared", "private"}]
      /\ \A n \in Note : origin[n] = "unused" => RowsOf(n) = {}
  BY DEF TypeInv, TypeOK, NamesUsed, Used, RowsOf
<1>1. ASSUME NEW j \in Id, row'[j] = row[j]
      PROVE  Keeps(j)
  BY <1>1 DEF Keeps
<1> DEFINE Names(j) == Fresh(row'[j].cid) /\ \A k \in Id : k # j => row'[k] = row[k]
<1>2. ASSUME NEW j \in Id, \E n \in Note : CreateNote(j, n)
      PROVE  Names(j)
  <2>1. PICK n \in Note : CreateNote(j, n)
    BY <1>2
  <2>2. /\ origin[n] = "unused"
        /\ origin' = [origin EXCEPT ![n] = "shared"]
        /\ row' = [row EXCEPT ![j] = SavedNote(n, clock + 1)]
    BY <2>1 DEF CreateNote
  <2>3. row'[j].cid = n
    BY <1>0, <2>2, SetsRow DEF SavedNote
  <2>4. Fresh(n)
    BY <1>0, <2>2 DEF Fresh
  <2>5. QED
    BY <1>0, <2>2, <2>3, <2>4, SetsRow
<1>3. ASSUME NEW ids \in SUBSET Id, NEW j \in ids, ids \subseteq {j}, Fork(ids)
      PROVE  Keeps(j) \/ Names(j)
  <2>1. PICK m \in Note :
          /\ origin[m] = "unused"
          /\ origin' = [origin EXCEPT ![m] = "private"]
          /\ row' = [i \in Id |-> IF i \in ids /\ Exists(row[i])
                                  THEN ForkedNote(row[i], m, clock + 1)
                                  ELSE row[i]]
    BY <1>3 DEF Fork
  <2>2. Fresh(m)
    BY <1>0, <2>1 DEF Fresh
  <2>3. ForkedNote(row[j], m, clock + 1).cid = m
    BY <1>0 DEF ForkedNote, Row
  <2>4. \A k \in Id : k # j => row'[k] = row[k]
    BY <1>3, <2>1
  <2>5. row'[j] = row[j] \/ row'[j].cid = m
    BY <2>1, <2>3
  <2>6. QED
    BY <1>1, <2>2, <2>4, <2>5
<1>4. ASSUME NEW j \in Id, Forks(j)
      PROVE  Keeps(j) \/ Names(j)
  <2>1. CASE \E ch \in Channel : PatchGone(j, ch) \/ PushRevoked(j, ch)
    <3>1. SetRow(j, ErroredNote(row[j])) \/ Fork({j})
      BY <2>1 DEF PatchGone, PushRevoked
    <3>2. CASE SetRow(j, ErroredNote(row[j]))
      <4>1. row'[j] = ErroredNote(row[j])
        BY <1>0, <3>2, SetsRow DEF SetRow
      <4>2. QED
        BY <1>0, <4>1, ErroredLife DEF Keeps, Exists
    <3>3. QED
      BY <1>3, <3>1, <3>2
  <2>2. CASE \E n \in Note : PullForks(n) /\ j \in readIds
    <3>1. Fork(readIds) /\ readIds \subseteq {j} /\ readIds \in SUBSET Id
      BY <2>2 DEF PullForks, ReadFound, TypeInv, TypeOK
    <3>2. QED
      BY <1>3, <2>2, <3>1
  <2>3. QED
    BY <1>4, <2>1, <2>2 DEF Forks
<1>5. ASSUME NEW j \in Id, NEW n \in Note, PullUpserts(n), RowsOf(n) = {},
             row'[j] = InsertedNote(n, page[n])
      PROVE  Keeps(j) \/ Names(j)
  <2>1. /\ origin' = origin
        /\ origin[n] # "unused"
    BY <1>5 DEF PullUpserts, Wins, NamesUsed, Used
  <2>2. Fresh(n)
    BY <1>5, <2>1 DEF Fresh
  <2>3. PICK i \in Id : row' = [row EXCEPT ![i] = InsertedNote(n, page[n])]
    BY <1>5 DEF PullUpserts
  <2>4. InsertedNote(n, page[n]).cid = n
    BY DEF InsertedNote
  <2>5. CASE j = i
    BY <1>0, <1>5, <2>2, <2>3, <2>4, <2>5, SetsRow
  <2>6. CASE j # i
    BY <1>0, <1>1, <2>3, <2>6, SetsRow
  <2>7. QED
    BY <2>5, <2>6
<1>6. ASSUME NEW j \in Id, NEW r \in Row, row'[j] = r, r.cid = row[j].cid,
             Exists(r) => Exists(row[j])
      PROVE  Keeps(j)
  BY <1>6 DEF Keeps
<1>7. ASSUME NEW j \in Id, Written(j)
      PROVE  Keeps(j) \/ Names(j)
  <2>0. row[j] \in Row
    BY <1>0
  <2> DEFINE n == row[j].cid
  <2>1. ASSUME NEW t, row'[j] = EditedNote(row[j], t) \/ row'[j] = KeptNote(row[j], t)
        PROVE  Keeps(j)
    BY <2>0, <2>1, LocalLife, IdentityKept DEF Keeps, Exists
  <2>2. CASE DeleteNote(j) /\ row'[j] = DeletedNote(row[j], clock + 1)
    <3>1. Exists(row[j])
      BY <2>2 DEF DeleteNote, Exists
    <3>2. QED
      BY <2>0, <2>2, <3>1, IdentityKept DEF Keeps
  <2>3. ASSUME NEW c, row'[j] = UpsertedNote(row[j], c)
        PROVE  Keeps(j)
    BY <2>0, <2>3, LocalLife, IdentityKept DEF Keeps, Exists
  <2>4. ASSUME NEW snap, NEW t,
               row'[j] = SettledNote(row[j], snap, t) \/ row'[j] = AdoptedNote(row[j], snap, t)
        PROVE  Keeps(j)
    BY <2>0, <2>4, AnsweredLife, IdentityKept DEF Keeps, Exists
  <2>5. CASE row'[j] = ErroredNote(row[j])
    BY <2>0, <2>5, ErroredLife DEF Keeps, Exists
  <2>6. CASE row'[j] = HardDeletedNote(row[j]) \/ row'[j] = RestoredNote(row[j])
    BY <2>0, <2>6, IdentityKept DEF Keeps
  <2>7. QED
    BY <1>2, <1>4, <1>5, <1>7, <2>1, <2>2, <2>3, <2>4, <2>5, <2>6 DEF Written
<1>8. \A j \in Id : Keeps(j) \/ Names(j)
  BY <1>1, <1>7, RowWrites
<1>9. QED
  BY <1>1, <1>8 DEF OneNamed

LEMMA OneRowStep ==
    ASSUME NamesUsed, OneRowPerIdentity, OneNamed
    PROVE  OneRowPerIdentity'
<1>1. SUFFICES ASSUME NEW i \in Id, NEW j \in Id, Exists(row'[i]), Exists(row'[j]),
                      row'[i].cid = row'[j].cid, i # j
               PROVE  FALSE
  BY DEF OneRowPerIdentity
<1>2. ASSUME NEW k \in Id, NEW l \in Id, Exists(row'[k]), Exists(row'[l]),
             row'[k].cid = row'[l].cid, k # l, Keeps(k), Fresh(row'[l].cid)
      PROVE  FALSE
  <2>1. Exists(row[k]) /\ row[k].cid = row'[l].cid
    BY <1>2 DEF Keeps
  <2>2. origin[row[k].cid] # "unused" /\ k \in RowsOf(row[k].cid)
    BY <2>1 DEF NamesUsed, Used, RowsOf
  <2>3. QED
    BY <1>2, <2>1, <2>2 DEF Fresh
<1>3. CASE Keeps(i) /\ Keeps(j)
  BY <1>1, <1>3 DEF Keeps, OneRowPerIdentity
<1>4. QED
  BY <1>1, <1>2, <1>3 DEF OneNamed

------------------------------------------------------------------------
(* How a step moves the page and the read of the pull, and the cloud. *)
LEMMA PullMoves ==
    ASSUME TypeInv, [Next]_vars
    PROVE  /\ \A n \in Note : page'[n] \in {page[n], NoCloud, cloud[n]}
           /\ \/ readIds' = readIds /\ readRow' = readRow
              \/ readIds' = {} /\ readRow' = NoRow
              \/ \E n \in Note : PullRead(n)
<1> DEFINE Moves ==
             /\ \A n \in Note : page'[n] \in {page[n], NoCloud, cloud[n]}
             /\ \/ readIds' = readIds /\ readRow' = readRow
                \/ readIds' = {} /\ readRow' = NoRow
                \/ \E n \in Note : PullRead(n)
<1>0. page \in [Note -> CloudRow]
  BY DEF TypeInv, TypeOK
<1>1. CASE UNCHANGED <<page, readIds, readRow>>
  BY <1>1
<1>2. ASSUME UNCHANGED passVars PROVE Moves
  BY <1>1, <1>2 DEF passVars
<1>3. CASE UserStep \/ PeerStep
  BY <1>2, <1>3 DEF UserStep, CreateNote, EditNote, DeleteNote, KeepConflict,
                    RefreshConflict, PeerStep, PeerCreate, PeerWrite, PeerRemove
<1>4. CASE \/ StartPass \/ SkipConflicted \/ StartDeletes \/ StartPull \/ EndPull \/ PullFailed
           \/ \E i \in Id : PassPush(i) \/ PassDelete(i)
  BY <1>1, <1>4 DEF StartPass, SkipConflicted, StartDeletes, StartPull, EndPull, PullFailed, PassPush, PassDelete
<1>5. CASE PullList
  BY <1>5 DEF PullList
<1>6. ASSUME NEW n \in Note, PullRead(n)
      PROVE  Moves
  BY <1>6 DEF PullRead
<1>7. ASSUME NEW n \in Note, PullApply(n)
      PROVE  Moves
  <2>1. Applied(n)
    BY <1>7 DEF PullApply, PullRemoves, PullForks, PullKeepsLocal, PullConflicts,
                PullUpserts
  <2>2. QED
    BY <1>0, <2>1 DEF Applied
<1>8. CASE \/ \E k \in Id, s \in Slot : DebouncedPush(k, s)
           \/ \E k \in Id, ch \in Channel : LoseRequest(k, ch)
  BY <1>2, <1>8 DEF DebouncedPush, LoseRequest
<1>9. ASSUME NEW k \in Id, NEW ch \in Channel, Serve(k, ch)
      PROVE  Moves
  BY <1>2, <1>9 DEF Serve, ServePatch, ServePost, ServeDelete
<1>10. ASSUME NEW k \in Id, NEW ch \in Channel, Take(k, ch)
       PROVE  Moves
  BY <1>2, <1>10 DEF Take, PatchSettled, PatchConflicted, PatchGone, PushRevoked, PushFailed,
                     PostAcknowledged, CleanupDone, DeleteDone
<1>11. CASE Restart
  BY <1>11 DEF Restart
<1>12. CASE UNCHANGED vars
  BY <1>1, <1>12 DEF vars
<1>13. QED
  BY <1>3, <1>4, <1>5, <1>6, <1>7, <1>8, <1>9, <1>10, <1>11, <1>12
     DEF Next, PassStep, FaultStep

LEMMA ReadStep ==
    ASSUME TypeInv, OneRowPerIdentity, ReadFound, [Next]_vars
    PROVE  ReadFound'
<1>1. ASSUME NEW n \in Note, PullRead(n)
      PROVE  ReadFound'
  <2>1. \A i, j \in RowsOf(n) : i = j
    BY DEF RowsOf, OneRowPerIdentity
  <2>2. QED
    BY <1>1, <2>1 DEF PullRead, ReadFound
<1>2. CASE readIds' = readIds /\ readRow' = readRow
  BY <1>2 DEF ReadFound
<1>3. CASE readIds' = {} /\ readRow' = NoRow
  BY <1>3 DEF ReadFound
<1>4. QED
  BY <1>1, <1>2, <1>3, PullMoves

LEMMA CloudMoves ==
    ASSUME TypeInv, [Next]_vars, NEW n \in Note
    PROVE  \/ cloud'[n] = cloud[n]
           \/ /\ cloud'[n].at = clock + 1 /\ clock' = clock + 1
              /\ cloud'[n].life # "none"
              /\ \/ cloud[n].life # "none"
                 \/ origin'[n] # "unused"
                 \/ \E i \in Id, ch \in Channel :
                       flight[i][ch].op # "none" /\ flight[i][ch].snap.cid = n
<1> DEFINE Moves ==
             \/ cloud'[n] = cloud[n]
             \/ /\ cloud'[n].at = clock + 1 /\ clock' = clock + 1
                /\ cloud'[n].life # "none"
                /\ \/ cloud[n].life # "none"
                   \/ origin'[n] # "unused"
                   \/ \E i \in Id, ch \in Channel :
                         flight[i][ch].op # "none" /\ flight[i][ch].snap.cid = n
<1>0. /\ cloud \in [Note -> CloudRow]
      /\ origin \in [Note -> {"unused", "shared", "private"}]
      /\ \A i \in Id, ch \in Channel :
            flight[i][ch].op # "none" => flight[i][ch].snap.cid \in Note
  BY DEF TypeInv, TypeOK, NamesNotes
<1>1. CASE UNCHANGED <<cloud, held>>
  BY <1>1
<1>2. ASSUME NEW i \in Id, NEW ch \in Channel, Serve(i, ch)
      PROVE  Moves
  <2>1. flight[i][ch].op # "none" /\ flight[i][ch].snap.cid \in Note
    BY <1>0, <1>2 DEF Serve, ServePatch, ServePost, ServeDelete, Waiting
  <2>2. ASSUME NEW life \in {"live", "tomb"}, NEW body,
               Store(i, ch, flight[i][ch].snap.cid, life, body)
        PROVE  Moves
    BY <1>0, <2>1, <2>2 DEF Store
  <2>3. ASSUME NEW reply, NEW copy, Refuse(i, ch, reply, copy)
        PROVE  Moves
    BY <2>3 DEF Refuse, cloudVars
  <2>4. CASE ServePatch(i, ch)
    BY <2>2, <2>3, <2>4 DEF ServePatch
  <2>5. CASE ServePost(i, ch)
    BY <2>2, <2>3, <2>5 DEF ServePost
  <2>6. CASE ServeDelete(i, ch)
    BY <2>2, <2>3, <2>6 DEF ServeDelete
  <2>7. QED
    BY <1>2, <2>4, <2>5, <2>6 DEF Serve
<1>3. ASSUME NEW m \in Note, PeerCreate(m)
      PROVE  Moves
  BY <1>0, <1>3 DEF PeerCreate, Act
<1>4. ASSUME NEW m \in Note, PeerWrite(m)
      PROVE  Moves
  <2>1. /\ cloud[m].life = "live" /\ clock' = clock + 1
        /\ cloud' = [cloud EXCEPT ![m].body = clock + 1, ![m].at = clock + 1]
    BY <1>4 DEF PeerWrite, Act
  <2>2. QED
    BY <1>0, <2>1 DEF CloudRow
<1>5. ASSUME NEW m \in Note, NEW life \in {"tomb", "lost"}, PeerRemove(m, life)
      PROVE  Moves
  <2>1. /\ cloud[m].life = "live" /\ clock' = clock + 1
        /\ cloud' = [cloud EXCEPT ![m].life = life, ![m].at = clock + 1]
    BY <1>5 DEF PeerRemove, Act
  <2>2. QED
    BY <1>0, <2>1 DEF CloudRow
<1>6. CASE UNCHANGED vars
  BY <1>6 DEF vars
<1>7. QED
  BY CloudFrame, <1>1, <1>2, <1>3, <1>4, <1>5, <1>6 DEF PeerStep

LEMMA NamesStep ==
    ASSUME TypeInv, NamesUsed, OneNamed, [Next]_vars
    PROVE  NamesUsed'
<1>0. \A n \in Note : Used(n) => Used(n)'
  BY OriginsStay DEF Used
<1>1. ASSUME NEW i \in Id, Exists(row'[i])
      PROVE  origin'[row'[i].cid] # "unused"
  <2>1. CASE Fresh(row'[i].cid)
    BY <2>1 DEF Fresh
  <2>2. CASE Keeps(i)
    <3>1. Exists(row[i]) /\ row'[i].cid = row[i].cid /\ row[i].cid \in Note
      BY <1>1, <2>2 DEF Keeps, TypeInv, NamesNotes
    <3>2. Used(row[i].cid)
      BY <3>1 DEF NamesUsed
    <3>3. QED
      BY <1>0, <3>1, <3>2 DEF Used
  <2>3. QED
    BY <2>1, <2>2 DEF OneNamed
<1> DEFINE Stays(n) == n \in Note /\ Used(n)
<1>2. /\ \A i \in Id : Exists(row[i]) => Stays(row[i].cid)
      /\ \A i \in Id : Exists(todo[i]) => Stays(todo[i].cid)
      /\ \A i \in Id, ch \in Channel :
            flight[i][ch].op # "none" => Stays(flight[i][ch].snap.cid)
  BY DEF TypeInv, NamesNotes, NamesUsed
<1>3. \A n : Stays(n) => origin'[n] # "unused"
  BY <1>0 DEF Used
<1> HIDE DEF Stays
<1>4. ASSUME NEW i \in Id, Exists(todo'[i])
      PROVE  origin'[todo'[i].cid] # "unused"
  <2>1. ~Exists(NoRow)
    BY DEF NoRow, Exists
  <2>2. todo'[i] = todo[i] \/ todo'[i] = row[i]
    BY <1>4, <2>1, TodoWrites
  <2>3. QED
    BY <1>2, <1>3, <1>4, <2>2
<1>5. ASSUME NEW i \in Id, NEW ch \in Channel, flight'[i][ch].op # "none"
      PROVE  origin'[flight'[i][ch].snap.cid] # "unused"
  <2>0. flight[i][ch] \in Flight /\ NoFlight.op = "none"
    BY DEF TypeInv, TypeOK, NoFlight
  <2>1. CASE flight'[i][ch] = flight[i][ch]
    BY <1>2, <1>3, <1>5, <2>1
  <2>2. CASE Sent(i, ch)
    <3>1. \A op, snap : Request(op, snap).snap = snap
      BY DEF Request
    <3>2. Stays(flight'[i][ch].snap.cid)
      BY <1>2, <2>2, <3>1 DEF Sent, Exists, PassDelete
    <3>3. QED
      BY <1>3, <3>2
  <2>3. CASE Answered(i, ch)
    <3>1. flight[i][ch].op # "none" /\ flight'[i][ch].snap = flight[i][ch].snap
      BY <2>0, <2>3 DEF Answered, Flight
    <3>2. QED
      BY <1>2, <1>3, <3>1
  <2>4. QED
    BY <1>5, <2>0, <2>1, <2>2, <2>3, FlightWrites
<1>6. ASSUME NEW n \in Note, cloud'[n].life # "none"
      PROVE  origin'[n] # "unused"
  <2>1. cloud[n].life # "none" => Stays(n)
    BY DEF NamesUsed, Stays
  <2>2. QED
    BY <1>2, <1>3, <1>6, <2>1, CloudMoves
<1>7. ASSUME NEW n \in Note, page'[n].life # "none"
      PROVE  origin'[n] # "unused"
  <2>1. page'[n] = page[n] \/ page'[n] = cloud[n]
    BY <1>7, PullMoves DEF NoCloud
  <2>2. Stays(n)
    BY <1>7, <2>1 DEF NamesUsed, Stays
  <2>3. QED
    BY <1>3, <2>2
<1>8. QED
  BY <1>1, <1>4, <1>5, <1>6, <1>7 DEF NamesUsed, Used

(* The three parts are inductive together. *)
IdentityInv == NamesUsed /\ ReadFound /\ OneRowPerIdentity

LEMMA IdentityStep ==
    ASSUME TypeInv, IdentityInv, [Next]_vars
    PROVE  IdentityInv'
<1>1. OneNamed
  BY Namings DEF IdentityInv
<1>2. QED
  BY <1>1, NamesStep, ReadStep, OneRowStep DEF IdentityInv

LEMMA IdentityInit == Init => IdentityInv /\ DeletesInv
<1>1. Init => IdentityInv
  BY DEF Init, IdentityInv, NamesUsed, ReadFound, OneRowPerIdentity, NoRow, NoFlight, NoCloud,
         Exists
<1>2. Init => DeletesInv
  BY DEF Init, DeletesInv, NoRow, NoFlight
<1>3. QED
  BY <1>1, <1>2

(* The text of a dirty row goes only in the ways the property lists: a     *)
(* confirmed delete is ruled out by DeletesInv, an upsert over a row the   *)
(* read missed by ReadFound.                                               *)
LEMMA TextSurvives ==
    ASSUME TypeInv, IdentityInv, DeletesInv, [Next]_vars, NEW i \in Id,
           Dirty(row[i]), row'[i].body # row[i].body \/ row'[i].life = "gone"
    PROVE  \/ EditNote(i) \/ RefreshConflict(i)
           \/ \E n \in Note :
                 /\ PullRemoves(n) /\ i \in readIds
                 /\ page[n].life = "tomb" \/ ~Dirty(readRow)
           \/ \E n \in Note :
                 /\ PullUpserts(n) /\ i \in RowsOf(n)
                 /\ Known => ~Dirty(readRow)
<1>0. row[i] \in Row /\ row[i].life = "live"
  BY DEF TypeInv, TypeOK, Dirty
<1>1. ~(row'[i].body = row[i].body /\ row'[i].life \in {"live", "tomb"})
  OBVIOUS
<1>2. Written(i)
  BY <1>0, <1>1, RowWrites
<1>3. ~\E n \in Note : CreateNote(i, n)
  BY <1>0 DEF CreateNote
<1>4. ~\E t, m : row'[i] \in {DeletedNote(row[i], t), KeptNote(row[i], t), ForkedNote(row[i], m, t)}
  BY <1>0, <1>1, LocalLife
<1>5. ~\E snap, t : row'[i] \in {SettledNote(row[i], snap, t), AdoptedNote(row[i], snap, t)}
  BY <1>0, <1>1, AnsweredLife
<1>6. row'[i] # ErroredNote(row[i])
  BY <1>0, <1>1, ErroredLife
<1>7. ~\E ch \in Channel : DeleteDone(i, ch)
  BY <1>0 DEF DeleteDone, DeletesInv, Finished
<1>8. row[i].life # "unused"
  BY <1>0
<1>9. \/ EditNote(i) \/ RefreshConflict(i)
      \/ \E n \in Note : PullRemoves(n) /\ i \in readIds
      \/ \E n \in Note : PullUpserts(n) /\ i \in RowsOf(n)
  BY <1>2, <1>3, <1>4, <1>5, <1>6, <1>7, <1>8 DEF Written
<1>10. ASSUME NEW n \in Note, PullRemoves(n)
       PROVE  page[n].life = "tomb" \/ ~Dirty(readRow)
  BY <1>10 DEF PullRemoves
<1>11. ASSUME NEW n \in Note, PullUpserts(n)
       PROVE  Known => ~Dirty(readRow)
  BY <1>11 DEF PullUpserts, Dirty
<1>12. QED
  BY <1>9, <1>10, <1>11

(* Unpushed text leaves a live row only when the user edits or refreshes   *)
(* it, or in the very step in which a pull applies to this row a deletion, *)
(* or a copy decided on a clean or missing row: never by an answer.        *)
THEOREM UnpushedTextStays == Spec => UnpushedTextSurvives
<1> DEFINE A == \A i \in Id :
          Dirty(row[i]) /\ (row'[i].body # row[i].body \/ row'[i].life = "gone")
              => \/ EditNote(i) \/ RefreshConflict(i)
                 \/ \E n \in Note :
                       /\ PullRemoves(n) /\ i \in readIds
                       /\ page[n].life = "tomb" \/ ~Dirty(readRow)
                 \/ \E n \in Note :
                       /\ PullUpserts(n) /\ i \in RowsOf(n)
                       /\ Known => ~Dirty(readRow)
<1>1. TypeInv /\ IdentityInv /\ DeletesInv /\ [Next]_vars
        => TypeInv' /\ IdentityInv' /\ DeletesInv'
  BY TypeStep, IdentityStep, DeletesStep
<1>2. TypeInv /\ IdentityInv /\ DeletesInv /\ [Next]_vars => [A]_vars
  BY TextSurvives
<1>3. QED
  BY TypeInit, IdentityInit, <1>1, <1>2, PTL DEF Spec, UnpushedTextSurvives
------------------------------------------------------------------------
(* Revisions.  The base of a linked row was produced by the cloud for that *)
(* identity, is not newer than the cloud's row, and was written, applied   *)
(* or shown by this installation; so are those of the snapshots under way, *)
(* and the stored conflict copies.  A listed copy or an answer is a        *)
(* revision the cloud has had.                                             *)
Passed(n, t) == t # 0 /\ t <= cloud[n].at

Shown(n, t) == Passed(n, t) /\ <<n, t>> \in seen

RevisionsInv ==
    /\ \A n \in Note : /\ cloud[n].at <= clock
                       /\ cloud[n].life # "none" <=> cloud[n].at # 0
                       /\ page[n].life # "none" => Passed(n, page[n].at)
                       /\ Conflicted(n) => Shown(n, conflict[n].at)
    /\ \A i \in Id : /\ Exists(row[i]) /\ row[i].linked => Shown(row[i].cid, row[i].base)
                     /\ Exists(todo[i]) /\ todo[i].linked => Shown(todo[i].cid, todo[i].base)
    /\ \A i \in Id, ch \in Channel :
          LET f == flight[i][ch] IN
          /\ f.op # "none" /\ f.snap.linked => Shown(f.snap.cid, f.snap.base)
          /\ f.op = "patch" => f.snap.linked
          /\ f.op \in {"patch", "post"} /\ f.reply \in {"ok", "conflict"} =>
                Passed(f.snap.cid, f.copy.at)

(* How a step moves the history, the clock and the conflict registry. *)
LEMMA SeenGrows ==
    ASSUME TypeInv, [Next]_vars
    PROVE  seen \subseteq seen' /\ clock' \in {clock, clock + 1}
<1> DEFINE Grows == seen \subseteq seen' /\ clock' \in {clock, clock + 1}
<1>1. CASE UserStep
  BY <1>1 DEF UserStep, CreateNote, EditNote, DeleteNote, KeepConflict, RefreshConflict, Act
<1>2. CASE PeerStep
  BY <1>2 DEF PeerStep, PeerCreate, PeerWrite, PeerRemove, Act
<1>3. CASE \/ StartPass \/ SkipConflicted \/ StartDeletes \/ StartPull \/ PullList \/ EndPull
           \/ (\E i \in Id : PassPush(i) \/ PassDelete(i))
           \/ \E m \in Note : PullRead(m)
  BY <1>3 DEF StartPass, SkipConflicted, StartDeletes, StartPull, PullList, EndPull, PassPush, PassDelete,
              PullRead
<1>4. ASSUME NEW m \in Note, PullApply(m)
      PROVE  Grows
  BY <1>4 DEF PullApply, PullRemoves, PullForks, PullKeepsLocal, PullConflicts, PullUpserts,
              Fork
<1>5. CASE \/ FaultStep
           \/ \E i \in Id, s \in Slot : DebouncedPush(i, s)
  BY <1>5 DEF FaultStep, PullFailed, Restart, LoseRequest, DebouncedPush
<1>6. ASSUME NEW i \in Id, NEW ch \in Channel, Serve(i, ch)
      PROVE  Grows
  BY <1>6 DEF Serve, ServePatch, ServePost, ServeDelete, Store, Refuse
<1>7. ASSUME NEW i \in Id, NEW ch \in Channel, Take(i, ch)
      PROVE  Grows
  BY <1>7 DEF Take, PatchSettled, PatchConflicted, PatchGone, PushRevoked, PushFailed,
              PostAcknowledged, CleanupDone, DeleteDone, SetRow, Fork
<1>8. CASE UNCHANGED vars
  BY <1>8 DEF vars
<1>9. QED
  BY <1>1, <1>2, <1>3, <1>4, <1>5, <1>6, <1>7, <1>8 DEF Next, PassStep

LEMMA ConflictMoves ==
    ASSUME TypeInv, [Next]_vars, NEW n \in Note
    PROVE  \/ conflict'[n] \in {conflict[n], NoCloud}
           \/ /\ conflict'[n] = page[n] /\ page[n].life # "none"
              /\ <<n, page[n].at>> \in seen'
           \/ \E i \in Id, ch \in Channel :
                 /\ PatchConflicted(i, ch) /\ flight[i][ch].snap.cid = n
                 /\ conflict'[n] = flight[i][ch].copy
                 /\ <<n, flight[i][ch].copy.at>> \in seen'
<1> DEFINE Moves ==
           \/ conflict'[n] \in {conflict[n], NoCloud}
           \/ /\ conflict'[n] = page[n] /\ page[n].life # "none"
              /\ <<n, page[n].at>> \in seen'
           \/ \E i \in Id, ch \in Channel :
                 /\ PatchConflicted(i, ch) /\ flight[i][ch].snap.cid = n
                 /\ conflict'[n] = flight[i][ch].copy
                 /\ <<n, flight[i][ch].copy.at>> \in seen'
<1>0. conflict \in [Note -> CloudRow]
  BY DEF TypeInv, TypeOK
<1>1. CASE UNCHANGED conflict
  BY <1>1
<1>2. ASSUME NEW m, conflict' = [conflict EXCEPT ![m] = NoCloud] PROVE Moves
  BY <1>0, <1>2
<1>3. CASE UserStep
  BY <1>1, <1>2, <1>3 DEF UserStep, CreateNote, EditNote, DeleteNote, KeepConflict,
                          RefreshConflict
<1>4. CASE PeerStep
  BY <1>1, <1>4 DEF PeerStep, PeerCreate, PeerWrite, PeerRemove, userVars
<1>5. CASE \/ StartPass \/ SkipConflicted \/ StartDeletes \/ StartPull \/ PullList \/ EndPull
           \/ (\E i \in Id : PassPush(i) \/ PassDelete(i))
           \/ \E m \in Note : PullRead(m)
  BY <1>1, <1>5 DEF StartPass, SkipConflicted, StartDeletes, StartPull, PullList, EndPull, PassPush, PassDelete,
              PullRead, userVars
<1>6. ASSUME NEW m \in Note, PullApply(m)
      PROVE  Moves
  <2>1. \/ conflict' = conflict
        \/ conflict' = [conflict EXCEPT ![m] = NoCloud]
        \/ /\ conflict' = [conflict EXCEPT ![m] = page[m]]
           /\ page[m].life = "live" /\ <<m, page[m].at>> \in seen'
    BY <1>6 DEF PullApply, PullRemoves, PullForks, PullKeepsLocal, PullConflicts,
                PullUpserts, Settle, Wins, userVars
  <2>2. QED
    BY <1>0, <1>1, <1>2, <2>1
<1>7. CASE \/ FaultStep
           \/ \E i \in Id, s \in Slot : DebouncedPush(i, s)
  BY <1>1, <1>7 DEF FaultStep, PullFailed, Restart, LoseRequest, DebouncedPush, userVars
<1>8. ASSUME NEW i \in Id, NEW ch \in Channel, Serve(i, ch)
      PROVE  Moves
  BY <1>1, <1>8 DEF Serve, ServePatch, ServePost, ServeDelete, userVars
<1>9. ASSUME NEW i \in Id, NEW ch \in Channel, Take(i, ch)
      PROVE  Moves
  <2> DEFINE f == flight[i][ch]
  <2>1. \/ conflict' = conflict
        \/ conflict' = [conflict EXCEPT ![f.snap.cid] = NoCloud]
        \/ /\ PatchConflicted(i, ch)
           /\ conflict' = [conflict EXCEPT ![f.snap.cid] = f.copy]
           /\ <<f.snap.cid, f.copy.at>> \in seen'
    BY <1>9 DEF Take, PatchSettled, PatchConflicted, PatchGone, PushRevoked,
                PushFailed, PostAcknowledged, CleanupDone, DeleteDone, userVars
  <2>2. QED
    BY <1>0, <1>1, <1>2, <2>1
<1>10. CASE UNCHANGED vars
  BY <1>1, <1>10 DEF vars
<1>11. QED
  BY <1>3, <1>4, <1>5, <1>6, <1>7, <1>8, <1>9, <1>10 DEF Next, PassStep

(* The same of the next state, for a note and a revision of this one. *)
PassedNext(n, t) == t # 0 /\ t <= cloud'[n].at

ShownNext(n, t) == PassedNext(n, t) /\ <<n, t>> \in seen'

(* The cloud only moves forward, so what it has passed stays passed. *)
LEMMA RevisionsStay ==
    ASSUME TypeInv, RevisionsInv, [Next]_vars, NEW n \in Note, NEW t \in Nat
    PROVE  /\ Passed(n, t) => PassedNext(n, t)
           /\ Shown(n, t) => ShownNext(n, t)
           /\ cloud'[n].at <= clock'
           /\ cloud'[n].life # "none" <=> cloud'[n].at # 0
<1>0. /\ clock \in Nat \ {0} /\ cloud[n] \in CloudRow
      /\ cloud[n].at <= clock /\ (cloud[n].life # "none" <=> cloud[n].at # 0)
  BY DEF TypeInv, TypeOK, RevisionsInv
<1>1. \/ cloud'[n] = cloud[n]
      \/ /\ cloud'[n].at = clock + 1 /\ clock' = clock + 1
         /\ cloud'[n].life # "none"
  BY CloudMoves
<1>2. seen \subseteq seen' /\ clock' \in {clock, clock + 1}
  BY SeenGrows
<1>3. cloud[n].at \in Nat
  BY <1>0 DEF CloudRow
<1>4. Passed(n, t) => PassedNext(n, t)
  BY <1>0, <1>1, <1>3 DEF Passed, PassedNext
<1>5. /\ cloud'[n].at <= clock'
      /\ cloud'[n].life # "none" <=> cloud'[n].at # 0
  BY <1>0, <1>1, <1>2, <1>3
<1>6. QED
  BY <1>2, <1>4, <1>5 DEF Shown, ShownNext

(* The base of r, if r is linked, is one this installation knows. *)
LinkedShown(r) == Exists(r) /\ r.linked => ShownNext(r.cid, r.base)

(* Rows take their base from a stored or listed copy or from the answer to *)
(* their own push, and the step that does so records the revision.         *)
LEMMA RowsShown ==
    ASSUME TypeInv, RevisionsInv, [Next]_vars, NEW i \in Id
    PROVE  LinkedShown(row'[i])
<1>0. /\ row[i] \in Row /\ (Exists(row[i]) => row[i].cid \in Note)
      /\ row[i].base \in Nat /\ row[i].life \in {"unused", "live", "tomb", "gone"}
      /\ row[i].linked \in BOOLEAN
  BY DEF TypeInv, TypeOK, NamesNotes, Row
<1> DEFINE n == row[i].cid
<1>1. LinkedShown(row[i])
  BY <1>0, RevisionsStay DEF RevisionsInv, LinkedShown
<1>2. ASSUME NEW r, Exists(row[i]), r.linked = row[i].linked, r.cid = n, r.base = row[i].base
      PROVE  LinkedShown(r)
  BY <1>1, <1>2 DEF LinkedShown
<1>3. ASSUME NEW r, Exists(row[i]), r.cid = n, ShownNext(n, r.base)
      PROVE  LinkedShown(r)
  BY <1>3 DEF LinkedShown
<1>4. ASSUME NEW m, NEW t
      PROVE  LinkedShown(SavedNote(m, t)) /\ LinkedShown(ForkedNote(row[i], m, t))
  BY <1>0 DEF LinkedShown, SavedNote, ForkedNote, Row
<1>5. CASE EditNote(i) /\ row'[i] = EditedNote(row[i], clock + 1)
  <2>1. /\ EditedNote(row[i], clock + 1).linked = row[i].linked
        /\ EditedNote(row[i], clock + 1).cid = n
        /\ EditedNote(row[i], clock + 1).base = row[i].base
    BY <1>0 DEF EditedNote, Row
  <2>2. QED
    BY <1>2, <1>5, <2>1 DEF EditNote, Exists
<1>6. CASE DeleteNote(i) /\ row'[i] = DeletedNote(row[i], clock + 1)
  <2>1. /\ DeletedNote(row[i], clock + 1).linked = row[i].linked
        /\ DeletedNote(row[i], clock + 1).cid = n
        /\ DeletedNote(row[i], clock + 1).base = row[i].base
    BY <1>0 DEF DeletedNote, Row
  <2>2. QED
    BY <1>2, <1>6, <2>1 DEF DeleteNote, Exists
<1>7. CASE row'[i] = ErroredNote(row[i])
  BY <1>0, <1>1, <1>7, ErroredLife DEF LinkedShown, Exists
<1>8. CASE row'[i] = HardDeletedNote(row[i])
  BY <1>0, <1>1, <1>8, IdentityKept DEF LinkedShown
<1>9. ASSUME Exists(row[i]), Conflicted(n)
      PROVE  ShownNext(n, conflict[n].at)
  BY <1>0, <1>9, RevisionsStay DEF RevisionsInv, TypeInv, TypeOK, CloudRow
<1>10. CASE KeepConflict(i) /\ row'[i] = KeptNote(row[i], conflict[n].at)
  <2>1. Exists(row[i]) /\ Conflicted(n)
    BY <1>10 DEF KeepConflict, Exists
  <2>2. KeptNote(row[i], conflict[n].at).cid = n
        /\ KeptNote(row[i], conflict[n].at).base = conflict[n].at
    BY <1>0, <2>1 DEF KeptNote, Row
  <2>3. QED
    BY <1>3, <1>9, <1>10, <2>1, <2>2
<1>11. ASSUME NEW c, Exists(row[i]), ShownNext(n, c.at), row'[i] = UpsertedNote(row[i], c)
       PROVE  LinkedShown(row'[i])
  <2>1. UpsertedNote(row[i], c).cid = n /\ UpsertedNote(row[i], c).base = c.at
    BY <1>0 DEF UpsertedNote, Row
  <2>2. QED
    BY <1>3, <1>11, <2>1
<1>12. CASE RefreshConflict(i) /\ row'[i] = UpsertedNote(row[i], conflict[n])
  <2>1. Exists(row[i]) /\ Conflicted(n)
    BY <1>12 DEF RefreshConflict, Exists
  <2>2. QED
    BY <1>9, <1>11, <1>12, <2>1
<1>13. ASSUME NEW ch \in Channel
       PROVE  LET f == flight[i][ch] IN
              /\ PatchSettled(i, ch) /\ row'[i] = SettledNote(row[i], f.snap, f.copy.at)
                    => LinkedShown(row'[i])
              /\ PostAcknowledged(i, ch) /\ row'[i] = AdoptedNote(row[i], f.snap, f.copy.at)
                    => LinkedShown(row'[i])
  <2> DEFINE f == flight[i][ch]
             t == f.copy.at
  <2>1. f \in Flight /\ t \in Nat
    BY DEF TypeInv, TypeOK, Flight, CloudRow
  <2>2. ASSUME PatchSettled(i, ch) \/ PostAcknowledged(i, ch)
        PROVE  f.snap.cid \in Note /\ ShownNext(f.snap.cid, t)
    <3>1. /\ f.op \in {"patch", "post"} /\ f.reply = "ok"
          /\ <<f.snap.cid, t>> \in seen'
      BY <2>2 DEF PatchSettled, PostAcknowledged
    <3>2. f.snap.cid \in Note /\ Passed(f.snap.cid, t)
      BY <3>1 DEF TypeInv, NamesNotes, RevisionsInv
    <3>3. QED
      BY <2>1, <3>1, <3>2, RevisionsStay DEF ShownNext
  <2>3. ASSUME PatchSettled(i, ch), row'[i] = SettledNote(row[i], f.snap, t)
        PROVE  LinkedShown(row'[i])
    <3>1. CASE ~SamePatchIdentity(row[i], f.snap)
      BY <1>1, <2>3, <3>1 DEF SettledNote
    <3>2. CASE SamePatchIdentity(row[i], f.snap)
      <4>1. /\ Exists(row[i]) /\ f.snap.cid = n
            /\ ShownNext(n, row[i].base) /\ ShownNext(n, t)
        BY <1>1, <2>2, <2>3, <3>2 DEF SamePatchIdentity, LinkedShown
      <4>2. /\ row'[i].cid = n
            /\ row'[i].base \in {row[i].base, t}
        BY <1>0, <2>3, <3>2 DEF SettledNote, Later, Row
      <4>3. QED
        BY <1>3, <4>1, <4>2
    <3>3. QED
      BY <3>1, <3>2
  <2>4. ASSUME PostAcknowledged(i, ch), row'[i] = AdoptedNote(row[i], f.snap, t)
        PROVE  LinkedShown(row'[i])
    <3>1. CASE ~CreateAdoptable(row[i], f.snap)
      BY <1>1, <2>4, <3>1 DEF AdoptedNote
    <3>2. CASE CreateAdoptable(row[i], f.snap)
      <4>1. Exists(row[i]) /\ f.snap.cid = n /\ ShownNext(n, t)
        BY <2>2, <2>4, <3>2 DEF CreateAdoptable
      <4>2. row'[i].cid = n /\ row'[i].base = t
        BY <1>0, <2>4, <3>2 DEF AdoptedNote, Row
      <4>3. QED
        BY <1>3, <4>1, <4>2
    <3>3. QED
      BY <3>1, <3>2
  <2>5. QED
    BY <2>3, <2>4
<1>14. ASSUME NEW m \in Note, PullUpserts(m)
       PROVE  ShownNext(m, page[m].at)
  <2>1. page[m].life # "none" /\ <<m, page[m].at>> \in seen'
    BY <1>14 DEF PullUpserts, Wins
  <2>2. page[m].at \in Nat /\ Passed(m, page[m].at)
    BY <2>1 DEF RevisionsInv, TypeInv, TypeOK, CloudRow
  <2>3. QED
    BY <2>1, <2>2, RevisionsStay DEF ShownNext
<1>15. ASSUME NEW m \in Note, PullUpserts(m), row'[i] = InsertedNote(m, page[m])
       PROVE  LinkedShown(row'[i])
  BY <1>14, <1>15 DEF LinkedShown, InsertedNote
<1>16. ASSUME NEW m \in Note, PullUpserts(m), i \in RowsOf(m),
              row'[i] = UpsertedNote(row[i], page[m])
       PROVE  LinkedShown(row'[i])
  BY <1>11, <1>14, <1>16 DEF RowsOf
<1>17. CASE row'[i] = RestoredNote(row[i])
  <2>1. RestoredNote(row[i]).linked = row[i].linked /\ RestoredNote(row[i]).base = row[i].base
    BY <1>0 DEF RestoredNote, Row
  <2>2. QED
    BY <1>0, <1>1, <1>17, <2>1, IdentityKept DEF LinkedShown
<1>18. CASE Written(i)
  BY <1>4, <1>5, <1>6, <1>7, <1>8, <1>10, <1>12, <1>13, <1>15, <1>16, <1>17, <1>18
     DEF Written
<1>19. QED
  BY <1>1, <1>18, RowWrites

LEMMA TodoShown ==
    ASSUME TypeInv, RevisionsInv, [Next]_vars, NEW i \in Id
    PROVE  LinkedShown(todo'[i])
<1>1. \A r \in {row[i], todo[i]} :
        /\ r.base \in Nat /\ (Exists(r) => r.cid \in Note)
        /\ Exists(r) /\ r.linked => Shown(r.cid, r.base)
  BY DEF TypeInv, TypeOK, NamesNotes, Row, RevisionsInv
<1>2. LinkedShown(row[i]) /\ LinkedShown(todo[i])
  BY <1>1, RevisionsStay DEF LinkedShown
<1>3. LinkedShown(NoRow)
  BY DEF LinkedShown, NoRow
<1>4. QED
  BY <1>2, <1>3, TodoWrites

(* The part of RevisionsInv about one request. *)
PushShown(f) ==
    /\ f.op # "none" /\ f.snap.linked => ShownNext(f.snap.cid, f.snap.base)
    /\ f.op = "patch" => f.snap.linked
    /\ f.op \in {"patch", "post"} /\ f.reply \in {"ok", "conflict"} =>
          PassedNext(f.snap.cid, f.copy.at)

LEMMA FlightsShown ==
    ASSUME TypeInv, RevisionsInv, [Next]_vars, NEW i \in Id, NEW ch \in Channel
    PROVE  PushShown(flight'[i][ch])
<1> DEFINE f == flight[i][ch]
<1>0. /\ f \in Flight /\ f.snap.base \in Nat /\ f.copy.at \in Nat
      /\ f.op # "none" => f.snap.cid \in Note
  BY DEF TypeInv, TypeOK, NamesNotes, Flight, Row, CloudRow
<1>1. PushShown(f)
  BY <1>0, RevisionsStay DEF RevisionsInv, PushShown
<1>2. PushShown(NoFlight)
  BY DEF NoFlight, PushShown
<1>3. ASSUME NEW op, NEW r, Exists(r), r.linked => ShownNext(r.cid, r.base),
             op = "patch" => r.linked
      PROVE  PushShown(Request(op, r))
  BY <1>3 DEF PushShown, Request
<1>4. CASE Sent(i, ch)
  <2>1. LinkedShown(row[i]) /\ LinkedShown(todo[i])
    <3>1. \A r \in {row[i], todo[i]} :
            /\ r.base \in Nat /\ (Exists(r) => r.cid \in Note)
            /\ Exists(r) /\ r.linked => Shown(r.cid, r.base)
      BY DEF TypeInv, TypeOK, NamesNotes, Row, RevisionsInv
    <3>2. QED
      BY <3>1, RevisionsStay DEF LinkedShown
  <2>2. ASSUME NEW r \in {row[i], todo[i]}, Exists(r),
               \/ flight'[i][ch] = Request(IF r.linked THEN "patch" ELSE "post", r)
               \/ flight'[i][ch] = Request("delete", r)
        PROVE  PushShown(flight'[i][ch])
    BY <1>3, <2>1, <2>2 DEF LinkedShown
  <2>3. CASE f.op # "none" /\ flight'[i][ch] = Request("cleanup", f.snap)
    BY <1>1, <2>3 DEF PushShown, Request
  <2>4. QED
    BY <1>4, <2>2, <2>3 DEF Sent, Exists, PassDelete
<1>5. CASE Answered(i, ch)
  <2>1. PICK reply \in Reply, copy \in CloudRow :
          /\ flight'[i][ch] = [f EXCEPT !.reply = reply, !.copy = copy]
          /\ reply \in {"ok", "conflict"} =>
                copy.life # "none" /\ copy = cloud'[f.snap.cid]
    BY <1>5 DEF Answered
  <2>2. f.op # "none"
    BY <1>5 DEF Answered
  <2>3. /\ flight'[i][ch].op = f.op /\ flight'[i][ch].snap = f.snap
        /\ flight'[i][ch].reply = reply /\ flight'[i][ch].copy = copy
    BY <1>0, <2>1 DEF Flight
  <2>4. reply \in {"ok", "conflict"} => PassedNext(f.snap.cid, copy.at)
    <3>1. /\ cloud'[f.snap.cid].life # "none" => cloud'[f.snap.cid].at # 0
          /\ cloud'[f.snap.cid] \in CloudRow
      BY <1>0, <2>2, RevisionsStay, TypeStep DEF TypeInv, TypeOK
    <3>2. QED
      BY <2>1, <3>1 DEF PassedNext, CloudRow
  <2>5. QED
    BY <1>1, <2>3, <2>4 DEF PushShown
<1>6. QED
  BY <1>1, <1>2, <1>4, <1>5, FlightWrites

LEMMA ConflictsShown ==
    ASSUME TypeInv, RevisionsInv, [Next]_vars, NEW n \in Note,
           conflict'[n].life # "none"
    PROVE  ShownNext(n, conflict'[n].at)
<1>0. \A c \in {conflict[n], page[n], cloud[n]} : c.at \in Nat
  BY DEF TypeInv, TypeOK, CloudRow
<1>1. CASE conflict'[n] = conflict[n]
  BY <1>0, <1>1, RevisionsStay DEF RevisionsInv, Conflicted
<1>2. CASE conflict'[n] = NoCloud
  BY <1>2 DEF NoCloud
<1>3. CASE conflict'[n] = page[n] /\ page[n].life # "none" /\ <<n, page[n].at>> \in seen'
  BY <1>0, <1>3, RevisionsStay DEF RevisionsInv, ShownNext
<1>4. ASSUME NEW i \in Id, NEW ch \in Channel,
             PatchConflicted(i, ch), flight[i][ch].snap.cid = n,
             conflict'[n] = flight[i][ch].copy,
             <<n, flight[i][ch].copy.at>> \in seen'
      PROVE  ShownNext(n, conflict'[n].at)
  <2>1. flight[i][ch].op = "patch" /\ flight[i][ch].reply = "conflict"
    BY <1>4 DEF PatchConflicted
  <2>2. flight[i][ch].copy.at \in Nat /\ Passed(n, flight[i][ch].copy.at)
    BY <1>4, <2>1 DEF RevisionsInv, TypeInv, TypeOK, Flight, CloudRow
  <2>3. QED
    BY <1>4, <2>2, RevisionsStay DEF ShownNext
<1>5. QED
  BY <1>1, <1>2, <1>3, <1>4, ConflictMoves

LEMMA RevisionsStep ==
    ASSUME TypeInv, RevisionsInv, [Next]_vars
    PROVE  RevisionsInv'
<1>1. ASSUME NEW n \in Note, page'[n].life # "none"
      PROVE  PassedNext(n, page'[n].at)
  <2>0. page[n].at \in Nat /\ cloud[n].at \in Nat
    BY DEF TypeInv, TypeOK, CloudRow
  <2>1. CASE page'[n] = page[n]
    BY <1>1, <2>0, <2>1, RevisionsStay DEF RevisionsInv
  <2>2. CASE page'[n] = cloud[n]
    <3>1. Passed(n, cloud[n].at)
      BY <1>1, <2>0, <2>2 DEF RevisionsInv, Passed
    <3>2. QED
      BY <2>0, <2>2, <3>1, RevisionsStay
  <2>3. QED
    BY <1>1, <2>1, <2>2, PullMoves DEF NoCloud
<1>2. \A n \in Note : cloud'[n].at <= clock' /\ (cloud'[n].life # "none" <=> cloud'[n].at # 0)
  <2>1. TAKE n \in Note
  <2>2. 0 \in Nat
    OBVIOUS
  <2>3. QED
    BY <2>2, RevisionsStay
<1>3. QED
  BY <1>1, <1>2, RowsShown, TodoShown, FlightsShown, ConflictsShown
     DEF RevisionsInv, LinkedShown, PushShown, ShownNext, PassedNext, Shown, Passed, Conflicted

(* A PATCH the cloud stored had a base no older than the cloud's row, and   *)
(* by RevisionsInv no newer: it is the revision that gets replaced.        *)
LEMMA OverwritesShown ==
    ASSUME TypeInv, RevisionsInv, NEW i \in Id, NEW ch \in Channel,
           ServePatch(i, ch), flight'[i][ch].reply = "ok"
    PROVE  <<flight[i][ch].snap.cid, cloud[flight[i][ch].snap.cid].at>> \in seen
<1> DEFINE s == flight[i][ch].snap
           c == cloud[s.cid]
<1>1. flight[i][ch].op = "patch"
  BY DEF ServePatch, Waiting
<1>2. s.cid \in Note /\ s.base \in Nat /\ c.at \in Nat
  BY <1>1 DEF TypeInv, TypeOK, NamesNotes, Flight, Row, CloudRow
<1>3. Shown(s.cid, s.base)
  BY <1>1 DEF RevisionsInv
<1>4. ASSUME NEW reply, NEW copy, reply # "ok"
      PROVE  ~Refuse(i, ch, reply, copy)
  <2>1. ASSUME Answer(i, ch, reply, copy)
        PROVE  FALSE
    <3>1. flight' = [flight EXCEPT ![i][ch] =
                       [flight[i][ch] EXCEPT !.reply = reply, !.copy = copy]]
      BY <2>1 DEF Answer, TypeInv, TypeOK
    <3>2. flight'[i][ch] = [flight[i][ch] EXCEPT !.reply = reply, !.copy = copy]
      BY <3>1 DEF TypeInv, TypeOK
    <3>3. flight'[i][ch].reply = reply
      BY <3>2 DEF TypeInv, TypeOK, Flight
    <3>4. QED
      BY <1>4, <3>3
  <2>2. QED
    BY <2>1 DEF Refuse
<1>5. ~(s.base # 0 /\ c.at > s.base)
  BY <1>4 DEF ServePatch
<1>6. QED
  BY <1>2, <1>3, <1>5 DEF Shown, Passed

LEMMA RevisionsHold == Spec => [](TypeInv /\ RevisionsInv)
<1>1. Init => RevisionsInv
  BY DEF Init, RevisionsInv, NoRow, NoFlight, NoCloud, Conflicted, Exists
<1>2. TypeInv /\ RevisionsInv /\ [Next]_vars => TypeInv' /\ RevisionsInv'
  BY TypeStep, RevisionsStep
<1>3. QED
  BY TypeInit, <1>1, <1>2, PTL DEF Spec

(* A row that claims a cloud copy has one under the identity it has by     *)
(* now, whatever forks and late acknowledgements crossed: its base is a    *)
(* revision of that very identity.                                         *)
THEOREM LinksHaveCopies == Spec => []LinkedRowsHaveCopies
<1>1. TypeInv /\ RevisionsInv => LinkedRowsHaveCopies
  <2>1. SUFFICES ASSUME TypeInv, RevisionsInv, NEW i \in Id, Exists(row[i]), row[i].linked
                 PROVE  cloud[row[i].cid].life # "none"
    BY DEF LinkedRowsHaveCopies
  <2>2. /\ row[i].cid \in Note /\ row[i].base \in Nat
        /\ cloud[row[i].cid].at \in Nat
    BY <2>1 DEF TypeInv, TypeOK, NamesNotes, Row, CloudRow
  <2>3. row[i].base # 0 /\ row[i].base <= cloud[row[i].cid].at
    BY <2>1 DEF RevisionsInv, Shown, Passed
  <2>4. cloud[row[i].cid].life # "none" <=> cloud[row[i].cid].at # 0
    BY <2>1, <2>2 DEF RevisionsInv
  <2>5. QED
    BY <2>2, <2>3, <2>4
<1>2. QED
  BY RevisionsHold, <1>1, PTL

(* A PATCH of this installation only replaces a revision it has written,   *)
(* applied or shown in the conflict banner.                                *)
THEOREM OverwritesAreSeen == Spec => NoUnseenOverwrite
<1> DEFINE A == \A i \in Id, ch \in Channel :
          ServePatch(i, ch) /\ flight'[i][ch].reply = "ok"
              => LET n == flight[i][ch].snap.cid
                 IN <<n, cloud[n].at>> \in seen
<1>1. TypeInv /\ RevisionsInv /\ [Next]_vars => [A]_vars
  BY OverwritesShown
<1>2. QED
  BY RevisionsHold, <1>1, PTL DEF Spec, NoUnseenOverwrite
========================================================================
