-------------------------- MODULE DictionaryProofs --------------------------
(* The dictionary and its syncs, for any windows, words, rows, identities and *)
(* number of events: a word has one row, removed words stay queued.           *)
EXTENDS DictionarySync, TLAPS, WellFoundedInduction

-----------------------------------------------------------------------------
(* Facts about the operators of the model. *)

LEMMA Choices == AnyWord \in Word /\ AnyIdent \in Ident
  BY WordAssumption, IdentAssumption DEF AnyWord, AnyIdent

LEMMA BlankTyped ==
  /\ NoRow \in Row /\ ~Exists(NoRow)
  /\ NoEntry \in Entry /\ NoEntry.life = "none"
  /\ NoFlight \in Flight
  /\ NotRead \in Read
  BY Choices DEF NoRow, Row, NoEntry, Entry, NoFlight, Flight, Read, Exists

LEMMA IdleTyped == Idle \in Run /\ Empty \in [Id -> Row]
  BY BlankTyped DEF Idle, Run, Empty, Phases

\* AUTOINCREMENT gives an id that no row has had.
LEMMA NextIdIsNew ==
  ASSUME usedIds \subseteq Id, usedIds # Id
  PROVE  NextId \in Id /\ NextId \notin usedIds
  <1> DEFINE rest == Id \ usedIds
  <1>1. rest \subseteq Nat /\ rest # {}
    BY IdAssumption
  <1>2. PICK i \in rest : \A j \in rest : ~(<<j, i>> \in OpToRel(<, Nat))
    BY <1>1, NatLessThanWellFounded, WFMin
  <1>3. \A j \in rest : i <= j
    <2> SUFFICES ASSUME NEW j \in rest PROVE i <= j
      OBVIOUS
    <2>1. ~(j < i)
      BY <1>1, <1>2 DEF OpToRel
    <2>2. QED BY <1>1, <2>1
  <1>4. QED BY <1>3 DEF NextId

\* The parts of a sync.
LEMMA RunParts ==
  ASSUME TypeOK, NEW x \in Window
  PROVE  /\ sync[x] \in Run
         /\ sync[x].phase \in Phases
         /\ sync[x].todo \in [Id -> Row]
         /\ sync[x].flight \in Flight
         /\ sync[x].made \subseteq Id
         /\ sync[x].page \in [Ident -> Entry]
         /\ sync[x].read \in Read
         /\ sync[x].top \in Nat
  BY DEF TypeOK, Run

\* What a step of a sync puts in its place.
LEMMA RunChanged ==
  ASSUME TypeOK, NEW x \in Window
  PROVE  /\ \A flight \in Flight :
                [sync EXCEPT ![x].flight = flight] \in [Window -> Run]
         /\ \A phase \in Phases, todo \in [Id -> Row] :
                [sync EXCEPT ![x].phase = phase, ![x].todo = todo] \in [Window -> Run]
         /\ \A todo \in [Id -> Row] :
                [sync EXCEPT ![x].todo = todo] \in [Window -> Run]
         /\ \A flight \in Flight, todo \in [Id -> Row] :
                [sync EXCEPT ![x].flight = flight, ![x].todo = todo] \in [Window -> Run]
         /\ \A made \in SUBSET Id, phase \in Phases :
                [sync EXCEPT ![x].made = made, ![x].phase = phase] \in [Window -> Run]
         /\ \A made \in SUBSET Id :
                [sync EXCEPT ![x].made = made] \in [Window -> Run]
         /\ \A made \in SUBSET Id, flight \in Flight :
                [sync EXCEPT ![x].made = made, ![x].flight = flight] \in [Window -> Run]
         /\ \A phase \in Phases, todo \in [Id -> Row], made \in SUBSET Id :
                [sync EXCEPT ![x].phase = phase, ![x].todo = todo, ![x].made = made] \in [Window -> Run]
         /\ \A phase \in Phases, page \in [Ident -> Entry], top \in Nat :
                [sync EXCEPT ![x].phase = phase, ![x].page = page, ![x].top = top] \in [Window -> Run]
         /\ \A read \in Read :
                [sync EXCEPT ![x].read = read] \in [Window -> Run]
         /\ \A page \in [Ident -> Entry], read \in Read, top \in Nat :
                [sync EXCEPT ![x].page = page, ![x].read = read, ![x].top = top] \in [Window -> Run]
  <1> DEFINE Table == [Id -> Row]
             Ids == SUBSET Id
             Page == [Ident -> Entry]
             Runs == [phase : Phases, todo : Table, flight : Flight, made : Ids, page : Page,
                      read : Read, top : Nat]
  <1>1. Runs = Run /\ sync \in [Window -> Runs]
    BY DEF TypeOK, Run
  <1> HIDE DEF Table, Ids, Page
  <1>2. \A flight \in Flight :
           [sync EXCEPT ![x].flight = flight] \in [Window -> Runs]
    BY <1>1
  <1>3. \A phase \in Phases, todo \in Table :
           [sync EXCEPT ![x].phase = phase, ![x].todo = todo] \in [Window -> Runs]
    BY <1>1
  <1>4. \A todo \in Table :
           [sync EXCEPT ![x].todo = todo] \in [Window -> Runs]
    BY <1>1
  <1>5. \A flight \in Flight, todo \in Table :
           [sync EXCEPT ![x].flight = flight, ![x].todo = todo] \in [Window -> Runs]
    BY <1>1
  <1>6. \A made \in Ids, phase \in Phases :
           [sync EXCEPT ![x].made = made, ![x].phase = phase] \in [Window -> Runs]
    BY <1>1
  <1>7. \A made \in Ids :
           [sync EXCEPT ![x].made = made] \in [Window -> Runs]
    BY <1>1
  <1>8. \A made \in Ids, flight \in Flight :
           [sync EXCEPT ![x].made = made, ![x].flight = flight] \in [Window -> Runs]
    BY <1>1
  <1>9. \A phase \in Phases, todo \in Table, made \in Ids :
           [sync EXCEPT ![x].phase = phase, ![x].todo = todo, ![x].made = made] \in [Window -> Runs]
    BY <1>1
  <1>10. \A phase \in Phases, page \in Page, top \in Nat :
           [sync EXCEPT ![x].phase = phase, ![x].page = page, ![x].top = top] \in [Window -> Runs]
    BY <1>1
  <1>11. \A read \in Read :
           [sync EXCEPT ![x].read = read] \in [Window -> Runs]
    BY <1>1
  <1>12. \A page \in Page, read \in Read, top \in Nat :
           [sync EXCEPT ![x].page = page, ![x].read = read, ![x].top = top] \in [Window -> Runs]
    BY <1>1
  <1> USE DEF Table, Ids, Page
  <1> HIDE DEF Runs
  <1>13. QED BY <1>1, <1>2, <1>3, <1>4, <1>5, <1>6, <1>7, <1>8, <1>9, <1>10, <1>11, <1>12

\* A list of rows is a table.
LEMMA ListedTyped ==
  ASSUME rows \in [Id -> Row]
  PROVE  /\ Listed(PendingWord) \in [Id -> Row]
         /\ Listed(PendingDelete) \in [Id -> Row]
         /\ \A i \in Id : Exists(Listed(PendingWord)[i]) => Listed(PendingWord)[i] = rows[i]
         /\ \A i \in Id : Exists(Listed(PendingDelete)[i]) => Listed(PendingDelete)[i] = rows[i]
  BY BlankTyped DEF Listed

LEMMA SettledTyped ==
  ASSUME TypeOK, NEW i \in Id \cup {0}, NEW n \in Ident \cup {NoIdent}
  PROVE  /\ MarkSynced(i, n) => rows' \in [Id -> Row]
         /\ ClearCloudId(i) => rows' \in [Id -> Row]
  <1>1. rows \in [Id -> Row]
    BY DEF TypeOK
  <1>2. \A r \in Row : /\ [r EXCEPT !.status = "synced", !.cloud = n] \in Row
                        /\ [r EXCEPT !.status = "pending", !.cloud = NoIdent] \in Row
    BY DEF Row
  <1>3. CASE i \in Id
    <2>1. [rows[i] EXCEPT !.status = "synced", !.cloud = n] \in Row
      BY <1>1, <1>2, <1>3
    <2>2. [rows[i] EXCEPT !.status = "pending", !.cloud = NoIdent] \in Row
      BY <1>1, <1>2, <1>3
    <2>3. QED BY <1>1, <1>3, <2>1, <2>2 DEF MarkSynced, ClearCloudId
  <1>4. CASE i \notin Id
    BY <1>1, <1>4 DEF MarkSynced, ClearCloudId
  <1>5. QED BY <1>3, <1>4

LEMMA MergedTyped ==
  ASSUME NEW n \in Ident, NEW copy \in Entry
  PROVE  Merged(n, copy) \in Row /\ Exists(Merged(n, copy))
  BY DEF Merged, Row, Entry, Exists

-----------------------------------------------------------------------------
(* Types. *)

LEMMA InitTyped == Init => TypeOK
  <1> SUFFICES ASSUME Init PROVE TypeOK
    OBVIOUS
  <1>1. rows \in [Id -> Row] /\ cloud \in [Ident -> Entry] /\ sync \in [Window -> Run]
    BY BlankTyped, IdleTyped DEF Init
  <1>2. QED BY <1>1, BoundAssumption DEF Init, TypeOK

\* A step that changes the table, the cloud and the syncs within their types.
LEMMA Retyped ==
  ASSUME TypeOK,
         rows' \in [Id -> Row], cloud' \in [Ident -> Entry], clock' \in Nat,
         sync' \in [Window -> Run], cursor' \in Nat,
         usedIds' \subseteq Id, usedIdents' \subseteq Ident,
         UNCHANGED <<acts, faults>>, mine' \subseteq Ident, UNCHANGED crossed
  PROVE  TypeOK'
  BY DEF TypeOK

LEMMA UserTyped == TypeOK /\ User => TypeOK'
  <1> SUFFICES ASSUME TypeOK, User PROVE TypeOK'
    OBVIOUS
  <1> USE DEF TypeOK
  <1>0. Act => acts' \in 0..MaxEvents /\ clock' \in Nat
    BY BoundAssumption DEF Act, Event
  <1>1. ASSUME NEW w \in Word, AddNew(w) PROVE TypeOK'
    <2>1. NextId \in Id
      BY <1>1, NextIdIsNew DEF AddNew
    <2>2. PICK n \in Ident \ usedIdents :
              /\ rows' = [rows EXCEPT ![NextId] =
                     [status |-> "pending", word |-> w, cid |-> n, cloud |-> NoIdent,
                      deleted |-> FALSE, ts |-> clock]]
              /\ usedIds' = usedIds \cup {NextId}
              /\ usedIdents' = usedIdents \cup {n}
      BY <1>1 DEF AddNew
    <2>3. rows' \in [Id -> Row]
      BY <2>1, <2>2 DEF Row
    <2>4. QED BY <1>0, <1>1, <2>1, <2>2, <2>3 DEF AddNew, history
  <1>2. ASSUME NEW w \in Word, AddAgain(w) PROVE TypeOK'
    <2>1. PICK i \in Last(OfKey(Key[w])) :
              rows' = [rows EXCEPT ![i] = [@ EXCEPT !.status = "pending", !.deleted = FALSE,
                                                    !.word = w, !.ts = clock]]
      BY <1>2 DEF AddAgain
    <2>2. rows' \in [Id -> Row]
      BY <2>1 DEF Row, Last, OfKey
    <2>3. QED BY <1>0, <1>2, <2>2 DEF AddAgain, used, history
  <1>3. ASSUME NEW k, Remove(k) PROVE TypeOK'
    <2>1. \A r \in Row : Removed(r) \in Row
      BY BlankTyped DEF Removed, Row
    <2>2. rows' \in [Id -> Row]
      BY <1>3, <2>1 DEF Remove
    <2>3. QED BY <1>0, <1>3, <2>2 DEF Remove, used, history
  <1>4. QED BY <1>1, <1>2, <1>3 DEF User

LEMMA PeerTyped == TypeOK /\ Peer => TypeOK'
  <1> SUFFICES ASSUME TypeOK, Peer PROVE TypeOK'
    OBVIOUS
  <1> USE DEF TypeOK
  <1>0. Act => acts' \in 0..MaxEvents /\ clock' \in Nat
    BY BoundAssumption DEF Act, Event
  <1>1. ASSUME NEW n \in Ident, NEW w \in Word, PeerAdds(n, w) PROVE TypeOK'
    <2>1. cloud' \in [Ident -> Entry]
      BY <1>1 DEF PeerAdds, Stored, Entry
    <2>2. QED BY <1>0, <1>1, <2>1 DEF PeerAdds, history
  <1>2. ASSUME NEW n \in Ident, NEW w \in Word, PeerEdits(n, w) PROVE TypeOK'
    <2>1. cloud' \in [Ident -> Entry]
      BY <1>2 DEF PeerEdits, Stored, Entry
    <2>2. QED BY <1>0, <1>2, <2>1 DEF PeerEdits, used, history
  <1>3. ASSUME NEW n \in Ident, PeerRemoves(n) PROVE TypeOK'
    <2>1. cloud' \in [Ident -> Entry]
      BY <1>3 DEF PeerRemoves, Entry
    <2>2. QED BY <1>0, <1>3, <2>1 DEF PeerRemoves, used, history
  <1>4. QED BY <1>1, <1>2, <1>3 DEF Peer

LEMMA PushTyped ==
  ASSUME TypeOK, NEW x \in Window,
         \/ \E i \in Id : PatchArrives(x, i) \/ CreateAnswered(x, i)
         \/ PatchAnswered(x)
         \/ CreatesArrive(x)
         \/ Cleanup(x)
  PROVE  TypeOK'
  <1> USE DEF TypeOK
  <1>t. sync[x].todo \in [Id -> Row]
    BY RunParts
  <1>f. sync[x].flight \in Flight
    BY RunParts
  <1>1. ASSUME NEW i \in Id, PatchArrives(x, i) PROVE TypeOK'
    <2> DEFINE sent == sync[x].todo[i]
    <2>0. sent \in Row /\ sent.cloud # NoIdent
      BY <1>1, <1>t DEF PatchArrives, Updates
    <2>1. sent.cloud \in Ident /\ sent.word \in Word
      BY <2>0 DEF Row
    <2>2. sync' \in [Window -> Run]
      <3>1. sync' = [sync EXCEPT
                ![x].flight = [op |-> "patch", id |-> i, n |-> sent.cloud, found |-> Live(sent.cloud)],
                ![x].todo = [sync[x].todo EXCEPT ![i] = NoRow]]
        BY <1>1 DEF PatchArrives
      <3>2. [op |-> "patch", id |-> i, n |-> sent.cloud, found |-> Live(sent.cloud)] \in Flight
        BY <2>1 DEF Flight, Live
      <3>3. [sync[x].todo EXCEPT ![i] = NoRow] \in [Id -> Row]
        BY <1>t, BlankTyped
      <3>4. QED BY <3>1, <3>2, <3>3, RunChanged
    <2>3. cloud' \in [Ident -> Entry] /\ clock' \in Nat
      <3>1. Stored(sent.word) \in Entry
        BY <2>1 DEF Stored, Entry
      <3>2. \/ cloud' = [cloud EXCEPT ![sent.cloud] = Stored(sent.word)] /\ clock' = clock + 1
            \/ UNCHANGED <<cloud, clock>>
        BY <1>1 DEF PatchArrives
      <3> HIDE DEF sent
      <3>3. QED BY <2>1, <3>1, <3>2
    <2>4. QED BY <1>1, <2>2, <2>3 DEF PatchArrives, used, history
  <1>2. ASSUME NEW i \in Id, CreateAnswered(x, i) PROVE TypeOK'
    <2>1. sync[x].todo[i].cid \in Ident
      BY <1>t DEF Row
    <2> DEFINE n == sync[x].todo[i].cid
    <2>2. rows' \in [Id -> Row]
      <3>1. UNCHANGED rows \/ MarkSynced(i, n)
        BY <1>2 DEF CreateAnswered
      <3>2. QED BY <2>1, <3>1, SettledTyped
    <2>3. sync' \in [Window -> Run]
      <3>1. \/ sync' = [sync EXCEPT ![x].made = sync[x].made \ {i}]
            \/ sync' = [sync EXCEPT ![x].made = sync[x].made \ {i},
                         ![x].flight = [op |-> "cleanup", id |-> i, n |-> n, found |-> TRUE]]
        BY <1>2 DEF CreateAnswered
      <3>2. [op |-> "cleanup", id |-> i, n |-> n, found |-> TRUE] \in Flight
        BY <2>1 DEF Flight
      <3>3. sync[x].made \ {i} \in SUBSET Id
        BY RunParts
      <3> DEFINE answer == [op |-> "cleanup", id |-> i, n |-> n, found |-> TRUE]
                 made == sync[x].made \ {i}
      <3> HIDE DEF n, answer, made
      <3>4. answer \in Flight /\ made \in SUBSET Id
        BY <3>2, <3>3 DEF answer, made
      <3>5. \/ sync' = [sync EXCEPT ![x].made = made]
            \/ sync' = [sync EXCEPT ![x].made = made, ![x].flight = answer]
        BY <3>1 DEF answer, made
      <3>6. CASE sync' = [sync EXCEPT ![x].made = made]
        BY <3>4, <3>6, RunChanged
      <3>7. CASE sync' = [sync EXCEPT ![x].made = made, ![x].flight = answer]
        BY <3>4, <3>7, RunChanged
      <3>8. QED BY <3>5, <3>6, <3>7
    <2>4. QED BY <1>2, <2>2, <2>3 DEF CreateAnswered, used, history
  <1>3. ASSUME PatchAnswered(x) PROVE TypeOK'
    <2> DEFINE i == sync[x].flight.id
               n == sync[x].flight.n
    <2>1. sync' \in [Window -> Run]
      <3>1. sync' = [sync EXCEPT ![x].flight = NoFlight]
        BY <1>3 DEF PatchAnswered
      <3>2. QED BY <3>1, BlankTyped, RunChanged
    <2>2. i \in Id \cup {0} /\ n \in Ident \cup {NoIdent}
      BY <1>f DEF Flight
    <2>3. rows' \in [Id -> Row]
      <3>1. UNCHANGED rows \/ MarkSynced(i, n) \/ ClearCloudId(i)
        BY <1>3 DEF PatchAnswered
      <3> HIDE DEF i, n
      <3>2. QED BY <2>2, <3>1, SettledTyped
    <2>4. QED BY <1>3, <2>1, <2>3 DEF PatchAnswered, used, history
  <1>4. ASSUME CreatesArrive(x) PROVE TypeOK'
    <2> DEFINE todo == sync[x].todo
               done == {i \in Creates(x) : ~WordTaken(todo[i].word, todo[i].cid)}
               Source(n) == CHOOSE i \in done : todo[i].cid = n
               new == {todo[i].cid : i \in done}
    <2>1. todo \in [Id -> Row] /\ done \subseteq Id
      BY <1>t DEF Creates
    <2>2. new \subseteq Ident
      BY <2>1 DEF Row
    <2>3. \A n \in new : Stored(todo[Source(n)].word) \in Entry
      <3> SUFFICES ASSUME NEW n \in new PROVE Stored(todo[Source(n)].word) \in Entry
        OBVIOUS
      <3>1. PICK i \in done : todo[i].cid = n
        OBVIOUS
      <3>2. Source(n) \in done
        BY <3>1
      <3>3. todo[Source(n)].word \in Word
        BY <2>1, <3>2 DEF Row
      <3>4. QED BY <3>3 DEF Stored, Entry
    <2>4. cloud' \in [Ident -> Entry]
      <3>1. cloud' = [n \in Ident |-> IF n \in new THEN Stored(todo[Source(n)].word) ELSE cloud[n]]
        BY <1>4 DEF CreatesArrive
      <3> HIDE DEF new, Source
      <3>2. QED BY <2>3, <3>1
    <2>5. sync' \in [Window -> Run]
      <3>1. sync' = [sync EXCEPT ![x].made = done, ![x].phase = "acks"]
        BY <1>4 DEF CreatesArrive
      <3> HIDE DEF done
      <3>2. "acks" \in Phases
        BY DEF Phases
      <3>3. QED BY <2>1, <3>1, <3>2, RunChanged
    <2>6. mine' \subseteq Ident /\ clock' \in Nat
      <3>1. mine' = mine \cup new /\ (clock' = clock \/ clock' = clock + 1)
        BY <1>4 DEF CreatesArrive
      <3> HIDE DEF new
      <3>2. QED BY <2>2, <3>1
    <2>7. UNCHANGED <<rows, cursor, used, acts, faults, crossed>>
      BY <1>4 DEF CreatesArrive
    <2> HIDE DEF todo, done, Source, new
    <2>8. QED BY <2>4, <2>5, <2>6, <2>7 DEF used
  <1>5. ASSUME Cleanup(x) PROVE TypeOK'
    <2>1. sync' \in [Window -> Run]
      <3>1. sync' = [sync EXCEPT ![x].flight = NoFlight]
        BY <1>5 DEF Cleanup
      <3>2. QED BY <3>1, BlankTyped, RunChanged
    <2>2. cloud' \in [Ident -> Entry]
      BY <1>5 DEF Cleanup, Dead, Entry
    <2>3. QED BY <1>5, <2>1, <2>2 DEF Cleanup, used, history
  <1>6. QED BY <1>1, <1>2, <1>3, <1>4, <1>5

LEMMA DeletesTyped ==
  ASSUME TypeOK, NEW x \in Window,
         \/ Start(x)
         \/ ListDeletes(x)
         \/ \E i \in Id : DeleteArrives(x, i)
         \/ DeleteAnswered(x)
  PROVE  TypeOK'
  <1> USE DEF TypeOK
  <1>0. TypeOK /\ Phases = {"idle", "push", "acks", "deletes", "pull"}
    BY DEF Phases
  <1>1. ASSUME Start(x) PROVE TypeOK'
    <2>1. sync' \in [Window -> Run]
      <3>1. sync' = [sync EXCEPT ![x].phase = "push", ![x].todo = Listed(PendingWord)]
        BY <1>1 DEF Start
      <3>2. QED BY <1>0, <3>1, ListedTyped, RunChanged
    <2>2. crossed' \in 0..MaxEvents
      BY <1>1, BoundAssumption DEF Start, Event
    <2>3. QED BY <1>1, <2>1, <2>2 DEF Start, used
  <1>2. ASSUME ListDeletes(x) PROVE TypeOK'
    <2>1. sync' \in [Window -> Run]
      <3>1. sync' = [sync EXCEPT ![x].phase = "deletes", ![x].todo = Listed(PendingDelete)]
        BY <1>2 DEF ListDeletes
      <3>2. QED BY <1>0, <3>1, ListedTyped, RunChanged
    <2>2. QED BY <1>2, <2>1 DEF ListDeletes, used, history
  <1>3. ASSUME NEW i \in Id, DeleteArrives(x, i) PROVE TypeOK'
    <2> DEFINE n == sync[x].todo[i].cloud
    <2>0. sync[x].todo \in [Id -> Row]
      BY RunParts
    <2>1. n \in Ident \cup {NoIdent}
      BY <2>0 DEF Row
    <2>2. sync' \in [Window -> Run]
      <3>1. sync' = [sync EXCEPT
                ![x].flight = [op |-> "delete", id |-> i, n |-> n, found |-> Live(n)],
                ![x].todo = [sync[x].todo EXCEPT ![i] = NoRow]]
        BY <1>3 DEF DeleteArrives
      <3>2. [op |-> "delete", id |-> i, n |-> n, found |-> Live(n)] \in Flight
        BY <2>1 DEF Flight, Live
      <3>3. [sync[x].todo EXCEPT ![i] = NoRow] \in [Id -> Row]
        BY <2>0, BlankTyped
      <3>4. QED BY <3>1, <3>2, <3>3, RunChanged
    <2>3. cloud' \in [Ident -> Entry] /\ clock' \in Nat
      <3>1. /\ cloud' = [cloud EXCEPT ![n] = IF Live(n) THEN Dead(n) ELSE @]
            /\ clock' = IF Live(n) THEN clock + 1 ELSE clock
        BY <1>3 DEF DeleteArrives
      <3> HIDE DEF n
      <3>2. \A m \in Ident : Dead(m) \in Entry
        BY DEF Dead, Entry
      <3>3. cloud' \in [Ident -> Entry]
        BY <3>1, <3>2
      <3>4. QED BY <3>1, <3>3
    <2>4. QED BY <1>3, <2>2, <2>3 DEF DeleteArrives, used, history
  <1>4. ASSUME DeleteAnswered(x) PROVE TypeOK'
    <2>1. sync' \in [Window -> Run]
      <3>1. sync' = [sync EXCEPT ![x].flight = NoFlight]
        BY <1>4 DEF DeleteAnswered
      <3>2. QED BY <3>1, BlankTyped, RunChanged
    <2>2. rows' \in [Id -> Row]
      BY <1>4, BlankTyped DEF DeleteAnswered, HardDelete
    <2>3. QED BY <1>4, <2>1, <2>2 DEF DeleteAnswered, used, history
  <1>5. QED BY <1>1, <1>2, <1>3, <1>4

\* A merge adds at most one row, under a new id.
LEMMA UpsertTyped ==
  ASSUME TypeOK, NEW n \in Ident, NEW copy \in Entry, Upsert(n, copy)
  PROVE  rows' \in [Id -> Row] /\ usedIds' \subseteq Id
  <1> USE DEF TypeOK
  <1>1. Merged(n, copy) \in Row
    BY MergedTyped
  <1>2. CASE \E i \in SameEntry(n, copy.word) :
                /\ rows' = [rows EXCEPT ![i] = Merged(n, copy)]
                /\ UNCHANGED usedIds
    BY <1>1, <1>2 DEF SameEntry
  <1>3. CASE /\ usedIds # Id
             /\ rows' = [rows EXCEPT ![NextId] = Merged(n, copy)]
             /\ usedIds' = usedIds \cup {NextId}
    BY <1>1, <1>3, NextIdIsNew
  <1>4. QED BY <1>2, <1>3 DEF Upsert

LEMMA PullTyped ==
  ASSUME TypeOK, NEW x \in Window,
         \/ ListPage(x)
         \/ \E n \in Ident : PullReads(x, n)
         \/ PullMerges(x)
         \/ PullThrows(x)
         \/ PullEnds(x)
  PROVE  TypeOK'
  <1> USE DEF TypeOK
  <1>0. TypeOK /\ Phases = {"idle", "push", "acks", "deletes", "pull"}
    BY DEF Phases
  <1>1. ASSUME ListPage(x) PROVE TypeOK'
    <2> DEFINE page == [n \in Ident |-> IF cloud[n].life \in {"live", "dead"} /\ cloud[n].ts > cursor
                                          THEN cloud[n] ELSE NoEntry]
    <2>1. page \in [Ident -> Entry]
      BY BlankTyped
    <2>2. sync' = [sync EXCEPT ![x].phase = "pull", ![x].page = page, ![x].top = cursor]
      BY <1>1 DEF ListPage
    <2>3. sync' \in [Window -> Run]
      <3> HIDE DEF page
      <3>1. "pull" \in Phases /\ cursor \in Nat
        BY <1>0
      <3>2. QED BY <2>1, <2>2, <3>1, RunChanged
    <2>4. QED BY <1>1, <2>3 DEF ListPage, used, history
  <1>2. ASSUME NEW n \in Ident, PullReads(x, n) PROVE TypeOK'
    <2>1. PICK i \in Id \cup {0}, ts \in Nat :
              sync' = [sync EXCEPT ![x].read = [n |-> n, id |-> i, ts |-> ts]]
      BY <1>2 DEF PullReads, Row
    <2> DEFINE new == [n |-> n, id |-> i, ts |-> ts]
    <2>a. new \in Read
      BY DEF Read
    <2>2. sync' \in [Window -> Run]
      <3> HIDE DEF new
      <3>1. sync' = [sync EXCEPT ![x].read = new]
        BY <2>1 DEF new
      <3>2. QED BY <2>a, <3>1, RunChanged
    <2>3. QED BY <1>2, <2>2 DEF PullReads, used, history
  <1>3. ASSUME PullMerges(x) PROVE TypeOK'
    <2> DEFINE n == sync[x].read.n
               i == sync[x].read.id
               copy == sync[x].page[n]
    <2>1. i \in Id \cup {0} /\ n \in Ident
      BY <1>3, RunParts DEF PullMerges, Read
    <2>a. copy \in Entry
      BY <2>1, RunParts
    <2>2. rows' \in [Id -> Row] /\ usedIds' \subseteq Id
      <3>1. CASE copy.life = "dead" /\ (IF i # 0 THEN HardDelete(i) ELSE UNCHANGED rows)
                 /\ UNCHANGED usedIds
        BY <2>1, <3>1, BlankTyped DEF HardDelete
      <3>2. CASE copy.life = "live" /\ Upsert(n, copy)
        <4> HIDE DEF copy, n
        <4>1. QED BY <2>1, <2>a, <3>2, UpsertTyped
      <3>3. CASE UNCHANGED <<rows, usedIds>>
        BY <3>3
      <3>4. QED BY <1>3, <3>1, <3>2, <3>3 DEF PullMerges
    <2>3. sync' \in [Window -> Run]
      <3>1. sync' = [sync EXCEPT
                ![x].page = [sync[x].page EXCEPT ![n] = NoEntry],
                ![x].read = NotRead,
                ![x].top = IF copy.life = "live" /\ copy.ts > sync[x].top THEN copy.ts ELSE sync[x].top]
        BY <1>3 DEF PullMerges
      <3>2. [sync[x].page EXCEPT ![n] = NoEntry] \in [Ident -> Entry]
        BY RunParts, BlankTyped
      <3>3. (IF copy.life = "live" /\ copy.ts > sync[x].top THEN copy.ts ELSE sync[x].top) \in Nat
        BY <2>a, RunParts DEF Entry
      <3>4. PICK page \in [Ident -> Entry], read \in Read, top \in Nat :
                sync' = [sync EXCEPT ![x].page = page, ![x].read = read, ![x].top = top]
        BY <3>1, <3>2, <3>3, BlankTyped
      <3> HIDE DEF TypeOK
      <3>5. QED BY <3>4, RunChanged
    <2>4. QED BY <1>3, <2>2, <2>3 DEF PullMerges, history
  <1>4. ASSUME PullThrows(x) PROVE TypeOK'
    BY <1>4, IdleTyped DEF PullThrows, used, history
  <1>5. ASSUME PullEnds(x) PROVE TypeOK'
    <2>1. sync[x].top \in Nat
      BY RunParts
    <2>2. QED BY <1>5, <2>1, IdleTyped DEF PullEnds, used, history
  <1>6. QED BY <1>1, <1>2, <1>3, <1>4, <1>5

LEMMA BrokenTyped ==
  ASSUME TypeOK, NEW x \in Window, Broken(x)
  PROVE  TypeOK'
  <1> USE DEF TypeOK
  <1>0. Fault => faults' \in 0..MaxEvents
    BY BoundAssumption DEF Fault, Event
  <1>1. ASSUME NEW i \in Id, RequestLost(x, i) PROVE TypeOK'
    <2>1. sync' \in [Window -> Run]
      <3>1. sync' = [sync EXCEPT ![x].todo = [sync[x].todo EXCEPT ![i] = NoRow]]
        BY <1>1 DEF RequestLost
      <3>2. [sync[x].todo EXCEPT ![i] = NoRow] \in [Id -> Row]
        BY RunParts, BlankTyped
      <3>3. QED BY <3>1, <3>2, RunChanged
    <2>2. QED BY <1>0, <1>1, <2>1 DEF RequestLost, used, history
  <1>2. ASSUME BatchLost(x) PROVE TypeOK'
    <2>1. sync' \in [Window -> Run]
      <3>1. sync' = [sync EXCEPT ![x].phase = "push", ![x].todo = Empty, ![x].made = {}]
        BY <1>2 DEF BatchLost
      <3>2. "push" \in Phases /\ Empty \in [Id -> Row] /\ {} \in SUBSET Id
        BY IdleTyped DEF Phases
      <3>3. QED BY <3>1, <3>2, RunChanged
    <2>2. QED BY <1>0, <1>2, <2>1 DEF BatchLost, used, history
  <1>3. ASSUME AnswerLost(x) PROVE TypeOK'
    <2>1. sync' \in [Window -> Run]
      <3>1. sync' = [sync EXCEPT ![x].flight = NoFlight]
        BY <1>3 DEF AnswerLost
      <3>2. QED BY <3>1, BlankTyped, RunChanged
    <2>2. QED BY <1>0, <1>3, <2>1 DEF AnswerLost, used, history
  <1>4. ASSUME Reload(x) PROVE TypeOK'
    BY <1>0, <1>4, IdleTyped DEF Reload, used, history
  <1>5. QED BY <1>1, <1>2, <1>3, <1>4 DEF Broken

LEMMA StepTyped == TypeOK /\ [Next]_vars => TypeOK'
  <1> SUFFICES ASSUME TypeOK, [Next]_vars PROVE TypeOK'
    OBVIOUS
  <1>1. ASSUME NEW x \in Window, Sync(x) PROVE TypeOK'
    BY <1>1, PushTyped, DeletesTyped, PullTyped DEF Sync
  <1>2. ASSUME UNCHANGED vars PROVE TypeOK'
    BY <1>2 DEF TypeOK, vars
  <1>3. QED BY <1>1, <1>2, UserTyped, PeerTyped, BrokenTyped DEF Next

\* Rows, entries, pages and requests hold what their types say.
THEOREM DictionaryTypes == Spec => []TypeOK
  BY InitTyped, StepTyped, PTL DEF Spec

-----------------------------------------------------------------------------
(* Tombstones. *)

\* A tombstone waits to be pushed: no statement settles one.
Waits(r) == Exists(r) /\ r.deleted => r.status = "pending"
TombstonesWait == \A i \in Id : Waits(rows[i])

\* The steps that leave the table alone.
LEMMA TableStays ==
  ASSUME NEW x,
         \/ Peer
         \/ Start(x) \/ CreatesArrive(x) \/ Cleanup(x) \/ ListDeletes(x)
         \/ \E i \in Id : PatchArrives(x, i) \/ DeleteArrives(x, i)
         \/ ListPage(x) \/ PullThrows(x) \/ PullEnds(x)
         \/ \E n \in Ident : PullReads(x, n)
         \/ Broken(x)
         \/ UNCHANGED vars
  PROVE  UNCHANGED <<rows, usedIds>>
  BY DEF Peer, PeerAdds, PeerEdits, PeerRemoves, Start, CreatesArrive, Cleanup, ListDeletes,
         PatchArrives, DeleteArrives, ListPage, PullThrows, PullEnds, PullReads, Broken, RequestLost,
         BatchLost, AnswerLost, Reload, used, vars

\* What an acknowledgement, a cleared id and a merge do to a table.
LEMMA TableAfter ==
  ASSUME TypeOK, NEW i \in Id \cup {0}, NEW n, NEW j \in Id
  PROVE  /\ MarkSynced(i, n) =>
               rows'[j] = IF j = i THEN [rows[j] EXCEPT !.status = "synced", !.cloud = n] ELSE rows[j]
         /\ ClearCloudId(i) =>
               rows'[j] = IF j = i THEN [rows[j] EXCEPT !.status = "pending", !.cloud = NoIdent]
                                   ELSE rows[j]
         /\ HardDelete(i) => rows'[j] = IF j = i THEN NoRow ELSE rows[j]
  BY DEF TypeOK, MarkSynced, ClearCloudId, HardDelete

LEMMA UpsertAfter ==
  ASSUME TypeOK, NEW n \in Ident, NEW copy, Upsert(n, copy)
  PROVE  \E i \in Id :
            /\ \A j \in Id : rows'[j] = IF j = i THEN Merged(n, copy) ELSE rows[j]
            /\ \/ i \in SameEntry(n, copy.word) /\ usedIds' = usedIds
               \/ /\ SameEntry(n, copy.word) = {} /\ i \notin usedIds
                  /\ usedIds' = usedIds \cup {i}
  <1>1. CASE \E i \in SameEntry(n, copy.word) :
                /\ rows' = [rows EXCEPT ![i] = Merged(n, copy)]
                /\ UNCHANGED usedIds
    <2>1. PICK i \in SameEntry(n, copy.word) :
                /\ rows' = [rows EXCEPT ![i] = Merged(n, copy)]
                /\ UNCHANGED usedIds
      BY <1>1
    <2>2. i \in Id
      BY <2>1 DEF SameEntry
    <2>3. QED BY <2>1, <2>2 DEF TypeOK
  <1>2. CASE /\ SameEntry(n, copy.word) = {}
             /\ usedIds # Id
             /\ rows' = [rows EXCEPT ![NextId] = Merged(n, copy)]
             /\ usedIds' = usedIds \cup {NextId}
    <2>1. NextId \in Id /\ NextId \notin usedIds
      BY <1>2, NextIdIsNew DEF TypeOK
    <2>2. QED BY <1>2, <2>1 DEF TypeOK
  <1>3. QED BY <1>1, <1>2 DEF Upsert

\* An acknowledgement or a cleared id leaves no settled tombstone.
LEMMA AnswersKeepWaiting ==
  ASSUME TypeOK, NEW i \in Id \cup {0}, NEW n, NEW j \in Id, Waits(rows[j]),
         (Markable(rows[i]) /\ MarkSynced(i, n)) \/ ClearCloudId(i)
  PROVE  Waits(rows'[j])
  <1>1. rows[j] \in Row
    BY DEF TypeOK
  <1>2. CASE Markable(rows[i]) /\ MarkSynced(i, n)
    <2>1. rows'[j] = IF j = i THEN [rows[j] EXCEPT !.status = "synced", !.cloud = n] ELSE rows[j]
      BY <1>2, TableAfter
    <2>2. CASE j = i
      <3>1. ~rows'[j].deleted
        BY <1>1, <1>2, <2>1, <2>2 DEF Markable, Row
      <3>2. QED BY <3>1 DEF Waits
    <2>3. QED BY <2>1, <2>2
  <1>3. CASE ClearCloudId(i)
    <2>1. rows'[j] = IF j = i THEN [rows[j] EXCEPT !.status = "pending", !.cloud = NoIdent]
                              ELSE rows[j]
      BY <1>3, TableAfter
    <2>2. CASE j = i
      <3>1. rows'[j].status = "pending"
        BY <1>1, <2>1, <2>2 DEF Row
      <3>2. QED BY <3>1 DEF Waits
    <2>3. QED BY <2>1, <2>2
  <1>4. QED BY <1>2, <1>3

\* The entry a pull merges.
LEMMA MergeListed ==
  ASSUME TypeOK, NEW x \in Window, PullMerges(x) \/ PullThrows(x)
  PROVE  /\ sync[x].read.n \in Ident
         /\ sync[x].read.id \in Id \cup {0}
         /\ sync[x].page[sync[x].read.n] \in Entry
  <1>1. sync[x].read \in [n : Ident, id : Id \cup {0}, ts : Nat]
    BY RunParts DEF PullMerges, PullThrows, Read
  <1>2. QED BY <1>1, RunParts

LEMMA TombstonesStep == TypeOK /\ TombstonesWait /\ [Next]_vars => TombstonesWait'
  <1> SUFFICES ASSUME TypeOK, TombstonesWait, [Next]_vars, NEW j \in Id PROVE Waits(rows'[j])
    BY DEF TombstonesWait, Waits, Exists
  <1>0. Waits(rows[j]) /\ Waits(NoRow) /\ rows[j] \in Row
    BY BlankTyped DEF TombstonesWait, Waits, TypeOK
  <1>1. ASSUME NEW w \in Word, AddNew(w) PROVE Waits(rows'[j])
    <2>1. NextId \in Id
      BY <1>1, NextIdIsNew DEF AddNew, TypeOK
    <2>2. rows'[j] = rows[j] \/ ~rows'[j].deleted
      BY <1>1, <2>1 DEF AddNew, TypeOK
    <2>3. QED BY <1>0, <2>2 DEF Waits
  <1>2. ASSUME NEW w \in Word, AddAgain(w) PROVE Waits(rows'[j])
    <2>1. rows'[j] = rows[j] \/ rows'[j].status = "pending"
      BY <1>2, <1>0 DEF AddAgain, TypeOK, Row, Last, OfKey
    <2>2. QED BY <1>0, <2>1 DEF Waits
  <1>3. ASSUME NEW k, Remove(k) PROVE Waits(rows'[j])
    <2>1. rows'[j] = rows[j] \/ rows'[j] = Removed(rows[j])
      BY <1>3 DEF Remove
    <2>2. Waits(Removed(rows[j]))
      BY <1>0 DEF Waits, Removed, Row
    <2>3. QED BY <1>0, <2>1, <2>2
  <1>4. ASSUME NEW x \in Window, PatchAnswered(x) PROVE Waits(rows'[j])
    <2> DEFINE i == sync[x].flight.id
    <2>1. i \in Id \cup {0}
      BY RunParts DEF Flight
    <2>2. \/ rows' = rows
          \/ Markable(rows[i]) /\ MarkSynced(i, sync[x].flight.n)
          \/ ClearCloudId(i)
      BY <1>4 DEF PatchAnswered
    <2> HIDE DEF i
    <2>3. QED BY <1>0, <2>1, <2>2, AnswersKeepWaiting
  <1>5. ASSUME NEW x \in Window, NEW i \in Id, CreateAnswered(x, i) PROVE Waits(rows'[j])
    <2>1. \/ rows' = rows
          \/ Markable(rows[i]) /\ MarkSynced(i, sync[x].todo[i].cid)
      BY <1>5 DEF CreateAnswered
    <2>2. QED BY <1>0, <2>1, AnswersKeepWaiting
  <1>6. ASSUME NEW x \in Window, DeleteAnswered(x) PROVE Waits(rows'[j])
    <2>1. sync[x].flight.id \in Id \cup {0}
      BY RunParts DEF Flight
    <2>2. QED BY <1>0, <1>6, <2>1, TableAfter DEF DeleteAnswered
  <1>7. ASSUME NEW x \in Window, PullMerges(x) PROVE Waits(rows'[j])
    <2> DEFINE n == sync[x].read.n
               i == sync[x].read.id
               copy == sync[x].page[n]
    <2>1. n \in Ident /\ i \in Id \cup {0} /\ copy \in Entry
      BY <1>7, MergeListed
    <2>2. rows' = rows \/ HardDelete(i) \/ Upsert(n, copy)
      BY <1>7 DEF PullMerges
    <2> HIDE DEF n, i, copy
    <2>3. CASE Upsert(n, copy)
      <3>1. ~Merged(n, copy).deleted
        BY DEF Merged
      <3>2. rows'[j] = rows[j] \/ rows'[j] = Merged(n, copy)
        BY <2>1, <2>3, UpsertAfter
      <3>3. QED BY <1>0, <3>1, <3>2 DEF Waits
    <2>4. CASE HardDelete(i)
      BY <1>0, <2>1, <2>4, TableAfter
    <2>5. QED BY <1>0, <2>2, <2>3, <2>4
  <1>8. CASE UNCHANGED rows
    BY <1>0, <1>8
  <1>9. QED BY <1>1, <1>2, <1>3, <1>4, <1>5, <1>6, <1>7, <1>8, TableStays DEF Next, User, Sync

\* A removed word whose entry still lives in the cloud stays queued for the delete
\* push, however the syncs of any number of windows overlap: no late answer
\* settles the tombstone (markDictionaryEntrySynced).
THEOREM TombstonesStayQueued == Spec => []TombstonesQueued
  <1>1. Init => TombstonesWait
    BY BlankTyped DEF Init, Empty, TombstonesWait, Waits
  <1>2. TombstonesWait => TombstonesQueued
    BY DEF TombstonesWait, Waits, TombstonesQueued, PendingDelete
  <1>3. QED BY <1>1, <1>2, DictionaryTypes, TombstonesStep, PTL DEF Spec
-----------------------------------------------------------------------------
(* Words.  Every identity and every row id stands for one key for good: the   *)
(* rows, the copies listed for a push, the entries of the cloud and of every  *)
(* page agree on it.  A row with the identity or the spelling of an entry     *)
(* therefore has its key, and no merge makes a second row for a word.         *)

Keys == {Key[w] : w \in Word}

\* The row r, under the id i, agrees with the keys of its id and identities.
Fits(kind, kid, i, r) ==
    /\ i \in usedIds
    /\ Key[r.word] = kid[i]
    /\ r.cid \in usedIdents /\ kind[r.cid] = kid[i]
    /\ r.cloud # NoIdent => r.cloud \in usedIdents /\ kind[r.cloud] = kid[i]

RowsFit(kind, kid) == \A i \in Id : Exists(rows[i]) => Fits(kind, kid, i, rows[i])

CloudFits(kind) ==
    \A n \in Ident : cloud[n].life # "none" => n \in usedIdents /\ Key[cloud[n].word] = kind[n]

\* A sync: its listed rows and entries, and the row its answer is for.
RunFits(kind, kid, s) ==
    /\ \A i \in Id : Exists(s.todo[i]) => Fits(kind, kid, i, s.todo[i])
    /\ \A n \in Ident : s.page[n].life # "none" =>
          n \in usedIdents /\ Key[s.page[n].word] = kind[n]
    /\ s.flight.op = "patch" =>
          /\ s.flight.id \in usedIds
          /\ s.flight.n \in usedIdents
          /\ kind[s.flight.n] = kid[s.flight.id]
    /\ s.phase # "acks" => s.made = {}
    /\ \A i \in s.made : Exists(s.todo[i])

Agree(kind, kid) ==
    /\ RowsFit(kind, kid)
    /\ CloudFits(kind)
    /\ \A x \in Window : RunFits(kind, kid, sync[x])

KeysAgree == \E kind \in [Ident -> Keys], kid \in [Id -> Keys] : Agree(kind, kid)

WordInv == TypeOK /\ KeysAgree /\ OneRowPerWord

\* What has no key yet can be given any.
LEMMA KeysExtend ==
  ASSUME TypeOK,
         NEW kind \in [Ident -> Keys], NEW kid \in [Id -> Keys], Agree(kind, kid),
         NEW kind2 \in [Ident -> Keys], \A n \in usedIdents : kind2[n] = kind[n],
         NEW kid2 \in [Id -> Keys], \A i \in usedIds : kid2[i] = kid[i]
  PROVE  Agree(kind2, kid2)
  <1>1. \A i \in Id : \A r \in Row : Fits(kind, kid, i, r) => Fits(kind2, kid2, i, r)
    BY DEF Fits
  <1>2. RowsFit(kind2, kid2)
    BY <1>1 DEF RowsFit, Agree, TypeOK
  <1>3. CloudFits(kind2)
    BY DEF CloudFits, Agree
  <1>4. ASSUME NEW x \in Window PROVE RunFits(kind2, kid2, sync[x])
    <2>1. RunFits(kind, kid, sync[x])
      BY DEF Agree
    <2>2. \A i \in Id : Exists(sync[x].todo[i]) => Fits(kind2, kid2, i, sync[x].todo[i])
      BY <1>1, <2>1, RunParts DEF RunFits
    <2>3. QED BY <2>1, <2>2 DEF RunFits
  <1>5. QED BY <1>2, <1>3, <1>4 DEF Agree

\* A step that keeps ids in use, and whose table, cloud and syncs fit, agrees.
LEMMA AgreeStep ==
  ASSUME NEW kind, NEW kid, Agree(kind, kid),
         usedIds \subseteq usedIds', usedIdents \subseteq usedIdents',
         RowsFit(kind, kid)', CloudFits(kind)',
         \A x \in Window : sync'[x] = sync[x] \/ RunFits(kind, kid, sync[x])'
  PROVE  Agree(kind, kid)'
  <1>1. ASSUME NEW x \in Window, sync'[x] = sync[x] PROVE RunFits(kind, kid, sync[x])'
    <2>1. RunFits(kind, kid, sync[x])
      BY DEF Agree
    <2>2. QED BY <1>1, <2>1 DEF RunFits, Fits, Exists
  <1>2. QED BY <1>1 DEF Agree

LEMMA RowsStayFit ==
  ASSUME NEW kind, NEW kid, RowsFit(kind, kid),
         usedIds \subseteq usedIds', usedIdents \subseteq usedIdents', UNCHANGED rows
  PROVE  RowsFit(kind, kid)'
  BY DEF RowsFit, Fits, Exists

LEMMA CloudStaysFit ==
  ASSUME NEW kind, CloudFits(kind), usedIdents \subseteq usedIdents', UNCHANGED cloud
  PROVE  CloudFits(kind)'
  BY DEF CloudFits

\* What the parts of a sync must satisfy after a step of it.
LEMMA RunRefits ==
  ASSUME NEW kind, NEW kid, NEW x \in Window, RunFits(kind, kid, sync[x]),
         UNCHANGED used,
         \A i \in Id : Exists(sync'[x].todo[i]) =>
             \/ sync'[x].todo[i] = sync[x].todo[i]
             \/ Fits(kind, kid, i, sync'[x].todo[i]),
         \A n \in Ident : sync'[x].page[n].life # "none" =>
             \/ sync'[x].page[n] = sync[x].page[n]
             \/ n \in usedIdents /\ Key[sync'[x].page[n].word] = kind[n],
         \/ sync'[x].flight = sync[x].flight
         \/ sync'[x].flight.op # "patch"
         \/ /\ sync'[x].flight.id \in usedIds
            /\ sync'[x].flight.n \in usedIdents
            /\ kind[sync'[x].flight.n] = kid[sync'[x].flight.id],
         sync'[x].phase # "acks" => sync'[x].made = {},
         \A i \in sync'[x].made : Exists(sync'[x].todo[i])
  PROVE  RunFits(kind, kid, sync[x])'
  <1>1. \A i \in Id : Exists(sync'[x].todo[i]) => Fits(kind, kid, i, sync'[x].todo[i])
    BY DEF RunFits
  <1>2. UNCHANGED <<usedIds, usedIdents>>
    BY DEF used
  <1>3. \A i \in Id : Exists(sync'[x].todo[i]) => Fits(kind, kid, i, sync[x].todo[i])'
    BY <1>1, <1>2 DEF Fits
  <1>4. \A n \in Ident : sync'[x].page[n].life # "none" =>
             n \in usedIdents' /\ Key[sync'[x].page[n].word] = kind[n]
    BY <1>2 DEF RunFits
  <1>5. sync'[x].flight.op = "patch" =>
          /\ sync'[x].flight.id \in usedIds'
          /\ sync'[x].flight.n \in usedIdents'
          /\ kind[sync'[x].flight.n] = kid[sync'[x].flight.id]
    BY <1>2 DEF RunFits
  <1>6. QED BY <1>3, <1>4, <1>5 DEF RunFits, Exists

-----------------------------------------------------------------------------
(* Users and other devices. *)

LEMMA UserAgrees ==
  ASSUME TypeOK, KeysAgree, User
  PROVE  KeysAgree'
  <1>1. PICK kind \in [Ident -> Keys], kid \in [Id -> Keys] : Agree(kind, kid)
    BY DEF KeysAgree
  <1>2. ASSUME NEW w \in Word, AddNew(w) PROVE KeysAgree'
    <2>0. NextId \in Id \ usedIds
      BY <1>2, NextIdIsNew DEF AddNew, TypeOK
    <2>1. PICK new \in Id \ usedIds : new = NextId
      BY <2>0
    <2>2. PICK n \in Ident \ usedIdents :
              /\ rows' = [rows EXCEPT ![new] =
                     [status |-> "pending", word |-> w, cid |-> n, cloud |-> NoIdent,
                      deleted |-> FALSE, ts |-> clock]]
              /\ usedIds' = usedIds \cup {new}
              /\ usedIdents' = usedIdents \cup {n}
      BY <1>2, <2>1 DEF AddNew
    <2> DEFINE kind2 == [kind EXCEPT ![n] = Key[w]]
               kid2 == [kid EXCEPT ![new] = Key[w]]
    <2>3. kind2 \in [Ident -> Keys] /\ kind2[n] = Key[w] /\ \A m \in usedIdents : kind2[m] = kind[m]
      BY <2>2 DEF Keys, TypeOK
    <2>4. kid2 \in [Id -> Keys] /\ kid2[new] = Key[w] /\ \A i \in usedIds : kid2[i] = kid[i]
      BY <2>1 DEF Keys, TypeOK
    <2> HIDE DEF kind2, kid2
    <2>5. Agree(kind2, kid2)
      BY <1>1, <2>3, <2>4, KeysExtend
    <2>6. RowsFit(kind2, kid2)'
      <3> SUFFICES ASSUME NEW i \in Id, Exists(rows'[i]) PROVE Fits(kind2, kid2, i, rows[i])'
        BY DEF RowsFit, Exists
      <3>1. CASE i = new
        <4>1. rows'[i] = [status |-> "pending", word |-> w, cid |-> n, cloud |-> NoIdent,
                          deleted |-> FALSE, ts |-> clock]
          BY <2>1, <2>2, <3>1 DEF TypeOK
        <4>2. QED BY <2>2, <2>3, <2>4, <3>1, <4>1 DEF Fits
      <3>2. CASE i # new
        <4>1. rows'[i] = rows[i]
          BY <2>1, <2>2, <3>2 DEF TypeOK
        <4>2. QED BY <2>2, <2>5, <4>1 DEF Agree, RowsFit, Fits, Exists
      <3>3. QED BY <3>1, <3>2
    <2>7. UNCHANGED <<cloud, sync>>
      BY <1>2 DEF AddNew
    <2>8. CloudFits(kind2)'
      BY <2>2, <2>5, <2>7, CloudStaysFit DEF Agree
    <2>9. Agree(kind2, kid2)'
      BY <2>2, <2>5, <2>6, <2>7, <2>8, AgreeStep
    <2>10. QED BY <2>3, <2>4, <2>9 DEF KeysAgree
  <1>3. ASSUME UNCHANGED <<cloud, sync, used>>,
               \A i \in Id : Exists(rows'[i]) =>
                   /\ Exists(rows[i])
                   /\ Key[rows'[i].word] = Key[rows[i].word]
                   /\ rows'[i].cid = rows[i].cid /\ rows'[i].cloud = rows[i].cloud
        PROVE  KeysAgree'
    <2>1. RowsFit(kind, kid)'
      BY <1>1, <1>3 DEF Agree, RowsFit, Fits, used, Exists
    <2>2. Agree(kind, kid)'
      BY <1>1, <1>3, <2>1, AgreeStep, CloudStaysFit DEF Agree, used
    <2>3. QED BY <2>2 DEF KeysAgree
  <1>4. ASSUME NEW w \in Word, AddAgain(w) PROVE KeysAgree'
    <2>1. PICK j \in Id : /\ Exists(rows[j]) /\ Key[rows[j].word] = Key[w]
                          /\ rows' = [rows EXCEPT ![j] = [@ EXCEPT !.status = "pending",
                                         !.deleted = FALSE, !.word = w, !.ts = clock]]
      BY <1>4 DEF AddAgain, Last, OfKey
    <2>2. ASSUME NEW i \in Id, Exists(rows'[i])
          PROVE  /\ Exists(rows[i])
                 /\ Key[rows'[i].word] = Key[rows[i].word]
                 /\ rows'[i].cid = rows[i].cid /\ rows'[i].cloud = rows[i].cloud
      BY <2>1, <2>2 DEF TypeOK, Row
    <2>3. QED BY <1>3, <1>4, <2>2 DEF AddAgain
  <1>5. ASSUME NEW k, Remove(k) PROVE KeysAgree'
    <2>1. ASSUME NEW i \in Id, Exists(rows'[i])
          PROVE  /\ Exists(rows[i])
                 /\ Key[rows'[i].word] = Key[rows[i].word]
                 /\ rows'[i].cid = rows[i].cid /\ rows'[i].cloud = rows[i].cloud
      <3>1. rows'[i] = rows[i] \/ rows'[i] = Removed(rows[i])
        BY <1>5 DEF Remove
      <3>2. rows[i] \in Row
        BY DEF TypeOK
      <3>3. QED BY <2>1, <3>1, <3>2, BlankTyped DEF Removed, Row
    <2>2. QED BY <1>3, <1>5, <2>1 DEF Remove
  <1>6. QED BY <1>2, <1>4, <1>5 DEF User

LEMMA PeerAgrees ==
  ASSUME TypeOK, KeysAgree, Peer
  PROVE  KeysAgree'
  <1>1. PICK kind \in [Ident -> Keys], kid \in [Id -> Keys] : Agree(kind, kid)
    BY DEF KeysAgree
  <1>2. ASSUME NEW n \in Ident, NEW w \in Word, PeerAdds(n, w) PROVE KeysAgree'
    <2> DEFINE kind2 == [kind EXCEPT ![n] = Key[w]]
    <2>1. n \notin usedIdents /\ usedIdents' = usedIdents \cup {n} /\ UNCHANGED <<rows, sync, usedIds>>
      BY <1>2 DEF PeerAdds
    <2>2. kind2 \in [Ident -> Keys] /\ kind2[n] = Key[w] /\ \A m \in usedIdents : kind2[m] = kind[m]
      BY <2>1 DEF Keys, TypeOK
    <2> HIDE DEF kind2
    <2>3. Agree(kind2, kid)
      BY <1>1, <2>2, KeysExtend
    <2>4. CloudFits(kind2)'
      <3>1. cloud' = [cloud EXCEPT ![n] = Stored(w)]
        BY <1>2 DEF PeerAdds
      <3>2. \A m \in Ident : cloud'[m] = IF m = n THEN Stored(w) ELSE cloud[m]
        BY <3>1 DEF TypeOK
      <3>3. Stored(w).word = w
        BY DEF Stored
      <3>4. QED BY <2>1, <2>2, <2>3, <3>2, <3>3 DEF CloudFits, Agree
    <2>5. RowsFit(kind2, kid)'
      BY <2>1, <2>3, RowsStayFit DEF Agree
    <2>6. Agree(kind2, kid)'
      BY <2>1, <2>3, <2>4, <2>5, AgreeStep
    <2>7. QED BY <2>2, <2>6 DEF KeysAgree
  <1>3. ASSUME UNCHANGED <<rows, sync, used>>,
               \A n \in Ident : cloud'[n].life # "none" =>
                   cloud[n].life # "none" /\ Key[cloud'[n].word] = Key[cloud[n].word]
        PROVE  KeysAgree'
    <2>1. CloudFits(kind)'
      BY <1>1, <1>3 DEF Agree, CloudFits, used
    <2>2. Agree(kind, kid)'
      BY <1>1, <1>3, <2>1, AgreeStep, RowsStayFit DEF Agree, used
    <2>3. QED BY <2>2 DEF KeysAgree
  <1>4. ASSUME NEW n \in Ident, NEW w \in Word, PeerEdits(n, w) PROVE KeysAgree'
    <2>1. cloud' = [cloud EXCEPT ![n] = Stored(w)] /\ Live(n) /\ Key[w] = Key[cloud[n].word]
      BY <1>4 DEF PeerEdits
    <2>2. ASSUME NEW m \in Ident, cloud'[m].life # "none"
          PROVE  cloud[m].life # "none" /\ Key[cloud'[m].word] = Key[cloud[m].word]
      BY <2>1, <2>2 DEF TypeOK, Stored, Live
    <2>3. QED BY <1>3, <1>4, <2>2 DEF PeerEdits
  <1>5. ASSUME NEW n \in Ident, PeerRemoves(n) PROVE KeysAgree'
    <2>1. PICK life \in {"dead", "purged"} :
              cloud' = [cloud EXCEPT ![n] = [@ EXCEPT !.life = life, !.ts = clock]]
      BY <1>5 DEF PeerRemoves
    <2>2. Live(n)
      BY <1>5 DEF PeerRemoves
    <2>3. ASSUME NEW m \in Ident, cloud'[m].life # "none"
          PROVE  cloud[m].life # "none" /\ Key[cloud'[m].word] = Key[cloud[m].word]
      BY <2>1, <2>2, <2>3 DEF TypeOK, Entry, Live
    <2>4. QED BY <1>3, <1>5, <2>3 DEF PeerRemoves
  <1>6. QED BY <1>2, <1>4, <1>5 DEF Peer

-----------------------------------------------------------------------------
(* Steps of a sync. *)

\* The parts of a sync that agrees.
LEMMA RunFacts ==
  ASSUME NEW kind, NEW kid, NEW x \in Window, Agree(kind, kid)
  PROVE  /\ RunFits(kind, kid, sync[x])
         /\ \A i \in Id : Exists(sync[x].todo[i]) => Fits(kind, kid, i, sync[x].todo[i])
         /\ \A n \in Ident : sync[x].page[n].life # "none" =>
               n \in usedIdents /\ Key[sync[x].page[n].word] = kind[n]
         /\ sync[x].phase # "acks" => sync[x].made = {}
         /\ \A i \in sync[x].made : Exists(sync[x].todo[i])
  BY DEF Agree, RunFits

\* A step that only changes the sync of x.
LEMMA OnlyRunAgrees ==
  ASSUME NEW kind, NEW kid, NEW x \in Window, Agree(kind, kid), TypeOK,
         UNCHANGED <<rows, cloud, used>>,
         \A y \in Window \ {x} : sync'[y] = sync[y],
         RunFits(kind, kid, sync[x])'
  PROVE  Agree(kind, kid)'
  <1>1. RowsFit(kind, kid)' /\ CloudFits(kind)'
    BY RowsStayFit, CloudStaysFit DEF Agree, used
  <1>2. \A y \in Window : sync'[y] = sync[y] \/ RunFits(kind, kid, sync[y])'
    OBVIOUS
  <1>3. QED BY <1>1, <1>2, AgreeStep DEF used

\* The lists made at the start of a phase.
LEMMA ListsAgree ==
  ASSUME NEW kind, NEW kid, NEW x \in Window, Agree(kind, kid), TypeOK,
         Start(x) \/ ListDeletes(x)
  PROVE  Agree(kind, kid)'
  <1>1. PICK todo \in {Listed(PendingWord), Listed(PendingDelete)}, phase \in {"push", "deletes"} :
            sync' = [sync EXCEPT ![x].phase = phase, ![x].todo = todo]
    BY DEF Start, ListDeletes
  <1>2. \A i \in Id : Exists(todo[i]) => todo[i] = rows[i]
    BY ListedTyped DEF TypeOK
  <1>3. sync[x].made = {}
    BY RunFacts DEF Start, ListDeletes
  <1>4. UNCHANGED <<rows, cloud, used>>
    BY DEF Start, ListDeletes
  <1>5. /\ sync'[x].phase = phase /\ sync'[x].todo = todo
        /\ sync'[x].made = sync[x].made
        /\ sync'[x].page = sync[x].page /\ sync'[x].flight = sync[x].flight
        /\ \A y \in Window \ {x} : sync'[y] = sync[y]
    BY <1>1 DEF TypeOK, Run
  <1>6. \A i \in Id : Exists(sync'[x].todo[i]) => Fits(kind, kid, i, sync'[x].todo[i])
    BY <1>2, <1>5 DEF Agree, RowsFit
  <1>7. RunFits(kind, kid, sync[x])'
    BY <1>3, <1>4, <1>5, <1>6, RunRefits, RunFacts
  <1>8. QED BY <1>4, <1>5, <1>7, OnlyRunAgrees

LEMMA PushAgrees ==
  ASSUME NEW kind, NEW kid, NEW x \in Window, Agree(kind, kid), TypeOK,
         NEW i \in Id, PatchArrives(x, i)
  PROVE  Agree(kind, kid)'
  <1> DEFINE sent == sync[x].todo[i]
             n == sent.cloud
             todo == [sync[x].todo EXCEPT ![i] = NoRow]
  <1>1. sync[x].todo \in [Id -> Row] /\ Exists(sent) /\ n # NoIdent /\ sync[x].phase = "push"
    BY RunParts DEF PatchArrives, Updates
  <1>2. Fits(kind, kid, i, sent)
    BY <1>1, RunFacts
  <1>3. n \in usedIdents /\ i \in usedIds /\ kind[n] = kid[i] /\ Key[sent.word] = kid[i] /\ n \in Ident
    BY <1>1, <1>2 DEF Fits, TypeOK
  <1>4. /\ sync' = [sync EXCEPT
               ![x].flight = [op |-> "patch", id |-> i, n |-> n, found |-> Live(n)],
               ![x].todo = todo]
        /\ UNCHANGED <<rows, used>>
    BY DEF PatchArrives
  <1>5. /\ sync'[x].phase = sync[x].phase /\ sync'[x].todo = todo
        /\ sync'[x].made = sync[x].made /\ sync'[x].page = sync[x].page
        /\ sync'[x].flight = [op |-> "patch", id |-> i, n |-> n, found |-> Live(n)]
        /\ \A y \in Window \ {x} : sync'[y] = sync[y]
    <2> HIDE DEF todo, n
    <2>1. QED BY <1>4 DEF TypeOK, Run
  <1>6. \A j \in Id : Exists(todo[j]) => todo[j] = sync[x].todo[j]
    BY <1>1, BlankTyped
  <1>7. sync[x].made = {}
    BY <1>1, RunFacts
  <1>8. RunFits(kind, kid, sync[x])'
    <2>1. sync'[x].flight.id = i /\ sync'[x].flight.n = n
      BY <1>5
    <2>2. \A j \in Id : Exists(sync'[x].todo[j]) => sync'[x].todo[j] = sync[x].todo[j]
      BY <1>5, <1>6
    <2>3. /\ sync'[x].flight.id \in usedIds
          /\ sync'[x].flight.n \in usedIdents
          /\ kind[sync'[x].flight.n] = kid[sync'[x].flight.id]
      BY <1>3, <2>1
    <2>4. sync'[x].page = sync[x].page /\ sync'[x].made = {} /\ UNCHANGED used
      BY <1>4, <1>5, <1>7
    <2> HIDE DEF todo, n, sent
    <2>5. QED BY <2>2, <2>3, <2>4, RunRefits, RunFacts
  <1>9. CloudFits(kind)'
    <2>1. cloud' = cloud \/ cloud' = [cloud EXCEPT ![n] = Stored(sent.word)]
      <3>1. CASE Live(n)
        BY <3>1 DEF PatchArrives
      <3>2. CASE ~Live(n)
        BY <3>2 DEF PatchArrives
      <3>3. QED BY <3>1, <3>2
    <2>2. Stored(sent.word).word = sent.word
      BY DEF Stored
    <2> HIDE DEF sent, n
    <2>3. \A m \in Ident : cloud'[m] = cloud[m] \/ (m = n /\ cloud'[m] = Stored(sent.word))
      BY <2>1 DEF TypeOK
    <2>4. QED BY <1>3, <1>4, <2>2, <2>3 DEF CloudFits, Agree, used
  <1>10. RowsFit(kind, kid)'
    BY <1>4, RowsStayFit DEF Agree, used
  <1>11. \A y \in Window : sync'[y] = sync[y] \/ RunFits(kind, kid, sync[y])'
    BY <1>5, <1>8
  <1>12. QED BY <1>4, <1>9, <1>10, <1>11, AgreeStep DEF used

LEMMA BatchAgrees ==
  ASSUME NEW kind, NEW kid, NEW x \in Window, Agree(kind, kid), TypeOK, CreatesArrive(x)
  PROVE  Agree(kind, kid)'
  <1> DEFINE todo == sync[x].todo
             done == {i \in Creates(x) : ~WordTaken(todo[i].word, todo[i].cid)}
             Source(n) == CHOOSE i \in done : todo[i].cid = n
             new == {todo[i].cid : i \in done}
  <1>1. /\ sync' = [sync EXCEPT ![x].made = done, ![x].phase = "acks"]
        /\ cloud' = [n \in Ident |-> IF n \in new THEN Stored(todo[Source(n)].word) ELSE cloud[n]]
        /\ UNCHANGED <<rows, used>>
    BY DEF CreatesArrive
  <1>2. \A i \in done : i \in Id /\ Exists(todo[i]) /\ Fits(kind, kid, i, todo[i])
    BY RunFacts DEF Creates
  <1>3. CloudFits(kind)'
    <2> SUFFICES ASSUME NEW n \in Ident, cloud'[n].life # "none"
                 PROVE  n \in usedIdents' /\ Key[cloud'[n].word] = kind[n]
      BY DEF CloudFits
    <2>1. CASE n \in new
      <3>1. Source(n) \in done /\ todo[Source(n)].cid = n
        <4>1. PICK i \in done : todo[i].cid = n
          BY <2>1
        <4>2. QED BY <4>1
      <3> DEFINE j == Source(n)
      <3>2. cloud'[n] = Stored(todo[j].word)
        BY <1>1, <2>1
      <3>3. Fits(kind, kid, j, todo[j]) /\ todo[j].cid = n
        BY <1>2, <3>1
      <3> HIDE DEF j, todo
      <3>4. QED BY <1>1, <3>2, <3>3 DEF Fits, Stored, used
    <2>2. CASE n \notin new
      <3>1. cloud'[n] = cloud[n]
        BY <1>1, <2>2
      <3>2. QED BY <1>1, <3>1 DEF Agree, CloudFits, used
    <2>3. QED BY <2>1, <2>2
  <1> HIDE DEF done
  <1>4. /\ sync'[x].phase = "acks" /\ sync'[x].todo = todo /\ sync'[x].made = done
        /\ sync'[x].page = sync[x].page /\ sync'[x].flight = sync[x].flight
        /\ \A y \in Window \ {x} : sync'[y] = sync[y]
    BY <1>1 DEF TypeOK, Run
  <1>5. RunFits(kind, kid, sync[x])'
    BY <1>1, <1>2, <1>4, RunRefits, RunFacts
  <1>6. RowsFit(kind, kid)'
    BY <1>1, RowsStayFit DEF Agree, used
  <1>7. \A y \in Window : sync'[y] = sync[y] \/ RunFits(kind, kid, sync[y])'
    BY <1>4, <1>5
  <1>8. QED BY <1>1, <1>3, <1>6, <1>7, AgreeStep DEF used

\* An acknowledgement and a cleared id keep the key of the row.
LEMMA RowsAnsweredFit ==
  ASSUME NEW kind, NEW kid, TypeOK, RowsFit(kind, kid), UNCHANGED used,
         NEW i \in Id \cup {0}, NEW n,
         \/ UNCHANGED rows
         \/ /\ Exists(rows[i]) /\ n \in usedIdents /\ kind[n] = kid[i]
            /\ MarkSynced(i, n)
         \/ Exists(rows[i]) /\ ClearCloudId(i)
         \/ HardDelete(i)
  PROVE  RowsFit(kind, kid)'
  <1> SUFFICES ASSUME NEW j \in Id, Exists(rows'[j]) PROVE Fits(kind, kid, j, rows[j])'
    BY DEF RowsFit, Exists
  <1>1. rows[j] \in Row
    BY DEF TypeOK
  <1>2. CASE rows'[j] = rows[j]
    BY <1>2 DEF RowsFit, Fits, Exists, used
  <1>3. CASE MarkSynced(i, n) /\ j = i /\ Exists(rows[i]) /\ n \in usedIdents /\ kind[n] = kid[i]
    <2>1. rows'[j] = [rows[j] EXCEPT !.status = "synced", !.cloud = n]
      BY <1>3, TableAfter
    <2>2. rows'[j].word = rows[j].word /\ rows'[j].cid = rows[j].cid /\ rows'[j].cloud = n
      BY <1>1, <2>1 DEF Row
    <2>3. QED BY <1>3, <2>2 DEF RowsFit, Fits, used
  <1>4. CASE ClearCloudId(i) /\ j = i /\ Exists(rows[i])
    <2>1. rows'[j] = [rows[j] EXCEPT !.status = "pending", !.cloud = NoIdent]
      BY <1>4, TableAfter
    <2>2. rows'[j].word = rows[j].word /\ rows'[j].cid = rows[j].cid /\ rows'[j].cloud = NoIdent
      BY <1>1, <2>1 DEF Row
    <2>3. QED BY <1>4, <2>2 DEF RowsFit, Fits, used
  <1>5. CASE HardDelete(i) /\ j = i
    <2>1. rows'[j] = NoRow
      BY <1>5, TableAfter
    <2>2. QED BY <2>1, BlankTyped
  <1>6. QED BY <1>2, <1>3, <1>4, <1>5, TableAfter

LEMMA AnswersAgree ==
  ASSUME NEW kind, NEW kid, NEW x \in Window, Agree(kind, kid), TypeOK,
         \/ PatchAnswered(x)
         \/ \E i \in Id : CreateAnswered(x, i)
         \/ DeleteAnswered(x)
  PROVE  Agree(kind, kid)'
  <1>1. UNCHANGED <<cloud, used>>
    BY DEF PatchAnswered, CreateAnswered, DeleteAnswered
  <1>2. RowsFit(kind, kid)'
    <2>0. RowsFit(kind, kid) /\ RunFits(kind, kid, sync[x])
      BY DEF Agree
    <2>1. CASE PatchAnswered(x)
      <3> DEFINE i == sync[x].flight.id
                 n == sync[x].flight.n
      <3>1. i \in Id \cup {0} /\ n \in usedIdents /\ kind[n] = kid[i]
        BY <2>0, <2>1, RunParts DEF PatchAnswered, RunFits, Flight
      <3>2. \/ UNCHANGED rows
            \/ Exists(rows[i]) /\ MarkSynced(i, n)
            \/ Exists(rows[i]) /\ ClearCloudId(i)
        BY <2>1 DEF PatchAnswered, Markable
      <3> HIDE DEF i, n
      <3>3. QED BY <1>1, <2>0, <3>1, <3>2, RowsAnsweredFit
    <2>2. CASE \E i \in Id : CreateAnswered(x, i)
      <3>1. PICK i \in Id : CreateAnswered(x, i)
        BY <2>2
      <3> DEFINE n == sync[x].todo[i].cid
      <3>2. Fits(kind, kid, i, sync[x].todo[i])
        BY <3>1, RunFacts DEF CreateAnswered
      <3> HIDE DEF n
      <3>3. n \in usedIdents /\ kind[n] = kid[i]
        <4>1. n = sync[x].todo[i].cid
          BY DEF n
        <4>2. QED BY <3>2, <4>1 DEF Fits
      <3>4. UNCHANGED rows \/ (Exists(rows[i]) /\ MarkSynced(i, n))
        BY <3>1 DEF CreateAnswered, Markable, n
      <3>5. QED BY <1>1, <2>0, <3>3, <3>4, RowsAnsweredFit
    <2>3. CASE DeleteAnswered(x)
      <3> DEFINE i == sync[x].flight.id
      <3>1. i \in Id \cup {0} /\ HardDelete(i)
        BY <2>3, RunParts DEF DeleteAnswered, Flight
      <3> HIDE DEF i
      <3>2. QED BY <1>1, <2>0, <3>1, RowsAnsweredFit
    <2>4. QED BY <2>1, <2>2, <2>3
  <1>3. /\ sync'[x].phase = sync[x].phase /\ sync'[x].todo = sync[x].todo
        /\ sync'[x].made \subseteq sync[x].made /\ sync'[x].page = sync[x].page
        /\ sync'[x].flight = sync[x].flight \/ sync'[x].flight.op # "patch"
        /\ \A y \in Window \ {x} : sync'[y] = sync[y]
    <2>1. CASE sync' = [sync EXCEPT ![x].flight = NoFlight]
      <3>1. NoFlight.op # "patch"
        BY DEF NoFlight
      <3>2. QED BY <2>1, <3>1 DEF TypeOK, Run
    <2>2. CASE \E i \in Id : CreateAnswered(x, i)
      <3>1. PICK i \in Id : CreateAnswered(x, i)
        BY <2>2
      <3> DEFINE made == sync[x].made \ {i}
                 answer == [op |-> "cleanup", id |-> i, n |-> sync[x].todo[i].cid, found |-> TRUE]
      <3>2. \/ sync' = [sync EXCEPT ![x].made = made]
            \/ sync' = [sync EXCEPT ![x].made = made, ![x].flight = answer]
        BY <3>1 DEF CreateAnswered
      <3>3. made \subseteq sync[x].made /\ answer.op # "patch"
        OBVIOUS
      <3> HIDE DEF made, answer
      <3>4. QED BY <3>2, <3>3 DEF TypeOK, Run
    <2>3. QED BY <2>1, <2>2 DEF PatchAnswered, DeleteAnswered
  <1>4. RunFits(kind, kid, sync[x])'
    BY <1>1, <1>3, RunRefits, RunFacts
  <1>5. CloudFits(kind)'
    BY <1>1, CloudStaysFit DEF Agree, used
  <1>6. \A y \in Window : sync'[y] = sync[y] \/ RunFits(kind, kid, sync[y])'
    BY <1>3, <1>4
  <1>7. QED BY <1>1, <1>2, <1>5, <1>6, AgreeStep DEF used

\* Neither the word nor the presence of an entry changes.
LEMMA CloudKeptFits ==
  ASSUME NEW kind, CloudFits(kind), UNCHANGED used,
         \A m \in Ident : cloud'[m].life # "none" =>
             cloud[m].life # "none" /\ cloud'[m].word = cloud[m].word
  PROVE  CloudFits(kind)'
  BY DEF CloudFits, used

\* An entry that is deleted keeps its word.
LEMMA DeadKept ==
  ASSUME TypeOK, NEW n, cloud' = [cloud EXCEPT ![n] = IF Live(n) THEN Dead(n) ELSE @]
  PROVE  \A m \in Ident : cloud'[m].life # "none" =>
             cloud[m].life # "none" /\ cloud'[m].word = cloud[m].word
  <1> SUFFICES ASSUME NEW m \in Ident, cloud'[m].life # "none"
               PROVE  cloud[m].life # "none" /\ cloud'[m].word = cloud[m].word
    OBVIOUS
  <1>1. cloud[m] \in Entry
    BY DEF TypeOK
  <1>2. CASE m = n /\ Live(n)
    <2>1. cloud'[m] = Dead(m)
      BY <1>2 DEF TypeOK
    <2>2. Dead(m).word = cloud[m].word
      BY <1>1 DEF Dead, Entry
    <2>3. QED BY <1>2, <2>1, <2>2 DEF Live
  <1>3. CASE ~(m = n /\ Live(n))
    BY <1>3 DEF TypeOK
  <1>4. QED BY <1>2, <1>3

LEMMA CleanupAgrees ==
  ASSUME NEW kind, NEW kid, NEW x \in Window, Agree(kind, kid), TypeOK, Cleanup(x)
  PROVE  Agree(kind, kid)'
  <1>1. /\ sync' = [sync EXCEPT ![x].flight = NoFlight]
        /\ UNCHANGED <<rows, used>>
    BY DEF Cleanup
  <1>2. /\ sync'[x].phase = sync[x].phase /\ sync'[x].todo = sync[x].todo
        /\ sync'[x].made = sync[x].made /\ sync'[x].page = sync[x].page
        /\ sync'[x].flight = NoFlight
        /\ \A y \in Window \ {x} : sync'[y] = sync[y]
    BY <1>1 DEF TypeOK, Run
  <1>3. NoFlight.op # "patch"
    BY DEF NoFlight
  <1>4. RunFits(kind, kid, sync[x])'
    BY <1>1, <1>2, <1>3, RunRefits, RunFacts
  <1>5. CloudFits(kind)'
    <2>1. cloud' = [cloud EXCEPT ![sync[x].flight.n] =
                        IF Live(sync[x].flight.n) THEN Dead(sync[x].flight.n) ELSE @]
      BY DEF Cleanup
    <2>2. QED BY <1>1, <2>1, DeadKept, CloudKeptFits DEF Agree
  <1>6. RowsFit(kind, kid)'
    BY <1>1, RowsStayFit DEF Agree, used
  <1>7. \A y \in Window : sync'[y] = sync[y] \/ RunFits(kind, kid, sync[y])'
    BY <1>2, <1>4
  <1>8. QED BY <1>1, <1>5, <1>6, <1>7, AgreeStep DEF used

LEMMA DeletesAgree ==
  ASSUME NEW kind, NEW kid, NEW x \in Window, Agree(kind, kid), TypeOK,
         NEW i \in Id, DeleteArrives(x, i)
  PROVE  Agree(kind, kid)'
  <1> DEFINE n == sync[x].todo[i].cloud
             todo == [sync[x].todo EXCEPT ![i] = NoRow]
             flight == [op |-> "delete", id |-> i, n |-> n, found |-> Live(n)]
  <1>1. /\ sync' = [sync EXCEPT ![x].flight = flight, ![x].todo = todo]
        /\ UNCHANGED <<rows, used>> /\ sync[x].phase = "deletes"
    BY DEF DeleteArrives
  <1>2. flight.op # "patch"
    OBVIOUS
  <1>3. \A j \in Id : Exists(todo[j]) => todo[j] = sync[x].todo[j]
    BY RunParts, BlankTyped
  <1> HIDE DEF todo, flight
  <1>4. /\ sync'[x].phase = sync[x].phase /\ sync'[x].todo = todo
        /\ sync'[x].made = sync[x].made /\ sync'[x].page = sync[x].page
        /\ sync'[x].flight = flight
        /\ \A y \in Window \ {x} : sync'[y] = sync[y]
    BY <1>1 DEF TypeOK, Run
  <1>5. sync[x].made = {}
    BY <1>1, RunFacts
  <1>6. RunFits(kind, kid, sync[x])'
    <2>1. \A j \in Id : Exists(sync'[x].todo[j]) => sync'[x].todo[j] = sync[x].todo[j]
      BY <1>3, <1>4
    <2>2. sync'[x].flight.op # "patch" /\ sync'[x].made = {} /\ UNCHANGED used
      BY <1>1, <1>2, <1>4, <1>5
    <2>3. sync'[x].page = sync[x].page
      BY <1>4
    <2> HIDE DEF n
    <2>4. QED BY <2>1, <2>2, <2>3, RunRefits, RunFacts
  <1>7. CloudFits(kind)'
    <2>1. cloud' = [cloud EXCEPT ![n] = IF Live(n) THEN Dead(n) ELSE @]
      BY DEF DeleteArrives
    <2>2. QED BY <1>1, <2>1, DeadKept, CloudKeptFits DEF Agree
  <1>8. RowsFit(kind, kid)'
    BY <1>1, RowsStayFit DEF Agree, used
  <1>9. \A y \in Window : sync'[y] = sync[y] \/ RunFits(kind, kid, sync[y])'
    BY <1>4, <1>6
  <1>10. QED BY <1>1, <1>7, <1>8, <1>9, AgreeStep DEF used

LEMMA IdleFits == \A kind, kid : RunFits(kind, kid, Idle)
  BY BlankTyped DEF RunFits, Idle, Empty, NoFlight

\* A sync that ends in any way.
LEMMA EndAgrees ==
  ASSUME NEW kind, NEW kid, NEW x \in Window, Agree(kind, kid), TypeOK,
         sync' = [sync EXCEPT ![x] = Idle], UNCHANGED <<rows, cloud, used>>
  PROVE  Agree(kind, kid)'
  <1>1. sync'[x] = Idle /\ \A y \in Window \ {x} : sync'[y] = sync[y]
    BY DEF TypeOK
  <1>2. RunFits(kind, kid, Idle)
    BY IdleFits
  <1>3. RunFits(kind, kid, sync[x])'
    BY <1>1, <1>2 DEF RunFits, Fits, Exists, used
  <1>4. QED BY <1>1, <1>3, OnlyRunAgrees

LEMMA PageAgrees ==
  ASSUME NEW kind, NEW kid, NEW x \in Window, Agree(kind, kid), TypeOK,
         ListPage(x) \/ (\E n \in Ident : PullReads(x, n))
  PROVE  Agree(kind, kid)'
  <1>1. UNCHANGED <<rows, cloud, used>>
    BY DEF ListPage, PullReads
  <1>2. /\ sync'[x].flight = sync[x].flight
        /\ sync'[x].made = {}
        /\ sync'[x].todo = sync[x].todo
        /\ \A n \in Ident : sync'[x].page[n].life # "none" =>
               sync'[x].page[n] = sync[x].page[n] \/ sync'[x].page[n] = cloud[n]
        /\ \A y \in Window \ {x} : sync'[y] = sync[y]
    <2>1. CASE ListPage(x)
      <3> DEFINE page == [n \in Ident |->
                   IF cloud[n].life \in {"live", "dead"} /\ cloud[n].ts > cursor
                     THEN cloud[n] ELSE NoEntry]
      <3>1. /\ sync' = [sync EXCEPT ![x].phase = "pull", ![x].page = page, ![x].top = cursor]
            /\ sync[x].phase = "deletes"
        BY <2>1 DEF ListPage
      <3>2. \A n \in Ident : page[n].life # "none" => page[n] = cloud[n]
        BY BlankTyped
      <3>3. sync[x].made = {}
        BY <3>1, RunFacts
      <3> HIDE DEF page
      <3>4. /\ sync'[x].flight = sync[x].flight /\ sync'[x].made = sync[x].made
            /\ sync'[x].todo = sync[x].todo /\ sync'[x].page = page
            /\ \A y \in Window \ {x} : sync'[y] = sync[y]
        BY <3>1 DEF TypeOK, Run
      <3>5. QED BY <3>2, <3>3, <3>4
    <2>2. CASE \E n \in Ident : PullReads(x, n)
      <3>1. PICK read : sync' = [sync EXCEPT ![x].read = read]
        BY <2>2 DEF PullReads
      <3>2. sync[x].made = {}
        BY <2>2, RunFacts DEF PullReads
      <3>3. /\ sync'[x].flight = sync[x].flight /\ sync'[x].made = sync[x].made
            /\ sync'[x].todo = sync[x].todo /\ sync'[x].page = sync[x].page
            /\ \A y \in Window \ {x} : sync'[y] = sync[y]
        BY <3>1 DEF TypeOK, Run
      <3>4. QED BY <3>2, <3>3
    <2>3. QED BY <2>1, <2>2
  <1>3. \A n \in Ident : sync'[x].page[n].life # "none" =>
             \/ sync'[x].page[n] = sync[x].page[n]
             \/ n \in usedIdents /\ Key[sync'[x].page[n].word] = kind[n]
    BY <1>2 DEF Agree, CloudFits
  <1>4. RunFits(kind, kid, sync[x])'
    BY <1>1, <1>2, <1>3, RunRefits, RunFacts
  <1>5. QED BY <1>1, <1>2, <1>4, OnlyRunAgrees

\* The row an entry is merged into has its key.
LEMMA SameEntryFits ==
  ASSUME NEW kind, NEW kid, RowsFit(kind, kid), NEW n \in Ident, NEW word,
         Key[word] = kind[n], NEW i \in SameEntry(n, word)
  PROVE  /\ i \in Id /\ Exists(rows[i])
         /\ i \in usedIds /\ kid[i] = kind[n]
  <1>1. i \in Id /\ Exists(rows[i])
        /\ (rows[i].cid = n \/ rows[i].cloud = n \/ rows[i].word = word)
    BY DEF SameEntry
  <1>2. Fits(kind, kid, i, rows[i])
    BY <1>1 DEF RowsFit
  <1>3. n # NoIdent
    BY IdentAssumption
  <1>4. QED BY <1>1, <1>2, <1>3 DEF Fits

\* The entry a pull merges fits.
LEMMA MergeFits ==
  ASSUME NEW kind, NEW kid, NEW x \in Window, Agree(kind, kid), TypeOK, PullMerges(x),
         sync[x].page[sync[x].read.n].life = "live"
  PROVE  /\ sync[x].read.n \in usedIdents
         /\ Key[sync[x].page[sync[x].read.n].word] = kind[sync[x].read.n]
  BY MergeListed, RunFacts

\* The sync of a merge: the entry is off the page.
LEMMA MergeRun ==
  ASSUME NEW x \in Window, TypeOK, PullMerges(x)
  PROVE  /\ sync'[x].phase = sync[x].phase /\ sync'[x].todo = sync[x].todo
         /\ sync'[x].made = sync[x].made /\ sync'[x].flight = sync[x].flight
         /\ \A n \in Ident : sync'[x].page[n].life # "none" => sync'[x].page[n] = sync[x].page[n]
         /\ \A y \in Window \ {x} : sync'[y] = sync[y]
  <1> DEFINE n == sync[x].read.n
             copy == sync[x].page[n]
             page == [sync[x].page EXCEPT ![n] = NoEntry]
             top == IF copy.life = "live" /\ copy.ts > sync[x].top THEN copy.ts ELSE sync[x].top
  <1>1. sync' = [sync EXCEPT ![x].page = page, ![x].read = NotRead, ![x].top = top]
    <2>1. sync' = [sync EXCEPT
                 ![x].page = [@ EXCEPT ![n] = NoEntry],
                 ![x].read = NotRead,
                 ![x].top = IF copy.life = "live" /\ copy.ts > @ THEN copy.ts ELSE @]
      BY DEF PullMerges
    <2>2. QED BY <2>1
  <1>2. \A m \in Ident : page[m].life # "none" => page[m] = sync[x].page[m]
    BY RunParts, BlankTyped
  <1> HIDE DEF page, top
  <1>3. /\ sync'[x].phase = sync[x].phase /\ sync'[x].todo = sync[x].todo
        /\ sync'[x].made = sync[x].made /\ sync'[x].flight = sync[x].flight
        /\ sync'[x].page = page
        /\ \A y \in Window \ {x} : sync'[y] = sync[y]
    BY <1>1 DEF TypeOK, Run
  <1>4. QED BY <1>2, <1>3

LEMMA MergeAgrees ==
  ASSUME NEW kind \in [Ident -> Keys], NEW kid \in [Id -> Keys], NEW x \in Window,
         Agree(kind, kid), TypeOK, PullMerges(x)
  PROVE  \E kid2 \in [Id -> Keys] : Agree(kind, kid2)'
  <1> DEFINE n == sync[x].read.n
             r == sync[x].read.id
             copy == sync[x].page[n]
  <1>1. UNCHANGED <<cloud, usedIdents>>
    BY DEF PullMerges
  <1>2. /\ sync'[x].phase = sync[x].phase /\ sync'[x].todo = sync[x].todo
        /\ sync'[x].made = sync[x].made /\ sync'[x].flight = sync[x].flight
        /\ \A m \in Ident : sync'[x].page[m].life # "none" => sync'[x].page[m] = sync[x].page[m]
        /\ \A y \in Window \ {x} : sync'[y] = sync[y]
    BY MergeRun
  <1>3. ASSUME NEW kid2 \in [Id -> Keys], Agree(kind, kid2), RowsFit(kind, kid2)',
               usedIds \subseteq usedIds'
        PROVE  Agree(kind, kid2)'
    <2>1. RunFits(kind, kid2, sync[x])
      BY <1>3, RunFacts
    <2>2. RunFits(kind, kid2, sync[x])'
      <3>1. \A i \in Id : Exists(sync'[x].todo[i]) => Fits(kind, kid2, i, sync[x].todo[i])'
        <4>1. \A i \in Id : Exists(sync[x].todo[i]) => Fits(kind, kid2, i, sync[x].todo[i])
          BY <2>1 DEF RunFits
        <4>2. QED BY <1>1, <1>2, <1>3, <4>1 DEF Fits
      <3>2. \A m \in Ident : sync'[x].page[m].life # "none" =>
                m \in usedIdents' /\ Key[sync'[x].page[m].word] = kind[m]
        BY <1>1, <1>2, <2>1 DEF RunFits
      <3>3. sync'[x].flight.op = "patch" =>
              /\ sync'[x].flight.id \in usedIds'
              /\ sync'[x].flight.n \in usedIdents'
              /\ kind[sync'[x].flight.n] = kid2[sync'[x].flight.id]
        BY <1>1, <1>2, <1>3, <2>1 DEF RunFits
      <3>4. /\ sync'[x].phase # "acks" => sync'[x].made = {}
            /\ \A i \in sync'[x].made : Exists(sync'[x].todo[i])
        BY <1>2, <2>1 DEF RunFits
      <3>5. QED BY <3>1, <3>2, <3>3, <3>4 DEF RunFits, Exists
    <2>3. CloudFits(kind)'
      BY <1>1, <1>3, CloudStaysFit DEF Agree
    <2>4. \A y \in Window : sync'[y] = sync[y] \/ RunFits(kind, kid2, sync[y])'
      BY <1>2, <2>2
    <2>5. QED BY <1>1, <1>3, <2>3, <2>4, AgreeStep
  <1>4. n \in Ident /\ r \in Id \cup {0} /\ copy \in Entry
    BY MergeListed
  <1>5. RowsFit(kind, kid)
    BY DEF Agree
  <1>6. CASE copy.life = "live" /\ Upsert(n, copy)
    <2>1. n \in usedIdents /\ Key[copy.word] = kind[n]
      BY <1>6, MergeFits
    <2> HIDE DEF n, r, copy
    <2>2. PICK i \in Id :
              /\ \A j \in Id : rows'[j] = IF j = i THEN Merged(n, copy) ELSE rows[j]
              /\ \/ i \in SameEntry(n, copy.word) /\ usedIds' = usedIds
                 \/ /\ SameEntry(n, copy.word) = {} /\ i \notin usedIds
                    /\ usedIds' = usedIds \cup {i}
      BY <1>4, <1>6, UpsertAfter
    <2>3. /\ Merged(n, copy).word = copy.word /\ Merged(n, copy).cid = n
          /\ Merged(n, copy).cloud = n
      BY DEF Merged
    <2>4. ASSUME NEW kid2, RowsFit(kind, kid2), kid2[i] = kind[n], i \in usedIds',
                 usedIds \subseteq usedIds'
          PROVE  RowsFit(kind, kid2)'
      <3> SUFFICES ASSUME NEW j \in Id, Exists(rows'[j]) PROVE Fits(kind, kid2, j, rows[j])'
        BY DEF RowsFit, Exists
      <3>1. CASE j = i
        <4>1. rows'[j] = Merged(n, copy)
          BY <2>2, <3>1
        <4>2. QED BY <1>1, <2>1, <2>3, <2>4, <3>1, <4>1 DEF Fits
      <3>2. CASE j # i
        <4>1. rows'[j] = rows[j]
          BY <2>2, <3>2
        <4>2. QED BY <1>1, <2>4, <4>1 DEF RowsFit, Fits, Exists
      <3>3. QED BY <3>1, <3>2
    <2>5. CASE i \in SameEntry(n, copy.word) /\ usedIds' = usedIds
      <3>1. i \in usedIds /\ kid[i] = kind[n]
        BY <1>4, <1>5, <2>1, <2>5, SameEntryFits
      <3>2. RowsFit(kind, kid)'
        BY <1>5, <2>4, <2>5, <3>1
      <3>3. QED BY <1>3, <2>5, <3>2
    <2>6. CASE i \notin usedIds /\ usedIds' = usedIds \cup {i}
      <3>1. PICK kid2 \in [Id -> Keys] : kid2[i] = kind[n] /\ \A j \in usedIds : kid2[j] = kid[j]
        <4>1. [kid EXCEPT ![i] = kind[n]] \in [Id -> Keys]
          BY <1>4
        <4>2. QED BY <2>6, <4>1 DEF TypeOK
      <3>2. Agree(kind, kid2)
        BY <3>1, KeysExtend
      <3>3. RowsFit(kind, kid2)
        BY <3>2 DEF Agree
      <3>4. usedIds \subseteq usedIds' /\ i \in usedIds'
        BY <2>6
      <3>5. RowsFit(kind, kid2)'
        BY <2>4, <3>1, <3>3, <3>4
      <3>6. QED BY <1>3, <3>1, <3>2, <3>4, <3>5
    <2>7. QED BY <2>2, <2>5, <2>6
  <1>7. CASE UNCHANGED usedIds /\ (UNCHANGED rows \/ HardDelete(r))
    <2>1. RowsFit(kind, kid)'
      <3> HIDE DEF r
      <3>1. QED BY <1>1, <1>4, <1>5, <1>7, RowsAnsweredFit DEF used
    <2>2. QED BY <1>3, <1>7, <2>1
  <1>8. \/ copy.life = "live" /\ Upsert(n, copy)
        \/ UNCHANGED usedIds /\ (UNCHANGED rows \/ HardDelete(r))
    BY DEF PullMerges
  <1>9. QED BY <1>6, <1>7, <1>8

LEMMA BrokenAgrees ==
  ASSUME NEW kind, NEW kid, NEW x \in Window, Agree(kind, kid), TypeOK, Broken(x)
  PROVE  Agree(kind, kid)'
  <1>1. UNCHANGED <<rows, cloud, used>>
    BY DEF Broken, RequestLost, BatchLost, AnswerLost, Reload
  <1>2. CASE Reload(x)
    BY <1>1, <1>2, EndAgrees DEF Reload
  <1>3. ASSUME sync'[x].page = sync[x].page,
               sync'[x].flight = sync[x].flight \/ sync'[x].flight = NoFlight,
               \A j \in Id : Exists(sync'[x].todo[j]) => sync'[x].todo[j] = sync[x].todo[j],
               sync'[x].phase # "acks" => sync'[x].made = {},
               \A j \in sync'[x].made : Exists(sync'[x].todo[j]),
               \A y \in Window \ {x} : sync'[y] = sync[y]
        PROVE  Agree(kind, kid)'
    <2>1. NoFlight.op # "patch"
      BY DEF NoFlight
    <2>2. RunFits(kind, kid, sync[x])'
      BY <1>1, <1>3, <2>1, RunRefits, RunFacts
    <2>3. QED BY <1>1, <1>3, <2>2, OnlyRunAgrees
  <1>4. ASSUME NEW i \in Id, RequestLost(x, i) PROVE Agree(kind, kid)'
    <2> DEFINE todo == [sync[x].todo EXCEPT ![i] = NoRow]
    <2>1. sync' = [sync EXCEPT ![x].todo = todo] /\ sync[x].phase \in {"push", "deletes"}
      BY <1>4 DEF RequestLost
    <2>2. \A j \in Id : Exists(todo[j]) => todo[j] = sync[x].todo[j]
      BY RunParts, BlankTyped
    <2>3. sync[x].made = {}
      BY <2>1, RunFacts
    <2> HIDE DEF todo
    <2>4. /\ sync'[x].page = sync[x].page /\ sync'[x].flight = sync[x].flight
          /\ sync'[x].todo = todo /\ sync'[x].made = sync[x].made
          /\ \A y \in Window \ {x} : sync'[y] = sync[y]
      BY <2>1 DEF TypeOK, Run
    <2>5. QED BY <1>3, <2>2, <2>3, <2>4
  <1>5. CASE BatchLost(x)
    <2>1. sync' = [sync EXCEPT ![x].phase = "push", ![x].todo = Empty, ![x].made = {}]
      BY <1>5 DEF BatchLost
    <2>2. /\ sync'[x].page = sync[x].page /\ sync'[x].flight = sync[x].flight
          /\ sync'[x].todo = Empty /\ sync'[x].made = {}
          /\ \A y \in Window \ {x} : sync'[y] = sync[y]
      BY <2>1 DEF TypeOK, Run
    <2>3. \A j \in Id : ~Exists(Empty[j])
      BY BlankTyped DEF Empty
    <2>4. QED BY <1>3, <2>2, <2>3
  <1>6. CASE AnswerLost(x)
    <2>1. sync' = [sync EXCEPT ![x].flight = NoFlight]
      BY <1>6 DEF AnswerLost
    <2>2. /\ sync'[x].page = sync[x].page /\ sync'[x].flight = NoFlight
          /\ sync'[x].todo = sync[x].todo /\ sync'[x].made = sync[x].made
          /\ sync'[x].phase = sync[x].phase
          /\ \A y \in Window \ {x} : sync'[y] = sync[y]
      BY <2>1 DEF TypeOK, Run
    <2>3. QED BY <1>3, <2>2, RunFacts
  <1>7. QED BY <1>2, <1>4, <1>5, <1>6 DEF Broken

LEMMA KeysStep == TypeOK /\ KeysAgree /\ [Next]_vars => KeysAgree'
  <1> SUFFICES ASSUME TypeOK, KeysAgree, [Next]_vars PROVE KeysAgree'
    OBVIOUS
  <1>1. PICK kind \in [Ident -> Keys], kid \in [Id -> Keys] : Agree(kind, kid)
    BY DEF KeysAgree
  <1>2. ASSUME NEW x \in Window, Sync(x) PROVE KeysAgree'
    <2>1. CASE PullMerges(x)
      BY <1>1, <2>1, MergeAgrees DEF KeysAgree
    <2>2. CASE PullThrows(x) \/ PullEnds(x)
      BY <1>1, <2>2, EndAgrees DEF KeysAgree, PullThrows, PullEnds
    <2>3. CASE ListPage(x) \/ (\E n \in Ident : PullReads(x, n))
      BY <1>1, <2>3, PageAgrees DEF KeysAgree
    <2>4. CASE Start(x) \/ ListDeletes(x)
      BY <1>1, <2>4, ListsAgree DEF KeysAgree
    <2>5. CASE \E i \in Id : PatchArrives(x, i)
      BY <1>1, <2>5, PushAgrees DEF KeysAgree
    <2>6. CASE CreatesArrive(x)
      BY <1>1, <2>6, BatchAgrees DEF KeysAgree
    <2>7. CASE PatchAnswered(x) \/ (\E i \in Id : CreateAnswered(x, i)) \/ DeleteAnswered(x)
      BY <1>1, <2>7, AnswersAgree DEF KeysAgree
    <2>8. CASE Cleanup(x)
      BY <1>1, <2>8, CleanupAgrees DEF KeysAgree
    <2>9. CASE \E i \in Id : DeleteArrives(x, i)
      BY <1>1, <2>9, DeletesAgree DEF KeysAgree
    <2>10. QED
      BY <1>2, <2>1, <2>2, <2>3, <2>4, <2>5, <2>6, <2>7, <2>8, <2>9 DEF Sync
  <1>3. ASSUME NEW x \in Window, Broken(x) PROVE KeysAgree'
    BY <1>1, <1>3, BrokenAgrees DEF KeysAgree
  <1>4. CASE UNCHANGED vars
    <2>1. UNCHANGED <<rows, cloud, sync, usedIds, usedIdents>>
      BY <1>4 DEF vars
    <2>2. Agree(kind, kid)'
      BY <1>1, <2>1, AgreeStep, RowsStayFit, CloudStaysFit DEF Agree
    <2>3. QED BY <2>2 DEF KeysAgree
  <1>5. QED BY <1>2, <1>3, <1>4, UserAgrees, PeerAgrees DEF Next

-----------------------------------------------------------------------------
(* Rows. *)

\* Removals and settlements bring no word.
LEMMA NoWordComes ==
  ASSUME OneRowPerWord,
         \A i \in Id : Exists(rows'[i]) => Exists(rows[i]) /\ rows'[i].word = rows[i].word
  PROVE  OneRowPerWord'
  BY DEF OneRowPerWord, FoldedAlike, Exists

\* One row takes a word that no other row has.
LEMMA OneWordComes ==
  ASSUME OneRowPerWord, NEW i \in Id, NEW w, rows'[i].word = w,
         \A j \in Id \ {i} : rows'[j] = rows[j],
         FoldedAlike(w) => \A j \in Id \ {i} : Exists(rows[j]) => rows[j].word # w
  PROVE  OneRowPerWord'
  BY DEF OneRowPerWord, FoldedAlike, Exists

\* A row of the same key has the word already, if both fold it alike.
LEMMA SameKeyIsSameWord ==
  ASSUME TypeOK, OneRowPerWord, NEW i \in Id, Exists(rows[i]), NEW w, Key[rows[i].word] = Key[w],
         FoldedAlike(w)
  PROVE  \A j \in Id \ {i} : Exists(rows[j]) => rows[j].word # w
  <1>1. rows[i].word \in Word
    BY DEF TypeOK, Row
  <1>2. rows[i].word = w
    BY <1>1 DEF FoldedAlike
  <1>3. QED BY <1>2 DEF OneRowPerWord

LEMMA WordsStep == TypeOK /\ KeysAgree /\ OneRowPerWord /\ [Next]_vars => OneRowPerWord'
  <1> SUFFICES ASSUME TypeOK, KeysAgree, OneRowPerWord, [Next]_vars PROVE OneRowPerWord'
    OBVIOUS
  <1>0. ASSUME UNCHANGED rows PROVE OneRowPerWord'
    BY <1>0, NoWordComes
  <1>1. ASSUME NEW w \in Word, AddNew(w) PROVE OneRowPerWord'
    <2>0. NextId \in Id
      BY <1>1, NextIdIsNew DEF AddNew, TypeOK
    <2>1. PICK new \in Id : new = NextId
      BY <2>0
    <2>2. rows'[new].word = w /\ \A j \in Id \ {new} : rows'[j] = rows[j]
      BY <1>1, <2>1 DEF AddNew, TypeOK
    <2>3. \A j \in Id : Exists(rows[j]) => rows[j].word # w
      BY <1>1 DEF AddNew, OfKey
    <2>4. QED BY <2>2, <2>3, OneWordComes
  <1>2. ASSUME NEW w \in Word, AddAgain(w) PROVE OneRowPerWord'
    <2>1. PICK i \in Id : /\ Exists(rows[i]) /\ Key[rows[i].word] = Key[w]
                          /\ rows' = [rows EXCEPT ![i] = [@ EXCEPT !.status = "pending",
                                         !.deleted = FALSE, !.word = w, !.ts = clock]]
      BY <1>2 DEF AddAgain, Last, OfKey
    <2>2. rows'[i].word = w /\ \A j \in Id \ {i} : rows'[j] = rows[j]
      BY <2>1 DEF TypeOK, Row
    <2>3. QED BY <2>1, <2>2, SameKeyIsSameWord, OneWordComes
  <1>3. ASSUME NEW k, Remove(k) PROVE OneRowPerWord'
    <2>1. ASSUME NEW i \in Id, Exists(rows'[i])
          PROVE  Exists(rows[i]) /\ rows'[i].word = rows[i].word
      <3>1. rows'[i] = rows[i] \/ rows'[i] = Removed(rows[i])
        BY <1>3 DEF Remove
      <3>2. rows[i] \in Row
        BY DEF TypeOK
      <3>3. QED BY <2>1, <3>1, <3>2, BlankTyped DEF Removed, Row
    <2>2. QED BY <2>1, NoWordComes
  <1>4. ASSUME NEW i \in Id \cup {0}, NEW n,
               \/ UNCHANGED rows
               \/ Exists(rows[i]) /\ MarkSynced(i, n)
               \/ Exists(rows[i]) /\ ClearCloudId(i)
               \/ HardDelete(i)
        PROVE  OneRowPerWord'
    <2>1. ASSUME NEW j \in Id, Exists(rows'[j])
          PROVE  Exists(rows[j]) /\ rows'[j].word = rows[j].word
      <3>1. rows[j] \in Row
        BY DEF TypeOK
      <3>2. \/ rows'[j] = rows[j]
            \/ /\ Exists(rows[j])
               /\ \/ rows'[j] = [rows[j] EXCEPT !.status = "synced", !.cloud = n]
                  \/ rows'[j] = [rows[j] EXCEPT !.status = "pending", !.cloud = NoIdent]
            \/ rows'[j] = NoRow
        BY <1>4, TableAfter
      <3>3. QED BY <2>1, <3>1, <3>2, BlankTyped DEF Row
    <2>2. QED BY <2>1, NoWordComes
  <1>5. ASSUME NEW x \in Window, PatchAnswered(x) PROVE OneRowPerWord'
    <2> DEFINE i == sync[x].flight.id
               n == sync[x].flight.n
    <2>1. i \in Id \cup {0}
      BY RunParts DEF Flight
    <2>2. \/ UNCHANGED rows
          \/ Exists(rows[i]) /\ MarkSynced(i, n)
          \/ Exists(rows[i]) /\ ClearCloudId(i)
      BY <1>5 DEF PatchAnswered, Markable
    <2> HIDE DEF i, n
    <2>3. QED BY <1>4, <2>1, <2>2
  <1>6. ASSUME NEW x \in Window, NEW i \in Id, CreateAnswered(x, i) PROVE OneRowPerWord'
    <2>1. UNCHANGED rows \/ (Exists(rows[i]) /\ MarkSynced(i, sync[x].todo[i].cid))
      BY <1>6 DEF CreateAnswered, Markable
    <2>2. QED BY <1>4, <2>1
  <1>7. ASSUME NEW x \in Window, DeleteAnswered(x) PROVE OneRowPerWord'
    <2>1. sync[x].flight.id \in Id \cup {0} /\ HardDelete(sync[x].flight.id)
      BY <1>7, RunParts DEF DeleteAnswered, Flight
    <2>2. QED BY <1>4, <2>1
  <1>8. ASSUME NEW x \in Window, PullMerges(x) PROVE OneRowPerWord'
    <2> DEFINE n == sync[x].read.n
               r == sync[x].read.id
               copy == sync[x].page[n]
    <2>1. n \in Ident /\ r \in Id \cup {0} /\ copy \in Entry
      BY <1>8, MergeListed
    <2>2. CASE copy.life = "live" /\ Upsert(n, copy)
      <3>1. PICK kind \in [Ident -> Keys], kid \in [Id -> Keys] : Agree(kind, kid)
        BY DEF KeysAgree
      <3>2. Key[copy.word] = kind[n] /\ RowsFit(kind, kid)
        BY <1>8, <2>2, <3>1, MergeFits DEF Agree
      <3> HIDE DEF n, r, copy
      <3>3. PICK i \in Id :
                /\ \A j \in Id : rows'[j] = IF j = i THEN Merged(n, copy) ELSE rows[j]
                /\ i \in SameEntry(n, copy.word) \/ SameEntry(n, copy.word) = {}
        BY <2>1, <2>2, UpsertAfter
      <3>4. rows'[i].word = copy.word /\ \A j \in Id \ {i} : rows'[j] = rows[j]
        BY <3>3 DEF Merged
      <3>5. CASE SameEntry(n, copy.word) = {}
        <4>1. \A j \in Id : Exists(rows[j]) => rows[j].word # copy.word
          BY <3>5 DEF SameEntry
        <4>2. QED BY <3>4, <4>1, OneWordComes
      <3>6. CASE i \in SameEntry(n, copy.word)
        <4>1. Exists(rows[i]) /\ kid[i] = kind[n]
          BY <2>1, <3>2, <3>6, SameEntryFits
        <4>2. Key[rows[i].word] = Key[copy.word]
          BY <3>2, <4>1 DEF RowsFit, Fits
        <4>3. QED BY <3>4, <4>1, <4>2, SameKeyIsSameWord, OneWordComes
      <3>7. QED BY <3>3, <3>5, <3>6
    <2>3. CASE UNCHANGED rows \/ HardDelete(r)
      <3> HIDE DEF r
      <3>1. QED BY <1>4, <2>1, <2>3
    <2>4. QED BY <1>8, <2>2, <2>3 DEF PullMerges
  <1>9. QED
    BY <1>0, <1>1, <1>2, <1>3, <1>5, <1>6, <1>7, <1>8, TableStays DEF Next, User, Sync

\* Two rows never stand for one word that SQLite and JavaScript fold alike, whatever
\* creates, pulls, merges, removals and additions of several windows and devices
\* cross (upsertDictionaryFromCloud, applyDictionaryChanges).
THEOREM WordsHaveOneRow == Spec => []OneRowPerWord
  <1>1. Init => WordInv
    <2> SUFFICES ASSUME Init PROVE WordInv
      OBVIOUS
    <2>1. \A i \in Id : ~Exists(rows[i])
      BY BlankTyped DEF Init, Empty
    <2>2. OneRowPerWord
      BY <2>1 DEF OneRowPerWord
    <2>3. \A kind, kid : Agree(kind, kid)
      BY <2>1, BlankTyped, IdleFits DEF Agree, RowsFit, CloudFits, Init
    <2>4. \E kind \in [Ident -> Keys] : TRUE
      <3>1. [n \in Ident |-> Key[AnyWord]] \in [Ident -> Keys]
        BY Choices DEF Keys
      <3>2. QED BY <3>1
    <2>5. \E kid \in [Id -> Keys] : TRUE
      <3>1. [i \in Id |-> Key[AnyWord]] \in [Id -> Keys]
        BY Choices DEF Keys
      <3>2. QED BY <3>1
    <2>6. QED BY <2>2, <2>3, <2>4, <2>5, InitTyped DEF WordInv, KeysAgree
  <1>2. WordInv /\ [Next]_vars => WordInv'
    BY StepTyped, KeysStep, WordsStep DEF WordInv
  <1>3. WordInv => OneRowPerWord
    BY DEF WordInv
  <1>4. QED BY <1>1, <1>2, <1>3, PTL DEF Spec
=============================================================================
