-------------------------- MODULE DictionarySync --------------------------
(***************************************************************************)
(* The custom dictionary of one installation and its sync with the cloud:  *)
(* the custom_dictionary statements of helpers/database.js and             *)
(* syncDictionary of services/SyncService.ts (push the pending words, push *)
(* the tombstones, pull).  Every window has a SyncService of its own and   *)
(* syncDictionaryNow takes no lock, so the syncs of several windows run    *)
(* beside each other: each has its own lists, requests and page, the table *)
(* and the cursor are shared.  Every await lets the user, the other        *)
(* windows and the other devices act; a statement is atomic.               *)
(*                                                                         *)
(* A word is a spelling as SQLite's lower() sees it, which folds ASCII     *)
(* letters only.  Key[w] is what JavaScript's toLowerCase makes of it: two *)
(* words with one key differ in the case of other letters.  What lower()   *)
(* hides, and the source, are left out.  A client_dict_id and the cloud id *)
(* the server gives it are one identity.                                   *)
(***************************************************************************)
EXTENDS Naturals, FiniteSets

CONSTANTS
    Window,     \* the windows that sync the dictionary
    Word,       \* words, compared by SQLite's lower()
    Key,        \* the toLowerCase of each word
    Id,         \* local row ids
    Ident,      \* identities of entries
    NoIdent,    \* no cloud id
    MaxEvents   \* bound: what the user and the other devices do, lost requests
                \* and answers, and syncs that begin while another window's runs

ASSUME IdentAssumption == Ident # {} /\ NoIdent \notin Ident
ASSUME WordAssumption == Word # {} /\ DOMAIN Key = Word
ASSUME IdAssumption == Id \subseteq Nat \ {0}
ASSUME BoundAssumption == MaxEvents \in Nat

VARIABLES
    rows,       \* custom_dictionary
    cloud,      \* the entries of the account
    clock,      \* stamps edits and cloud revisions
    sync,       \* the syncDictionary of each window
    cursor,     \* lastSyncedAt.dictionary
    usedIds, usedIdents, acts, faults,
    mine,       \* history: identities this installation has created in the cloud
    crossed     \* history: syncs begun while another window's ran

vars == <<rows, cloud, clock, sync, cursor, usedIds, usedIdents, acts, faults, mine, crossed>>
used == <<usedIds, usedIdents>>
history == <<mine, crossed>>

AnyWord == CHOOSE w \in Word : TRUE
AnyIdent == CHOOSE n \in Ident : TRUE

NoRow == [status |-> "none", word |-> AnyWord, cid |-> AnyIdent, cloud |-> NoIdent,
          deleted |-> FALSE, ts |-> 0]
NoEntry == [life |-> "none", word |-> AnyWord, ts |-> 0]
NoFlight == [op |-> "none", id |-> 0, n |-> NoIdent, found |-> FALSE]
NotRead == [n |-> NoIdent, id |-> 0, ts |-> 0]

\* AUTOINCREMENT: no row id is given twice.
NextId == CHOOSE i \in Id \ usedIds : \A j \in Id \ usedIds : i <= j

Exists(r) == r.status # "none"
Live(n) == cloud[n].life = "live"
Empty == [i \in Id |-> NoRow]

Row == [status : {"none", "pending", "synced"}, word : Word, cid : Ident,
        cloud : Ident \cup {NoIdent}, deleted : BOOLEAN, ts : Nat]
Entry == [life : {"none", "live", "dead", "purged"}, word : Word, ts : Nat]
Flight == [op : {"none", "patch", "cleanup", "delete"}, id : Id \cup {0},
           n : Ident \cup {NoIdent}, found : BOOLEAN]
Read == {NotRead} \cup [n : Ident, id : Id \cup {0}, ts : Nat]
Phases == {"idle", "push", "acks", "deletes", "pull"}

\* A sync: its phase, the listed rows still to send, the request awaited, the
\* created rows whose acknowledgement is still to come, the listed cloud entries
\* still to merge, the local row read for the one being merged, and the newest
\* entry of the pull (maxUpdatedAt).
Run == [phase : Phases, todo : [Id -> Row], flight : Flight, made : SUBSET Id,
        page : [Ident -> Entry],
        read : Read, top : Nat]
Idle == [phase |-> "idle", todo |-> Empty, flight |-> NoFlight, made |-> {},
         page |-> [n \in Ident |-> NoEntry], read |-> NotRead, top |-> 0]

\* The one type invariant.
TypeOK ==
    /\ rows \in [Id -> Row]
    /\ cloud \in [Ident -> Entry]
    /\ clock \in Nat
    /\ sync \in [Window -> Run]
    /\ cursor \in Nat
    /\ usedIds \subseteq Id
    /\ usedIdents \subseteq Ident
    /\ acts \in 0..MaxEvents
    /\ faults \in 0..MaxEvents
    /\ mine \subseteq Ident
    /\ crossed \in 0..MaxEvents

Init ==
    /\ rows = Empty
    /\ cloud = [n \in Ident |-> NoEntry]
    /\ clock = 1
    /\ sync = [x \in Window |-> Idle]
    /\ cursor = 0
    /\ usedIds = {}
    /\ usedIdents = {}
    /\ acts = 0
    /\ faults = 0
    /\ mine = {}
    /\ crossed = 0

-----------------------------------------------------------------------------
(* Statements of database.js.                                              *)

PendingWord(r) == r.status = "pending" /\ ~r.deleted
PendingDelete(r) == r.status = "pending" /\ r.deleted /\ r.cloud # NoIdent

\* Mutant: tombstones that are settled are not told from live rows.
MarkableAny(r) == Exists(r)

\* Whether markDictionaryEntrySynced finds the row it was asked to settle.
Markable(r) == Exists(r) /\ ~r.deleted

MarkSynced(i, n) == rows' = [rows EXCEPT ![i] = [@ EXCEPT !.status = "synced", !.cloud = n]]

\* Mutant: the row is put aside as failed.
ClearCloudIdErrored(i) == rows' = [rows EXCEPT ![i] = [@ EXCEPT !.status = "error", !.cloud = NoIdent]]

\* Mutant: the row keeps the id of the entry that is gone.
ClearCloudIdKept(i) == rows' = [rows EXCEPT ![i] = [@ EXCEPT !.status = "pending"]]

\* clearDictionaryCloudId: the next sync creates the entry again.
ClearCloudId(i) == rows' = [rows EXCEPT ![i] = [@ EXCEPT !.status = "pending", !.cloud = NoIdent]]
HardDelete(i) == rows' = [rows EXCEPT ![i] = NoRow]

\* Mutant: an entry is only looked up by its client id.
SameEntryByClient(n, word) == {i \in Id : Exists(rows[i]) /\ rows[i].cid = n}

\* The rows upsertDictionaryFromCloud may merge entry n into (LIMIT 1): by client
\* id, then by cloud id, then by lower(word).
SameEntry(n, word) ==
    LET byClient == {i \in Id : Exists(rows[i]) /\ rows[i].cid = n}
        byCloud == {i \in Id : Exists(rows[i]) /\ rows[i].cloud = n}
        byWord == {i \in Id : Exists(rows[i]) /\ rows[i].word = word}
    IN  IF byClient # {} THEN byClient ELSE IF byCloud # {} THEN byCloud ELSE byWord

Merged(n, copy) == [status |-> "synced", word |-> copy.word, cid |-> n, cloud |-> n,
                    deleted |-> FALSE, ts |-> copy.ts]

Upsert(n, copy) ==
    \/ \E i \in SameEntry(n, copy.word) :
          /\ rows' = [rows EXCEPT ![i] = Merged(n, copy)]
          /\ UNCHANGED usedIds
    \/ /\ SameEntry(n, copy.word) = {}
       /\ usedIds # Id
       /\ rows' = [rows EXCEPT ![NextId] = Merged(n, copy)]
       /\ usedIds' = usedIds \cup {NextId}

\* UNIQUE(word): the merge would spell its row like another one.
Collides(n, copy) ==
    \E i \in SameEntry(n, copy.word) : \E j \in Id \ {i} :
        Exists(rows[j]) /\ rows[j].word = copy.word

-----------------------------------------------------------------------------
(* The user (applyDictionaryChanges, setDictionary): rows are found by      *)
(* toLowerCase, the last one of a key wins in _dictionaryRows.              *)

Event == acts + faults + crossed < MaxEvents

Act ==
    /\ Event
    /\ acts' = acts + 1
    /\ clock' = clock + 1

OfKey(k) == {i \in Id : Exists(rows[i]) /\ Key[rows[i].word] = k}
Last(S) == {i \in S : \A j \in S : j <= i}

\* A word no row has.
AddNew(w) ==
    /\ Act
    /\ OfKey(Key[w]) = {}
    /\ usedIds # Id
    /\ \E n \in Ident \ usedIdents :
          /\ rows' = [rows EXCEPT ![NextId] =
                 [status |-> "pending", word |-> w, cid |-> n, cloud |-> NoIdent,
                  deleted |-> FALSE, ts |-> clock]]
          /\ usedIds' = usedIds \cup {NextId}
          /\ usedIdents' = usedIdents \cup {n}
    /\ UNCHANGED <<cloud, sync, cursor, faults, history>>

\* restore of a tombstone, or another spelling or source of a word (updateWord,
\* promoteSource).
AddAgain(w) ==
    /\ Act
    /\ \E i \in Last(OfKey(Key[w])) :
          rows' = [rows EXCEPT ![i] = [@ EXCEPT !.status = "pending", !.deleted = FALSE,
                                                !.word = w, !.ts = clock]]
    /\ UNCHANGED <<cloud, sync, cursor, used, faults, history>>

\* _deleteDictionaryRow: a row that never reached the cloud goes, another becomes
\* a tombstone.
Removed(r) ==
    CASE ~Exists(r) \/ r.deleted -> r
      [] r.cloud = NoIdent -> NoRow
      [] OTHER -> [r EXCEPT !.status = "pending", !.deleted = TRUE, !.ts = clock]

\* The row a delta names, or every row of the key (setDictionary without it).
Remove(k) ==
    /\ Act
    /\ \E gone \in {OfKey(k), Last(OfKey(k))} :
          /\ \E i \in gone : ~rows[i].deleted
          /\ rows' = [i \in Id |-> IF i \in gone THEN Removed(rows[i]) ELSE rows[i]]
    /\ UNCHANGED <<cloud, sync, cursor, used, faults, history>>

-----------------------------------------------------------------------------
(* The cloud and the other devices (external).  A key has one live entry.   *)

WordTaken(w, n) == \E m \in Ident \ {n} : Live(m) /\ Key[cloud[m].word] = Key[w]
Stored(w) == [life |-> "live", word |-> w, ts |-> clock]

PeerAdds(n, w) ==
    /\ Act
    /\ n \notin usedIdents
    /\ ~WordTaken(w, n)
    /\ cloud' = [cloud EXCEPT ![n] = Stored(w)]
    /\ usedIdents' = usedIdents \cup {n}
    /\ UNCHANGED <<rows, sync, cursor, usedIds, faults, history>>

\* Another spelling or source.
PeerEdits(n, w) ==
    /\ Act
    /\ Live(n)
    /\ Key[w] = Key[cloud[n].word]
    /\ cloud' = [cloud EXCEPT ![n] = Stored(w)]
    /\ UNCHANGED <<rows, sync, cursor, used, faults, history>>

\* A deletion leaves a tombstone the list names, until it is purged.
PeerRemoves(n) ==
    /\ Act
    /\ Live(n)
    /\ \E life \in {"dead", "purged"} :
          cloud' = [cloud EXCEPT ![n] = [@ EXCEPT !.life = life, !.ts = clock]]
    /\ UNCHANGED <<rows, sync, cursor, used, faults, history>>

-----------------------------------------------------------------------------
(* pushPendingDictionary.                                                  *)

Listed(Wanted(_)) == [i \in Id |-> IF Wanted(rows[i]) THEN rows[i] ELSE NoRow]
Free(x) == sync[x].flight = NoFlight
Updates(x) == {i \in Id : Exists(sync[x].todo[i]) /\ sync[x].todo[i].cloud # NoIdent}
Creates(x) == {i \in Id : Exists(sync[x].todo[i]) /\ sync[x].todo[i].cloud = NoIdent}

\* A sync of this window begins: `syncing` keeps out another one of the window,
\* nothing keeps out those of other windows.
Start(x) ==
    /\ sync[x].phase = "idle"
    /\ sync' = [sync EXCEPT ![x].phase = "push", ![x].todo = Listed(PendingWord)]
    /\ IF \A y \in Window \ {x} : sync[y].phase = "idle"
         THEN UNCHANGED crossed
         ELSE Event /\ crossed' = crossed + 1
    /\ UNCHANGED <<rows, cloud, clock, cursor, used, acts, faults, mine>>

\* The cloud handles the PATCH of a listed row.
PatchArrives(x, i) ==
    /\ sync[x].phase = "push"
    /\ Free(x)
    /\ i \in Updates(x)
    /\ LET sent == sync[x].todo[i]
           n == sent.cloud
       IN /\ sync' = [sync EXCEPT
                 ![x].flight = [op |-> "patch", id |-> i, n |-> n, found |-> Live(n)],
                 ![x].todo = [@ EXCEPT ![i] = NoRow]]
          /\ IF Live(n)
               THEN /\ cloud' = [cloud EXCEPT ![n] = Stored(sent.word)]
                    /\ clock' = clock + 1
               ELSE UNCHANGED <<cloud, clock>>
    /\ UNCHANGED <<rows, cursor, used, acts, faults, history>>

\* Its answer settles the row as it is by now; a 404 clears its cloud id.
PatchAnswered(x) ==
    /\ sync[x].flight.op = "patch"
    /\ sync' = [sync EXCEPT ![x].flight = NoFlight]
    /\ LET i == sync[x].flight.id
           found == sync[x].flight.found
       IN \/ /\ found
             /\ IF Markable(rows[i]) THEN MarkSynced(i, sync[x].flight.n) ELSE UNCHANGED rows
          \/ /\ ~found
             /\ Exists(rows[i])
             /\ ClearCloudId(i)
          \/ /\ ~found
             /\ ~Exists(rows[i])
             /\ UNCHANGED rows
    /\ UNCHANGED <<cloud, clock, cursor, used, acts, faults, history>>

\* The cloud handles the batch of creates: an entry per row, unless another
\* entry holds its word.
CreatesArrive(x) ==
    /\ sync[x].phase = "push"
    /\ Free(x)
    /\ Updates(x) = {}
    /\ Creates(x) # {}
    /\ LET todo == sync[x].todo
           done == {i \in Creates(x) : ~WordTaken(todo[i].word, todo[i].cid)}
           Source(n) == CHOOSE i \in done : todo[i].cid = n
           new == {todo[i].cid : i \in done}
       IN /\ sync' = [sync EXCEPT ![x].made = done, ![x].phase = "acks"]
          /\ cloud' = [n \in Ident |-> IF n \in new THEN Stored(todo[Source(n)].word) ELSE cloud[n]]
          /\ mine' = mine \cup new
          /\ clock' = IF done = {} THEN clock ELSE clock + 1
    /\ UNCHANGED <<rows, cursor, used, acts, faults, crossed>>

\* Mutant: an acknowledgement that settles no row is ignored.
CreateAnsweredBlind(x, i) ==
    /\ sync[x].phase = "acks"
    /\ Free(x)
    /\ i \in sync[x].made
    /\ sync' = [sync EXCEPT ![x].made = @ \ {i}]
    /\ IF Markable(rows[i]) THEN MarkSynced(i, sync[x].todo[i].cid) ELSE UNCHANGED rows
    /\ UNCHANGED <<cloud, clock, cursor, used, acts, faults, history>>

\* One created row is settled; if it was removed meanwhile, its entry is
\* deleted again.
CreateAnswered(x, i) ==
    /\ sync[x].phase = "acks"
    /\ Free(x)
    /\ i \in sync[x].made
    /\ LET n == sync[x].todo[i].cid IN
          \/ /\ Markable(rows[i])
             /\ MarkSynced(i, n)
             /\ sync' = [sync EXCEPT ![x].made = @ \ {i}]
          \/ /\ ~Markable(rows[i])
             /\ sync' = [sync EXCEPT ![x].made = @ \ {i},
                    ![x].flight = [op |-> "cleanup", id |-> i, n |-> n, found |-> TRUE]]
             /\ UNCHANGED rows
    /\ UNCHANGED <<cloud, clock, cursor, used, acts, faults, history>>

Dead(n) == [cloud[n] EXCEPT !.life = "dead", !.ts = clock]

Cleanup(x) ==
    /\ sync[x].flight.op = "cleanup"
    /\ sync' = [sync EXCEPT ![x].flight = NoFlight]
    /\ LET n == sync[x].flight.n IN
          cloud' = [cloud EXCEPT ![n] = IF Live(n) THEN Dead(n) ELSE @]
    /\ clock' = clock + 1
    /\ UNCHANGED <<rows, cursor, used, acts, faults, history>>

-----------------------------------------------------------------------------
(* pushDictionaryDeletes.                                                  *)

ListDeletes(x) ==
    /\ Free(x)
    /\ \/ sync[x].phase = "push" /\ sync[x].todo = Empty
       \/ sync[x].phase = "acks" /\ sync[x].made = {}
    /\ sync' = [sync EXCEPT ![x].phase = "deletes", ![x].todo = Listed(PendingDelete)]
    /\ UNCHANGED <<rows, cloud, clock, cursor, used, acts, faults, history>>

DeleteArrives(x, i) ==
    /\ sync[x].phase = "deletes"
    /\ Free(x)
    /\ Exists(sync[x].todo[i])
    /\ LET n == sync[x].todo[i].cloud IN
          /\ sync' = [sync EXCEPT
                 ![x].flight = [op |-> "delete", id |-> i, n |-> n, found |-> Live(n)],
                 ![x].todo = [@ EXCEPT ![i] = NoRow]]
          /\ cloud' = [cloud EXCEPT ![n] = IF Live(n) THEN Dead(n) ELSE @]
          /\ clock' = IF Live(n) THEN clock + 1 ELSE clock
    /\ UNCHANGED <<rows, cursor, used, acts, faults, history>>

\* Deleted or already gone: the row is removed whatever it is by now.
DeleteAnswered(x) ==
    /\ sync[x].flight.op = "delete"
    /\ sync' = [sync EXCEPT ![x].flight = NoFlight]
    /\ HardDelete(sync[x].flight.id)
    /\ UNCHANGED <<cloud, clock, cursor, used, acts, faults, history>>

-----------------------------------------------------------------------------
(* pullDictionary.                                                         *)

ListPage(x) ==
    /\ sync[x].phase = "deletes"
    /\ Free(x)
    /\ sync[x].todo = Empty
    /\ sync' = [sync EXCEPT
           ![x].phase = "pull",
           ![x].page = [n \in Ident |->
               IF cloud[n].life \in {"live", "dead"} /\ cloud[n].ts > cursor
                 THEN cloud[n] ELSE NoEntry],
           ![x].top = cursor]
    /\ UNCHANGED <<rows, cloud, clock, cursor, used, acts, faults, history>>

OnPage(x, n) == sync[x].page[n].life # "none"

\* getDictionaryByClientId for the next listed entry.
PullReads(x, n) ==
    /\ sync[x].phase = "pull"
    /\ sync[x].read = NotRead
    /\ OnPage(x, n)
    /\ \A m \in Ident : OnPage(x, m) => sync[x].page[n].ts <= sync[x].page[m].ts
    /\ LET local == {i \in Id : Exists(rows[i]) /\ rows[i].cid = n} IN
          \/ /\ local = {}
             /\ sync' = [sync EXCEPT ![x].read = [n |-> n, id |-> 0, ts |-> 0]]
          \/ \E i \in local :
                sync' = [sync EXCEPT ![x].read = [n |-> n, id |-> i, ts |-> rows[i].ts]]
    /\ UNCHANGED <<rows, cloud, clock, cursor, used, acts, faults, history>>

\* Last writer wins: the entry is unknown here or newer than the row read.
Newer(x) ==
    LET read == sync[x].read IN read.id = 0 \/ sync[x].page[read.n].ts > read.ts

\* Deletions always apply, an entry when it is unknown or newer; only entries move
\* the cursor.
PullMerges(x) ==
    /\ sync[x].phase = "pull"
    /\ sync[x].read # NotRead
    /\ LET n == sync[x].read.n
           i == sync[x].read.id
           copy == sync[x].page[n]
       IN /\ \/ /\ copy.life = "dead"
                /\ IF i # 0 THEN HardDelete(i) ELSE UNCHANGED rows
                /\ UNCHANGED usedIds
             \/ /\ copy.life = "live"
                /\ Newer(x)
                /\ Upsert(n, copy)
             \/ /\ copy.life = "live"
                /\ ~Newer(x)
                /\ UNCHANGED <<rows, usedIds>>
          /\ sync' = [sync EXCEPT
                 ![x].page = [@ EXCEPT ![n] = NoEntry],
                 ![x].read = NotRead,
                 ![x].top = IF copy.life = "live" /\ copy.ts > @ THEN copy.ts ELSE @]
    /\ UNCHANGED <<cloud, clock, cursor, usedIdents, acts, faults, history>>

\* The update of the row throws: the pull ends and its cursor is lost.
PullThrows(x) ==
    /\ sync[x].phase = "pull"
    /\ sync[x].read # NotRead
    /\ LET n == sync[x].read.n
           copy == sync[x].page[n]
       IN copy.life = "live" /\ Newer(x) /\ Collides(n, copy)
    /\ sync' = [sync EXCEPT ![x] = Idle]
    /\ UNCHANGED <<rows, cloud, clock, cursor, used, acts, faults, history>>

PullEnds(x) ==
    /\ sync[x].phase = "pull"
    /\ sync[x].read = NotRead
    /\ \A n \in Ident : ~OnPage(x, n)
    /\ sync' = [sync EXCEPT ![x] = Idle]
    /\ cursor' = sync[x].top
    /\ UNCHANGED <<rows, cloud, clock, used, acts, faults, history>>

-----------------------------------------------------------------------------
(* Faults: the error is logged and the row stays as it is.                 *)

Fault ==
    /\ Event
    /\ faults' = faults + 1

RequestLost(x, i) ==
    /\ Fault
    /\ Free(x)
    /\ \/ sync[x].phase = "push" /\ i \in Updates(x)
       \/ sync[x].phase = "deletes" /\ Exists(sync[x].todo[i])
    /\ sync' = [sync EXCEPT ![x].todo = [@ EXCEPT ![i] = NoRow]]
    /\ UNCHANGED <<rows, cloud, clock, cursor, used, acts, history>>

\* The batch create fails as a whole, before or after the cloud handled it.
BatchLost(x) ==
    /\ Fault
    /\ Free(x)
    /\ \/ sync[x].phase = "push" /\ Updates(x) = {} /\ Creates(x) # {}
       \/ sync[x].phase = "acks" /\ sync[x].made # {}
    /\ sync' = [sync EXCEPT ![x].phase = "push", ![x].todo = Empty, ![x].made = {}]
    /\ UNCHANGED <<rows, cloud, clock, cursor, used, acts, history>>

AnswerLost(x) ==
    /\ Fault
    /\ ~Free(x)
    /\ sync' = [sync EXCEPT ![x].flight = NoFlight]
    /\ UNCHANGED <<rows, cloud, clock, cursor, used, acts, history>>

\* The renderer reloads, or the list request fails: the pull's cursor is lost.
Reload(x) ==
    /\ Fault
    /\ sync[x].phase # "idle"
    /\ sync' = [sync EXCEPT ![x] = Idle]
    /\ UNCHANGED <<rows, cloud, clock, cursor, used, acts, history>>

-----------------------------------------------------------------------------
User ==
    \/ \E w \in Word : AddNew(w) \/ AddAgain(w)
    \/ \E k \in {Key[w] : w \in Word} : Remove(k)

Peer ==
    \/ \E n \in Ident, w \in Word : PeerAdds(n, w) \/ PeerEdits(n, w)
    \/ \E n \in Ident : PeerRemoves(n)

Sync(x) ==
    \/ Start(x)
    \/ \E i \in Id : PatchArrives(x, i) \/ CreateAnswered(x, i) \/ DeleteArrives(x, i)
    \/ PatchAnswered(x)
    \/ CreatesArrive(x)
    \/ Cleanup(x)
    \/ ListDeletes(x)
    \/ DeleteAnswered(x)
    \/ ListPage(x)
    \/ \E n \in Ident : PullReads(x, n)
    \/ PullMerges(x)
    \/ PullThrows(x)
    \/ PullEnds(x)

Broken(x) ==
    \/ \E i \in Id : RequestLost(x, i)
    \/ BatchLost(x)
    \/ AnswerLost(x)
    \/ Reload(x)

Next == User \/ Peer \/ \E x \in Window : Sync(x) \/ Broken(x)

Spec == Init /\ [][Next]_vars

\* Syncs of every window keep being started and go on.
FairSpec == Spec /\ \A x \in Window : WF_vars(Sync(x))

-----------------------------------------------------------------------------
(* Properties.                                                             *)

\* Words SQLite and JavaScript fold alike: no other word has their key.
FoldedAlike(w) == \A v \in Word : Key[v] = Key[w] => v = w

\* Two rows never stand for one word that both fold alike, whatever creates,
\* pulls, merges by word, removals and additions of several windows and devices
\* cross (upsertDictionaryFromCloud resolves by client id, cloud id and word; the
\* user's changes by toLowerCase).
OneRowPerWord ==
    \A i, j \in Id :
        Exists(rows[i]) /\ Exists(rows[j]) /\ i # j /\ FoldedAlike(rows[i].word)
            => rows[i].word # rows[j].word

\* A removed word whose entry still lives in the cloud stays queued for the
\* delete push: no late answer settles the tombstone (the guard of
\* markDictionaryEntrySynced).
TombstonesQueued ==
    \A i \in Id :
        Exists(rows[i]) /\ rows[i].deleted /\ rows[i].cloud # NoIdent
        /\ Live(rows[i].cloud) => PendingDelete(rows[i])

\* Before the deletes are sent and the pull lists the cloud again, if no request
\* was lost and no two windows have synced at once, every entry this installation
\* created belongs to one of its rows: a create that crossed the removal of its
\* row leaves nothing in the cloud for the pull to bring back (the cleanup of
\* pushPendingDictionary).
NoOrphan ==
    faults = 0 /\ crossed = 0 /\ (\E x \in Window : sync[x].phase = "deletes") =>
        \A n \in mine : Live(n) => \E i \in Id : Exists(rows[i]) /\ rows[i].cloud = n

\* Whatever happens, there comes a time again at which no word waits to be
\* pushed, also when the cloud has lost its entry, but those the cloud refuses
\* because another live entry holds the word (batchCreate leaves them unmatched).
PendingResolves ==
    []<>(\A i \in Id : PendingWord(rows[i]) => WordTaken(rows[i].word, rows[i].cid))
=============================================================================
