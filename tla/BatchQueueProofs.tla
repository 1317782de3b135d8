-------------------------- MODULE BatchQueueProofs --------------------------
(* Stale runs do no harm: for any items, settings, runs and repeats, the     *)
(* queue is shown as processing exactly while its current run works, Cancel  *)
(* reaches what that run has asked main for, and what was settled stays so.  *)
EXTENDS BatchQueue, TLAPS

Begun ==
    /\ \A r \in Run : loop[r].at = "unborn" <=> r > starts
    /\ current # None => current <= starts

Held ==
    \A r \in Run :
        /\ loop[r].at \in Busy => loop[r].item \in Item
        /\ loop[r].at \in Busy \cup {"next"} => loop[r].lane \in Lanes

\* One continuation is pending at a time.
Alone ==
    \A q, r \in Run : loop[q].at \in {"next", "sizing"} /\ loop[r].at \in {"next", "sizing"} => q = r

\* Runs never work on the same item.
Apart ==
    \A q, r \in Run :
        loop[q].at \in Busy /\ loop[r].at \in Busy /\ loop[q].item = loop[r].item => q = r

\* An item that was taken is never waiting again, and the current run shows what it does.
Labelled ==
    \A r \in Run :
        /\ loop[r].at \in Busy \ {"sizing"} => status[loop[r].item] \notin {"absent", "queued"}
        /\ current = r =>
              /\ loop[r].at = "downloading" => status[loop[r].item] = "downloading"
              /\ loop[r].at = "sizing" => status[loop[r].item] \in {"queued", "downloading"}
              /\ loop[r].at \in {"transcribing", "merging", "titling", "saving"} =>
                    status[loop[r].item] = "transcribing"

BatchInv == TypeOK /\ Begun /\ Held /\ Alone /\ Apart /\ Labelled /\ DrainIsCurrent /\ CancelReaches

-----------------------------------------------------------------------------
\* How a run that moves leaves the loops.
LEMMA GoesMoves ==
  ASSUME TypeOK, NEW r \in Run, NEW place \in Places, Goes(r, place)
  PROVE  /\ loop' \in [Run -> [at: Places, item: Item \cup {None}, lane: Lanes \cup {None}]]
         /\ loop'[r].at = place /\ loop'[r].item = loop[r].item /\ loop'[r].lane = loop[r].lane
         /\ \A q \in Run \ {r} : loop'[q] = loop[q]
  <1>1. loop[r] \in [at: Places, item: Item \cup {None}, lane: Lanes \cup {None}]
    BY DEF TypeOK
  <1>2. loop'[r] = [loop[r] EXCEPT !.at = place]
    BY DEF Goes, TypeOK
  <1>3. \A q \in Run \ {r} : loop'[q] = loop[q]
    BY DEF Goes, TypeOK
  <1>4. /\ loop'[r] \in [at: Places, item: Item \cup {None}, lane: Lanes \cup {None}]
        /\ loop'[r].at = place /\ loop'[r].item = loop[r].item /\ loop'[r].lane = loop[r].lane
    BY <1>1, <1>2
  <1>5. loop' \in [Run -> [at: Places, item: Item \cup {None}, lane: Lanes \cup {None}]]
    BY <1>3, <1>4 DEF Goes, TypeOK
  <1>6. QED BY <1>3, <1>4, <1>5

\* What holds of the loops when a busy run moves on, before its labels are looked at.
LEMMA MoveKeepsLoops ==
  ASSUME BatchInv, NEW r \in Run, NEW place \in {"next"} \cup Busy, loop[r].at \in Busy, Goes(r, place),
         Quiet \/ loop[r].at = "sizing", UNCHANGED <<starts, current>>
  PROVE  /\ Begun' /\ Held' /\ Alone' /\ Apart'
         /\ loop' \in [Run -> [at: Places, item: Item \cup {None}, lane: Lanes \cup {None}]]
         /\ loop'[r].at = place /\ loop'[r].item = loop[r].item /\ loop'[r].lane = loop[r].lane
         /\ \A q \in Run \ {r} : loop'[q] = loop[q]
  <1>1. place \in Places
    BY DEF Places, Busy
  <1>2. /\ loop' \in [Run -> [at: Places, item: Item \cup {None}, lane: Lanes \cup {None}]]
        /\ loop'[r].at = place /\ loop'[r].item = loop[r].item /\ loop'[r].lane = loop[r].lane
        /\ \A q \in Run \ {r} : loop'[q] = loop[q]
    BY <1>1, GoesMoves DEF BatchInv
  <1>3. Begun'
    BY <1>2 DEF BatchInv, Begun, Busy
  <1>4. Held'
    BY <1>2 DEF BatchInv, Held
  <1>5. Alone'
    <2>1. \A q \in Run \ {r} : loop[q].at \notin {"next", "sizing"}
      BY DEF BatchInv, Alone, Quiet
    <2>2. QED BY <1>2, <2>1 DEF Alone
  <1>6. Apart'
    BY <1>2 DEF BatchInv, Apart
  <1>7. QED BY <1>2, <1>3, <1>4, <1>5, <1>6

LEMMA InitInv == Init => BatchInv
  <1> SUFFICES ASSUME Init PROVE BatchInv
    OBVIOUS
  <1>1. \A r \in Run : loop[r] = Idle("unborn")
    BY DEF Init
  <1>2. TypeOK
    <2>1. Idle("unborn") \in [at: Places, item: Item \cup {None}, lane: Lanes \cup {None}]
      BY DEF Idle, Places
    <2>2. loop \in [Run -> [at: Places, item: Item \cup {None}, lane: Lanes \cup {None}]]
      BY <2>1 DEF Init
    <2>3. op \in [Item -> [Job -> {"none", "running", "aborted", "ok", "failed", "thrown", "expired"}]]
      BY DEF Init
    <2>4. registered \in [Item -> SUBSET Job]
      BY DEF Init
    <2>5. retries \in [Item -> 0..MaxRetries] /\ starts \in 0..MaxRuns
      BY Bounds DEF Init
    <2>6. order \in Seq(Item)
      BY DEF Init
    <2>7. status \in [Item -> {"absent", "queued", "downloading", "transcribing", "done", "error", "gone"}]
      BY DEF Init
    <2>8. download \in [Item -> {"none", "running", "aborted", "ok", "failed"}]
      BY DEF Init
    <2>9. QED BY <2>2, <2>3, <2>4, <2>5, <2>6, <2>7, <2>8 DEF Init, TypeOK
  <1>3. Begun
    BY <1>1, Bounds DEF Init, Begun, Idle, Run
  <1>4. Held /\ Alone /\ Apart /\ Labelled
    BY <1>1 DEF Held, Alone, Apart, Labelled, Idle, Busy
  <1>5. DrainIsCurrent /\ CancelReaches
    BY <1>1, ItemsDiffer DEF Init, DrainIsCurrent, CancelReaches, Idle
  <1>6. QED BY <1>2, <1>3, <1>4, <1>5 DEF BatchInv

LEMMA AddKeeps ==
  ASSUME BatchInv, NEW i \in Item, AddItem(i)
  PROVE  BatchInv'
  <1>1. TypeOK'
    <2>1. order' \in Seq(Item)
      BY DEF AddItem, BatchInv, TypeOK
    <2>2. status' \in [Item -> {"absent", "queued", "downloading", "transcribing", "done", "error", "gone"}]
      BY DEF AddItem, BatchInv, TypeOK
    <2>3. QED BY <2>1, <2>2 DEF AddItem, BatchInv, TypeOK, uiVars, loopVars, mainVars
  <1>2. Begun' /\ Held' /\ Alone' /\ Apart' /\ DrainIsCurrent'
    BY DEF AddItem, BatchInv, Begun, Held, Alone, Apart, DrainIsCurrent, loopVars
  <1>3. CancelReaches'
    BY DEF AddItem, BatchInv, CancelReaches, loopVars, mainVars, Unregistered
  <1>4. Labelled'
    BY DEF AddItem, BatchInv, Labelled, TypeOK, Held, loopVars, Quiet, Busy
  <1>5. QED BY <1>1, <1>2, <1>3, <1>4 DEF BatchInv

LEMMA RemoveKeeps ==
  ASSUME BatchInv, NEW i \in Item, RemoveQueueItem(i)
  PROVE  BatchInv'
  <1>1. TypeOK'
    <2>1. status' \in [Item -> {"absent", "queued", "downloading", "transcribing", "done", "error", "gone"}]
      BY DEF RemoveQueueItem, BatchInv, TypeOK
    <2>2. QED BY <2>1 DEF RemoveQueueItem, BatchInv, TypeOK, loopVars, mainVars
  <1>2. Begun' /\ Held' /\ Alone' /\ Apart' /\ DrainIsCurrent'
    BY DEF RemoveQueueItem, BatchInv, Begun, Held, Alone, Apart, DrainIsCurrent, loopVars
  <1>3. CancelReaches'
    BY DEF RemoveQueueItem, BatchInv, CancelReaches, loopVars, mainVars, Unregistered
  <1>4. Labelled'
    BY DEF RemoveQueueItem, BatchInv, Labelled, TypeOK, Held, loopVars, Quiet, Busy
  <1>5. QED BY <1>1, <1>2, <1>3, <1>4 DEF BatchInv

LEMMA CancelKeeps ==
  ASSUME BatchInv, CancelBatch
  PROVE  BatchInv'
  <1>1. TypeOK'
    <2>1. status' \in [Item -> {"absent", "queued", "downloading", "transcribing", "done", "error", "gone"}]
      BY DEF CancelBatch, BatchInv, TypeOK
    <2>2. download' \in [Item -> {"none", "running", "aborted", "ok", "failed"}]
      BY DEF CancelBatch, AbortDownloads, Aborted, BatchInv, TypeOK
    <2>3. op' \in [Item -> [Job -> {"none", "running", "aborted", "ok", "failed", "thrown", "expired"}]]
      BY DEF CancelBatch, AbortUpload, Aborted, BatchInv, TypeOK
    <2>4. registered' \in [Item -> SUBSET Job]
      BY DEF CancelBatch, AbortUpload, BatchInv, TypeOK
    <2>5. QED BY <2>1, <2>2, <2>3, <2>4 DEF CancelBatch, AbortDownloads, BatchInv, TypeOK, loopVars
  <1>2. Begun' /\ Held' /\ Alone' /\ Apart'
    BY DEF CancelBatch, BatchInv, Begun, Held, Alone, Apart, loopVars
  <1>3. DrainIsCurrent' /\ CancelReaches'
    BY ItemsDiffer DEF CancelBatch, DrainIsCurrent, CancelReaches
  <1>4. Labelled'
    BY ItemsDiffer DEF CancelBatch, BatchInv, Labelled, TypeOK, Held, loopVars, Busy, Shown, Settled
  <1>5. QED BY <1>1, <1>2, <1>3, <1>4 DEF BatchInv

LEMMA ClearKeeps ==
  ASSUME BatchInv, ClearBatchQueue
  PROVE  BatchInv'
  <1>1. TypeOK'
    <2>1. status' \in [Item -> {"absent", "queued", "downloading", "transcribing", "done", "error", "gone"}]
      BY DEF ClearBatchQueue, BatchInv, TypeOK
    <2>2. QED BY <2>1 DEF ClearBatchQueue, BatchInv, TypeOK, loopVars, mainVars
  <1>2. Begun' /\ Held' /\ Alone' /\ Apart'
    BY DEF ClearBatchQueue, BatchInv, Begun, Held, Alone, Apart, loopVars
  <1>3. DrainIsCurrent' /\ CancelReaches'
    BY ItemsDiffer DEF ClearBatchQueue, DrainIsCurrent, CancelReaches
  <1>4. Labelled'
    BY ItemsDiffer DEF ClearBatchQueue, BatchInv, Labelled, TypeOK, Held, loopVars, Busy, Shown, Settled
  <1>5. QED BY <1>1, <1>2, <1>3, <1>4 DEF BatchInv

LEMMA StartKeeps ==
  ASSUME BatchInv, ProcessBatchQueue
  PROVE  BatchInv'
  <1> DEFINE s == starts + 1
  <1>1. /\ s \in Run /\ starts' = s /\ current' = s /\ s > starts
        /\ loop[s].at = "unborn"
    BY Bounds DEF ProcessBatchQueue, BatchInv, TypeOK, Run, Begun
  <1>2. PICK lane \in Lanes :
            loop' = [loop EXCEPT ![s] = [at |-> "next", item |-> None, lane |-> lane]]
    BY DEF ProcessBatchQueue
  <1>3. /\ loop' \in [Run -> [at: Places, item: Item \cup {None}, lane: Lanes \cup {None}]]
        /\ loop'[s].at = "next" /\ loop'[s].lane = lane
        /\ \A q \in Run \ {s} : loop'[q] = loop[q]
    BY <1>1, <1>2 DEF BatchInv, TypeOK, Places
  <1>4. TypeOK'
    <2>1. starts' \in 0..MaxRuns
      BY <1>1, Bounds DEF Run
    <2>2. QED BY <1>1, <1>3, <2>1 DEF ProcessBatchQueue, BatchInv, TypeOK, mainVars
  <1>5. Begun'
    <2>1. \A q \in Run \ {s} : q > starts <=> q > s
      BY <1>1 DEF Run, BatchInv, TypeOK
    <2>2. QED BY <1>1, <1>3, <2>1 DEF BatchInv, Begun, Run
  <1>6. Held' /\ Apart'
    BY <1>3 DEF BatchInv, Held, Apart, Busy
  <1>7. Alone'
    BY <1>3 DEF ProcessBatchQueue, Alone, Quiet
  <1>8. Labelled'
    BY <1>1, <1>3 DEF ProcessBatchQueue, BatchInv, Labelled, Busy
  <1>9. DrainIsCurrent' /\ CancelReaches'
    BY <1>1, <1>3, ItemsDiffer DEF ProcessBatchQueue, DrainIsCurrent, CancelReaches
  <1>10. QED BY <1>4, <1>5, <1>6, <1>7, <1>8, <1>9 DEF BatchInv

LEMMA StartsItemKeeps ==
  ASSUME BatchInv, NEW r \in Run, loop[r].at = "next", current = r, NEW i \in Item, status[i] = "queued",
         StartsItem(r, i), UNCHANGED <<order, current, active, starts, op, registered, temp, retries, saved>>
  PROVE  BatchInv'
  <1> DEFINE place == IF i \in Url THEN "downloading" ELSE "sizing"
  <1>1. /\ loop' \in [Run -> [at: Places, item: Item \cup {None}, lane: Lanes \cup {None}]]
        /\ loop'[r].at = place /\ loop'[r].item = i /\ loop'[r].lane = loop[r].lane
        /\ \A q \in Run \ {r} : loop'[q] = loop[q]
    <2>1. loop[r] \in [at: Places, item: Item \cup {None}, lane: Lanes \cup {None}]
      BY DEF BatchInv, TypeOK
    <2>2. loop'[r] = [loop[r] EXCEPT !.item = i, !.at = place]
      BY DEF StartsItem, BatchInv, TypeOK
    <2>3. \A q \in Run \ {r} : loop'[q] = loop[q]
      BY DEF StartsItem, BatchInv, TypeOK
    <2>4. /\ loop'[r] \in [at: Places, item: Item \cup {None}, lane: Lanes \cup {None}]
          /\ loop'[r].at = place /\ loop'[r].item = i /\ loop'[r].lane = loop[r].lane
      BY <2>1, <2>2 DEF Places
    <2>5. loop' \in [Run -> [at: Places, item: Item \cup {None}, lane: Lanes \cup {None}]]
      BY <2>3, <2>4 DEF StartsItem, BatchInv, TypeOK
    <2>6. QED BY <2>3, <2>4, <2>5
  <1>2. \A q \in Run \ {r} : loop[q].at \notin {"next", "sizing"}
    BY DEF BatchInv, Alone
  <1>3. \A q \in Run \ {r} : loop[q].at \in Busy => loop[q].item # i
    BY <1>2 DEF BatchInv, Labelled, Busy
  <1>4. TypeOK'
    <2>1. status' \in [Item -> {"absent", "queued", "downloading", "transcribing", "done", "error", "gone"}]
      <3>1. status \in [Item -> {"absent", "queued", "downloading", "transcribing", "done", "error", "gone"}]
        BY DEF BatchInv, TypeOK
      <3>2. status' = [status EXCEPT ![i] = "downloading"] \/ status' = status
        BY DEF StartsItem
      <3>3. QED BY <3>1, <3>2
    <2>2. download' \in [Item -> {"none", "running", "aborted", "ok", "failed"}] /\ downloads' \subseteq Item
      <3>1. CASE i \in Url
        BY <3>1 DEF StartsItem, BatchInv, TypeOK
      <3>2. CASE i \notin Url
        BY <3>2 DEF StartsItem, BatchInv, TypeOK
      <3>3. QED BY <3>1, <3>2
    <2>3. QED BY <1>1, <2>1, <2>2 DEF StartsItem, BatchInv, TypeOK
  <1>5. Begun' /\ Held'
    BY <1>1 DEF BatchInv, Begun, Held, Busy
  <1>6. Alone'
    BY <1>1, <1>2 DEF Alone
  <1>7. Apart'
    BY <1>1, <1>3 DEF BatchInv, Apart
  <1>8. Labelled'
    <2>1. \A x \in Item \ {i} : status'[x] = status[x]
      BY DEF StartsItem, BatchInv, TypeOK
    <2>2. status'[i] = IF i \in Url THEN "downloading" ELSE "queued"
      BY DEF StartsItem, BatchInv, TypeOK
    <2>3. ASSUME NEW q \in Run \ {r}
          PROVE  loop'[q].at \in Busy \ {"sizing"} => status'[loop'[q].item] \notin {"absent", "queued"}
      BY <1>1, <1>3, <2>1 DEF BatchInv, Labelled, Held
    <2>4. QED BY <1>1, <2>2, <2>3 DEF Labelled, Busy
  <1>9. DrainIsCurrent' /\ CancelReaches'
    BY <1>1, ItemsDiffer DEF StartsItem, BatchInv, DrainIsCurrent, CancelReaches, Busy
  <1>10. QED BY <1>4, <1>5, <1>6, <1>7, <1>8, <1>9 DEF BatchInv

LEMMA EndsRunKeeps ==
  ASSUME BatchInv, NEW r \in Run, loop[r].at = "next", EndsRun(r),
         UNCHANGED <<order, current, active, starts, op, registered, temp, retries, saved>>
  PROVE  BatchInv'
  <1>1. /\ loop' \in [Run -> [at: Places, item: Item \cup {None}, lane: Lanes \cup {None}]]
        /\ loop'[r].at = "ended"
        /\ \A q \in Run \ {r} : loop'[q] = loop[q]
    <2>1. Idle("ended") \in [at: Places, item: Item \cup {None}, lane: Lanes \cup {None}]
            /\ Idle("ended").at = "ended"
      BY DEF Idle, Places
    <2>2. QED BY <2>1 DEF EndsRun, BatchInv, TypeOK
  <1>2. TypeOK'
    BY <1>1 DEF EndsRun, BatchInv, TypeOK
  <1>3. Begun' /\ Held' /\ Alone' /\ Apart'
    BY <1>1 DEF BatchInv, Begun, Held, Alone, Apart, Busy
  <1>4. Labelled'
    BY <1>1 DEF EndsRun, BatchInv, Labelled, Busy
  <1>5. DrainIsCurrent'
    BY <1>1 DEF EndsRun, BatchInv, TypeOK, DrainIsCurrent, Busy
  <1>6. CancelReaches'
    BY <1>1 DEF BatchInv, CancelReaches, Unregistered
  <1>7. QED BY <1>2, <1>3, <1>4, <1>5, <1>6 DEF BatchInv

LEMMA DrainsKeeps ==
  ASSUME BatchInv, NEW r \in Run, Drains(r)
  PROVE  BatchInv'
  <1>1. CASE current = r /\ Waiting # {}
    <2>1. PICK n \in Waiting : StartsItem(r, order[n])
      BY <1>1 DEF Drains
    <2>2. order[n] \in Item /\ status[order[n]] = "queued"
      BY DEF Waiting, BatchInv, TypeOK
    <2>3. QED BY <1>1, <2>1, <2>2, StartsItemKeeps DEF Drains
  <1>2. CASE ~(current = r /\ Waiting # {})
    BY <1>2, EndsRunKeeps DEF Drains
  <1>3. QED BY <1>1, <1>2

\* What updateItem does to the labels: nothing, for a stale run.
LEMMA UpdatesLabels ==
  ASSUME BatchInv, NEW r \in Run, loop[r].at \in Busy, NEW s \in {"transcribing", "done", "error"},
         Updates(r, s)
  PROVE  /\ status' \in [Item -> {"absent", "queued", "downloading", "transcribing", "done", "error", "gone"}]
         /\ \A x \in Item \ {loop[r].item} : status'[x] = status[x]
         /\ status'[loop[r].item] = IF current = r THEN s ELSE status[loop[r].item]
  BY DEF BatchInv, TypeOK, Held, Updates

\* A run is done with its item, and the queue shows how it ended or does not change.
LEMMA EndOfItem ==
  ASSUME BatchInv, NEW r \in Run, loop[r].at \in Busy, Goes(r, "next"),
         Quiet \/ loop[r].at = "sizing",
         Updates(r, "error") \/ Updates(r, "done") \/ status' = status,
         UNCHANGED <<starts, current, isProcessing>>
  PROVE  /\ Begun' /\ Held' /\ Alone' /\ Apart' /\ Labelled' /\ DrainIsCurrent'
         /\ loop' \in [Run -> [at: Places, item: Item \cup {None}, lane: Lanes \cup {None}]]
         /\ status' \in [Item -> {"absent", "queued", "downloading", "transcribing", "done", "error", "gone"}]
         /\ loop'[r].at = "next"
         /\ \A q \in Run \ {r} : loop'[q] = loop[q]
  <1>1. /\ Begun' /\ Held' /\ Alone' /\ Apart'
        /\ loop' \in [Run -> [at: Places, item: Item \cup {None}, lane: Lanes \cup {None}]]
        /\ loop'[r].at = "next"
        /\ \A q \in Run \ {r} : loop'[q] = loop[q]
    BY MoveKeepsLoops
  <1>2. /\ status' \in [Item -> {"absent", "queued", "downloading", "transcribing", "done", "error", "gone"}]
        /\ \A x \in Item \ {loop[r].item} : status'[x] = status[x]
    BY UpdatesLabels DEF BatchInv, TypeOK
  <1>3. \A q \in Run \ {r} : loop[q].at \in Busy =>
            loop[q].item \in Item \ {loop[r].item} /\ status'[loop[q].item] = status[loop[q].item]
    BY <1>2 DEF BatchInv, Apart, Held
  <1>4. Labelled'
    BY <1>1, <1>3 DEF BatchInv, Labelled, Busy
  <1>5. DrainIsCurrent'
    BY <1>1 DEF BatchInv, TypeOK, DrainIsCurrent
  <1>6. QED BY <1>1, <1>2, <1>4, <1>5

\* A run moves on and keeps its item.
LEMMA NextStepOfItem ==
  ASSUME BatchInv, NEW r \in Run, NEW place \in Busy, loop[r].at \in Busy, Goes(r, place), Quiet,
         loop[r].at = "downloading" => place = "sizing",
         loop[r].at # "downloading" => place \in {"merging", "titling", "saving"},
         UNCHANGED <<starts, current, isProcessing, status>>
  PROVE  /\ Begun' /\ Held' /\ Alone' /\ Apart' /\ Labelled' /\ DrainIsCurrent'
         /\ loop' \in [Run -> [at: Places, item: Item \cup {None}, lane: Lanes \cup {None}]]
         /\ loop'[r].at = place
         /\ \A q \in Run \ {r} : loop'[q] = loop[q]
  <1>1. /\ Begun' /\ Held' /\ Alone' /\ Apart'
        /\ loop' \in [Run -> [at: Places, item: Item \cup {None}, lane: Lanes \cup {None}]]
        /\ loop'[r].at = place /\ loop'[r].item = loop[r].item
        /\ \A q \in Run \ {r} : loop'[q] = loop[q]
    BY MoveKeepsLoops
  <1>2. loop[r].at # "sizing"
    BY DEF Quiet
  <1>3. Labelled'
    BY <1>1, <1>2 DEF BatchInv, Labelled, Busy
  <1>4. DrainIsCurrent'
    BY <1>1 DEF BatchInv, TypeOK, DrainIsCurrent
  <1>5. QED BY <1>1, <1>3, <1>4

\* Steps after which no more run transcribes than before leave Cancel its reach.
LEMMA OthersReached ==
  ASSUME BatchInv, NEW r \in Run, loop[r].at \in Busy, loop'[r].at # "transcribing",
         \A q \in Run \ {r} : loop'[q] = loop[q],
         active' = active \/ active' = Forgotten(loop[r].item),
         \A x \in Item \ {loop[r].item} : op'[x] = op[x],
         UNCHANGED <<current, registered>>
  PROVE  CancelReaches'
  <1>1. SUFFICES ASSUME NEW q \in Run, current = q, loop'[q].at = "transcribing"
                 PROVE  /\ active' = loop'[q].item
                        /\ \A j \in Job \ Unregistered(q)' :
                              op'[loop'[q].item][j] = "running" => j \in registered'[loop'[q].item]
    BY DEF CancelReaches
  <1>2. q # r /\ loop'[q] = loop[q]
    BY <1>1
  <1>3. loop[q].item \in Item \ {loop[r].item}
    BY <1>1, <1>2 DEF BatchInv, Apart, Held, Busy
  <1>4. active' = loop[q].item
    BY <1>1, <1>2, <1>3 DEF BatchInv, CancelReaches, Forgotten
  <1>5. Unregistered(q)' = Unregistered(q)
    BY <1>2 DEF Unregistered
  <1>6. QED BY <1>1, <1>2, <1>3, <1>4, <1>5 DEF BatchInv, CancelReaches

LEMMA DownloadedKeeps ==
  ASSUME BatchInv, NEW r \in Run, Downloaded(r)
  PROVE  BatchInv'
  <1>1. loop[r].at \in Busy /\ loop[r].item \in Item
    BY DEF Downloaded, Busy, BatchInv, Held
  <1>2. download' \in [Item -> {"none", "running", "aborted", "ok", "failed"}] /\ temp' \subseteq Item
    BY <1>1 DEF Downloaded, Fails, Leaves, BatchInv, TypeOK
  <1>3. CASE Goes(r, "sizing") /\ UNCHANGED <<status, temp>>
    <2>1. /\ Begun' /\ Held' /\ Alone' /\ Apart' /\ Labelled' /\ DrainIsCurrent'
          /\ loop' \in [Run -> [at: Places, item: Item \cup {None}, lane: Lanes \cup {None}]]
          /\ loop'[r].at = "sizing"
          /\ \A q \in Run \ {r} : loop'[q] = loop[q]
      BY <1>1, <1>3, NextStepOfItem DEF Downloaded, Busy
    <2>2. TypeOK'
      BY <1>2, <1>3, <2>1 DEF Downloaded, BatchInv, TypeOK
    <2>3. CancelReaches'
      BY <1>1, <2>1, OthersReached DEF Downloaded
    <2>4. QED BY <2>1, <2>2, <2>3 DEF BatchInv
  <1>4. CASE Fails(r)
    <2>1. /\ Begun' /\ Held' /\ Alone' /\ Apart' /\ Labelled' /\ DrainIsCurrent'
          /\ loop' \in [Run -> [at: Places, item: Item \cup {None}, lane: Lanes \cup {None}]]
          /\ status' \in [Item -> {"absent", "queued", "downloading", "transcribing", "done", "error", "gone"}]
          /\ loop'[r].at = "next"
          /\ \A q \in Run \ {r} : loop'[q] = loop[q]
      BY <1>1, <1>4, EndOfItem DEF Downloaded, Fails, Leaves
    <2>2. TypeOK'
      BY <1>2, <2>1 DEF Downloaded, BatchInv, TypeOK
    <2>3. CancelReaches'
      BY <1>1, <2>1, OthersReached DEF Downloaded
    <2>4. QED BY <2>1, <2>2, <2>3 DEF BatchInv
  <1>5. QED BY <1>3, <1>4 DEF Downloaded

LEMMA TranscribesKeeps ==
  ASSUME BatchInv, NEW r \in Run, loop[r].at = "sizing", current = r, Transcribes(r),
         UNCHANGED <<order, isProcessing, current, starts, download, downloads, retries, saved>>
  PROVE  BatchInv'
  <1> DEFINE i == loop[r].item
  <1>1. i \in Item /\ loop[r].at \in Busy /\ loop[r].lane \in Lanes
    BY DEF BatchInv, Held, Busy
  <1>2. /\ Begun' /\ Held' /\ Alone' /\ Apart'
        /\ loop' \in [Run -> [at: Places, item: Item \cup {None}, lane: Lanes \cup {None}]]
        /\ loop'[r].at = "transcribing" /\ loop'[r].item = i /\ loop'[r].lane = loop[r].lane
        /\ \A q \in Run \ {r} : loop'[q] = loop[q]
    BY <1>1, MoveKeepsLoops DEF Transcribes, Busy
  <1>3. /\ status' \in [Item -> {"absent", "queued", "downloading", "transcribing", "done", "error", "gone"}]
        /\ \A x \in Item \ {i} : status'[x] = status[x]
        /\ status'[i] = "transcribing"
    BY <1>1, UpdatesLabels DEF Transcribes
  <1>4. /\ op' \in [Item -> [Job -> {"none", "running", "aborted", "ok", "failed", "thrown", "expired"}]]
        /\ op'[i] = [j \in Job |-> IF j \in Jobs(r) THEN "running" ELSE "none"]
    BY <1>1 DEF Transcribes, BatchInv, TypeOK
  <1>5. registered' \in [Item -> SUBSET Job] /\ registered'[i] = Jobs(r) \ Unregistered(r)
    <2>1. Jobs(r) \subseteq Job
      BY DEF Jobs, Job
    <2>2. QED BY <1>1, <2>1 DEF Transcribes, BatchInv, TypeOK
  <1>6. TypeOK'
    BY <1>1, <1>2, <1>3, <1>4, <1>5 DEF Transcribes, BatchInv, TypeOK
  <1>7. Labelled'
    <2>1. \A q \in Run \ {r} : loop[q].at \in Busy => loop[q].item \in Item \ {i}
      BY <1>1 DEF BatchInv, Apart, Held
    <2>2. ASSUME NEW q \in Run \ {r}, loop'[q].at \in Busy \ {"sizing"}
          PROVE  status'[loop'[q].item] \notin {"absent", "queued"}
      BY <1>2, <1>3, <2>1, <2>2 DEF BatchInv, Labelled
    <2>3. QED BY <1>2, <1>3, <2>2 DEF Labelled, Busy
  <1>8. DrainIsCurrent'
    BY <1>1, <1>2 DEF BatchInv, TypeOK, DrainIsCurrent, Busy
  <1>9. CancelReaches'
    <2>1. Unregistered(r)' = Unregistered(r)
      BY <1>2 DEF Unregistered
    <2>2. active' = i
      BY DEF Transcribes
    <2>3. \A j \in Job \ Unregistered(r) : op'[i][j] = "running" => j \in registered'[i]
      BY <1>4, <1>5
    <2>4. QED BY <1>2, <2>1, <2>2, <2>3 DEF CancelReaches
  <1>10. QED BY <1>2, <1>6, <1>7, <1>8, <1>9 DEF BatchInv

LEMMA SizesKeeps ==
  ASSUME BatchInv, NEW r \in Run, Sizes(r)
  PROVE  BatchInv'
  <1>1. CASE current = r /\ Transcribes(r)
    BY <1>1, TranscribesKeeps DEF Sizes
  <1>2. CASE Leaves(r) /\ (Updates(r, "error") \/ status' = status) /\ UNCHANGED <<active, op, registered>>
    <2>1. loop[r].at \in Busy /\ loop[r].at = "sizing"
      BY DEF Sizes, Busy
    <2>2. /\ Begun' /\ Held' /\ Alone' /\ Apart' /\ Labelled' /\ DrainIsCurrent'
          /\ loop' \in [Run -> [at: Places, item: Item \cup {None}, lane: Lanes \cup {None}]]
          /\ status' \in [Item -> {"absent", "queued", "downloading", "transcribing", "done", "error", "gone"}]
          /\ loop'[r].at = "next"
          /\ \A q \in Run \ {r} : loop'[q] = loop[q]
      BY <1>2, <2>1, EndOfItem DEF Sizes, Leaves
    <2>3. TypeOK'
      BY <1>2, <2>2 DEF Sizes, Leaves, BatchInv, TypeOK
    <2>4. CancelReaches'
      BY <1>2, <2>1, <2>2, OthersReached DEF Sizes
    <2>5. QED BY <2>2, <2>3, <2>4 DEF BatchInv
  <1>3. QED BY <1>1, <1>2 DEF Sizes, Fails

\* Main's side of a step that moves no run.
LEMMA LoopsRest ==
  ASSUME BatchInv, UNCHANGED <<status, isProcessing, current, loop, starts>>
  PROVE  Begun' /\ Held' /\ Alone' /\ Apart' /\ Labelled' /\ DrainIsCurrent'
  <1>1. Begun' /\ Held' /\ Alone' /\ Apart'
    BY DEF BatchInv, Begun, Held, Alone, Apart
  <1>2. Labelled' /\ DrainIsCurrent'
    BY DEF BatchInv, Labelled, DrainIsCurrent
  <1>3. QED BY <1>1, <1>2

LEMMA RepeatsKeeps ==
  ASSUME BatchInv, NEW r \in Run, Repeats(r)
  PROVE  BatchInv'
  <1> DEFINE i == loop[r].item
  <1>1. i \in Item /\ loop[r].at = "transcribing" /\ loop[r].at \in Busy
    BY DEF Repeats, Busy, BatchInv, Held
  <1>2. Begun' /\ Held' /\ Alone' /\ Apart' /\ Labelled' /\ DrainIsCurrent'
    BY LoopsRest DEF Repeats, uiVars, loopVars
  <1>3. /\ op' \in [Item -> [Job -> {"none", "running", "aborted", "ok", "failed", "thrown", "expired"}]]
        /\ \A x \in Item \ {i} : op'[x] = op[x]
        /\ op'[i]["diarize"] = op[i]["diarize"]
    <2>1. "transcribe" \in Job /\ "diarize" \in Job
      BY DEF Job
    <2>2. PICK result \in {"running", "thrown"} : op' = [op EXCEPT ![i]["transcribe"] = result]
      BY DEF Repeats
    <2>3. op'[i] = [op[i] EXCEPT !["transcribe"] = result] /\ \A x \in Item \ {i} : op'[x] = op[x]
      BY <1>1, <2>2 DEF BatchInv, TypeOK
    <2>4. op'[i] \in [Job -> {"none", "running", "aborted", "ok", "failed", "thrown", "expired"}]
      BY <1>1, <2>1, <2>3 DEF BatchInv, TypeOK
    <2>5. op'[i]["diarize"] = op[i]["diarize"]
      BY <1>1, <2>1, <2>3 DEF BatchInv, TypeOK
    <2>6. QED BY <2>2, <2>3, <2>4, <2>5 DEF BatchInv, TypeOK
  <1>4. /\ registered' \in [Item -> SUBSET Job]
        /\ \A x \in Item \ {i} : registered'[x] = registered[x]
        /\ registered[i] \subseteq registered'[i]
        /\ op'[i]["transcribe"] = "running" => "transcribe" \in registered'[i]
    <2>1. CASE retries[i] < MaxRetries
      <3>1. registered' = [registered EXCEPT ![i] = @ \cup {"transcribe"}]
        BY <2>1 DEF Repeats
      <3>2. registered \in [Item -> SUBSET Job] /\ "transcribe" \in Job
        BY DEF BatchInv, TypeOK, Job
      <3>3. QED BY <1>1, <3>1, <3>2
    <2>2. CASE ~(retries[i] < MaxRetries)
      <3>1. op'[i]["transcribe"] = "thrown" /\ registered' = registered
        BY <1>1, <2>2 DEF Repeats, BatchInv, TypeOK, Job
      <3>2. QED BY <3>1 DEF BatchInv, TypeOK
    <2>3. QED BY <2>1, <2>2
  <1>5. retries' \in [Item -> 0..MaxRetries]
    <2>1. \A x \in Item : retries[x] \in Nat /\ retries[x] <= MaxRetries
      BY Bounds DEF BatchInv, TypeOK
    <2>2. CASE retries[i] < MaxRetries
      <3>1. retries' = [retries EXCEPT ![i] = @ + 1]
        BY <2>2 DEF Repeats
      <3>2. retries[i] + 1 \in 0..MaxRetries
        BY <1>1, <2>1, <2>2, Bounds
      <3>3. QED BY <3>1, <3>2 DEF BatchInv, TypeOK
    <2>3. CASE ~(retries[i] < MaxRetries)
      BY <2>3 DEF Repeats, BatchInv, TypeOK
    <2>4. QED BY <2>2, <2>3
  <1>6. TypeOK'
    BY <1>3, <1>4, <1>5 DEF Repeats, uiVars, loopVars, BatchInv, TypeOK
  <1>7. CancelReaches'
    <2>1. SUFFICES ASSUME NEW q \in Run, current = q, loop[q].at = "transcribing",
                          NEW j \in Job \ Unregistered(q), op'[loop[q].item][j] = "running"
                   PROVE  j \in registered'[loop[q].item]
      BY DEF BatchInv, CancelReaches, Repeats, uiVars, loopVars, Unregistered
    <2>2. CASE loop[q].item = i
      <3>1. CASE j = "transcribe"
        BY <1>4, <2>1, <2>2, <3>1
      <3>2. CASE j = "diarize"
        BY <1>3, <1>4, <2>1, <2>2, <3>2 DEF BatchInv, CancelReaches
      <3>3. QED BY <3>1, <3>2 DEF Job
    <2>3. CASE loop[q].item # i
      <3>1. loop[q].item \in Item
        BY <2>1 DEF BatchInv, Held, Busy
      <3>2. QED BY <1>3, <1>4, <2>1, <2>3, <3>1 DEF BatchInv, CancelReaches
    <2>4. QED BY <2>2, <2>3
  <1>8. QED BY <1>2, <1>6, <1>7 DEF BatchInv

LEMMA MergesKeeps ==
  ASSUME BatchInv, NEW r \in Run, Merges(r)
  PROVE  BatchInv'
  <1>1. loop[r].at \in Busy /\ loop[r].at # "downloading" /\ "merging" \in Busy
    BY DEF Merges, Busy
  <1>2. /\ Begun' /\ Held' /\ Alone' /\ Apart' /\ Labelled' /\ DrainIsCurrent'
        /\ loop' \in [Run -> [at: Places, item: Item \cup {None}, lane: Lanes \cup {None}]]
        /\ loop'[r].at = "merging"
        /\ \A q \in Run \ {r} : loop'[q] = loop[q]
    BY <1>1, NextStepOfItem DEF Merges, uiVars
  <1>3. TypeOK'
    BY <1>2 DEF Merges, uiVars, mainVars, BatchInv, TypeOK
  <1>4. CancelReaches'
    BY <1>1, <1>2, OthersReached DEF Merges, uiVars, mainVars
  <1>5. QED BY <1>2, <1>3, <1>4 DEF BatchInv

LEMMA ResultArrivesKeeps ==
  ASSUME BatchInv, NEW r \in Run, NEW ok \in BOOLEAN, Quiet, loop[r].at \in {"transcribing", "merging"},
         ResultArrives(r, ok)
  PROVE  BatchInv'
  <1> DEFINE i == loop[r].item
  <1>1. loop[r].at \in Busy /\ i \in Item /\ loop[r].at # "downloading"
    BY DEF Busy, BatchInv, Held
  <1>2. /\ op' \in [Item -> [Job -> {"none", "running", "aborted", "ok", "failed", "thrown", "expired"}]]
        /\ \A x \in Item \ {i} : op'[x] = op[x]
    BY <1>1 DEF ResultArrives, BatchInv, TypeOK
  <1>3. active' \in Item \cup {None} /\ retries' \in [Item -> 0..MaxRetries] /\ saved' \subseteq Item
          /\ temp' \subseteq Item
    <2>1. active' \in Item \cup {None}
      BY <1>1 DEF ResultArrives, Forgotten, BatchInv, TypeOK
    <2>2. retries' \in [Item -> 0..MaxRetries]
      BY <1>1, Bounds DEF ResultArrives, BatchInv, TypeOK
    <2>3. saved' \subseteq Item /\ temp' \subseteq Item
      BY <1>1 DEF ResultArrives, Leaves, Fails, Saves, BatchInv, TypeOK
    <2>4. QED BY <2>1, <2>2, <2>3
  <1>4. CASE Leaves(r) /\ (Updates(r, "error") \/ status' = status)
    <2>1. /\ Begun' /\ Held' /\ Alone' /\ Apart' /\ Labelled' /\ DrainIsCurrent'
          /\ loop' \in [Run -> [at: Places, item: Item \cup {None}, lane: Lanes \cup {None}]]
          /\ status' \in [Item -> {"absent", "queued", "downloading", "transcribing", "done", "error", "gone"}]
          /\ loop'[r].at = "next"
          /\ \A q \in Run \ {r} : loop'[q] = loop[q]
      BY <1>1, <1>4, EndOfItem DEF ResultArrives, Leaves
    <2>2. TypeOK'
      BY <1>2, <1>3, <2>1 DEF ResultArrives, BatchInv, TypeOK
    <2>3. CancelReaches'
      BY <1>1, <1>2, <2>1, OthersReached DEF ResultArrives
    <2>4. QED BY <2>1, <2>2, <2>3 DEF BatchInv
  <1>5. ASSUME NEW place \in {"titling", "saving"}, Goes(r, place), UNCHANGED <<status, temp>>
        PROVE  BatchInv'
    <2>1. /\ Begun' /\ Held' /\ Alone' /\ Apart' /\ Labelled' /\ DrainIsCurrent'
          /\ loop' \in [Run -> [at: Places, item: Item \cup {None}, lane: Lanes \cup {None}]]
          /\ loop'[r].at = place
          /\ \A q \in Run \ {r} : loop'[q] = loop[q]
      BY <1>1, <1>5, NextStepOfItem DEF ResultArrives, Busy
    <2>2. TypeOK'
      BY <1>2, <1>3, <1>5, <2>1 DEF ResultArrives, BatchInv, TypeOK
    <2>3. CancelReaches'
      BY <1>1, <1>2, <2>1, OthersReached DEF ResultArrives
    <2>4. QED BY <2>1, <2>2, <2>3 DEF BatchInv
  <1>6. QED BY <1>4, <1>5 DEF ResultArrives, Fails, Saves

LEMMA ResultReceivedKeeps ==
  ASSUME BatchInv, NEW r \in Run, ResultReceived(r)
  PROVE  BatchInv'
  <1>1. PICK ok \in BOOLEAN : ResultArrives(r, ok)
    BY DEF ResultReceived
  <1>2. Quiet /\ loop[r].at \in {"transcribing", "merging"}
    BY DEF ResultReceived
  <1>3. QED BY <1>1, <1>2, ResultArrivesKeeps

LEMMA TitledKeeps ==
  ASSUME BatchInv, NEW r \in Run, Titled(r)
  PROVE  BatchInv'
  <1>1. loop[r].at \in Busy /\ loop[r].item \in Item /\ loop[r].at # "downloading" /\ loop[r].at # "transcribing"
    BY DEF Titled, Busy, BatchInv, Held
  <1>2. saved' \subseteq Item /\ temp' \subseteq Item
    BY <1>1 DEF Titled, Leaves, Fails, Saves, BatchInv, TypeOK
  <1>3. CASE Leaves(r) /\ (Updates(r, "error") \/ status' = status)
    <2>1. /\ Begun' /\ Held' /\ Alone' /\ Apart' /\ Labelled' /\ DrainIsCurrent'
          /\ loop' \in [Run -> [at: Places, item: Item \cup {None}, lane: Lanes \cup {None}]]
          /\ status' \in [Item -> {"absent", "queued", "downloading", "transcribing", "done", "error", "gone"}]
          /\ loop'[r].at = "next"
          /\ \A q \in Run \ {r} : loop'[q] = loop[q]
      BY <1>1, <1>3, EndOfItem DEF Titled, Leaves
    <2>2. TypeOK'
      BY <1>2, <2>1 DEF Titled, BatchInv, TypeOK
    <2>3. CancelReaches'
      BY <1>1, <2>1, OthersReached DEF Titled
    <2>4. QED BY <2>1, <2>2, <2>3 DEF BatchInv
  <1>4. CASE Goes(r, "saving") /\ UNCHANGED <<status, temp>>
    <2>1. /\ Begun' /\ Held' /\ Alone' /\ Apart' /\ Labelled' /\ DrainIsCurrent'
          /\ loop' \in [Run -> [at: Places, item: Item \cup {None}, lane: Lanes \cup {None}]]
          /\ loop'[r].at = "saving"
          /\ \A q \in Run \ {r} : loop'[q] = loop[q]
      BY <1>1, <1>4, NextStepOfItem DEF Titled, Busy
    <2>2. TypeOK'
      BY <1>2, <1>4, <2>1 DEF Titled, BatchInv, TypeOK
    <2>3. CancelReaches'
      BY <1>1, <2>1, OthersReached DEF Titled
    <2>4. QED BY <2>1, <2>2, <2>3 DEF BatchInv
  <1>5. QED BY <1>3, <1>4 DEF Titled, Fails, Saves

LEMMA SaveAnsweredKeeps ==
  ASSUME BatchInv, NEW r \in Run, SaveAnswered(r)
  PROVE  BatchInv'
  <1>1. loop[r].at \in Busy /\ loop[r].item \in Item
    BY DEF SaveAnswered, Busy, BatchInv, Held
  <1>2. Updates(r, "done") \/ Updates(r, "error")
    BY DEF SaveAnswered
  <1>3. /\ Begun' /\ Held' /\ Alone' /\ Apart' /\ Labelled' /\ DrainIsCurrent'
        /\ loop' \in [Run -> [at: Places, item: Item \cup {None}, lane: Lanes \cup {None}]]
        /\ status' \in [Item -> {"absent", "queued", "downloading", "transcribing", "done", "error", "gone"}]
        /\ loop'[r].at = "next"
        /\ \A q \in Run \ {r} : loop'[q] = loop[q]
    BY <1>1, <1>2, EndOfItem DEF SaveAnswered, Leaves
  <1>4. TypeOK'
    BY <1>3 DEF SaveAnswered, Leaves, BatchInv, TypeOK
  <1>5. CancelReaches'
    BY <1>1, <1>3, OthersReached DEF SaveAnswered
  <1>6. QED BY <1>3, <1>4, <1>5 DEF BatchInv

LEMMA DownloadEndsKeeps ==
  ASSUME BatchInv, NEW i \in Item, DownloadEnds(i)
  PROVE  BatchInv'
  <1>1. Begun' /\ Held' /\ Alone' /\ Apart' /\ Labelled' /\ DrainIsCurrent'
    BY LoopsRest DEF DownloadEnds, uiVars, loopVars
  <1>2. TypeOK'
    BY DEF DownloadEnds, uiVars, loopVars, BatchInv, TypeOK
  <1>3. CancelReaches'
    BY DEF DownloadEnds, uiVars, loopVars, BatchInv, CancelReaches, Unregistered
  <1>4. QED BY <1>1, <1>2, <1>3 DEF BatchInv

LEMMA OperationEndsKeeps ==
  ASSUME BatchInv, NEW i \in Item, NEW j \in Job, OperationEnds(i, j)
  PROVE  BatchInv'
  <1>1. Begun' /\ Held' /\ Alone' /\ Apart' /\ Labelled' /\ DrainIsCurrent'
    BY LoopsRest DEF OperationEnds, uiVars, loopVars
  <1>2. PICK result \in Results(i, j) : op' = [op EXCEPT ![i][j] = result]
    BY DEF OperationEnds
  <1>3. result \in {"none", "ok", "failed", "thrown", "expired"}
    BY DEF Results
  <1>4. /\ op' \in [Item -> [Job -> {"none", "running", "aborted", "ok", "failed", "thrown", "expired"}]]
        /\ \A x \in Item, k \in Job : op'[x][k] = IF x = i /\ k = j THEN result ELSE op[x][k]
    <2>1. op'[i] = [op[i] EXCEPT ![j] = result] /\ \A x \in Item \ {i} : op'[x] = op[x]
      BY <1>2 DEF BatchInv, TypeOK
    <2>2. op[i] \in [Job -> {"none", "running", "aborted", "ok", "failed", "thrown", "expired"}]
      BY DEF BatchInv, TypeOK
    <2>3. /\ op'[i] \in [Job -> {"none", "running", "aborted", "ok", "failed", "thrown", "expired"}]
          /\ \A k \in Job : op'[i][k] = IF k = j THEN result ELSE op[i][k]
      BY <1>3, <2>1, <2>2
    <2>4. QED BY <1>2, <2>1, <2>3 DEF BatchInv, TypeOK
  <1>5. /\ registered' \in [Item -> SUBSET Job]
        /\ \A x \in Item, k \in Job : ~(x = i /\ k = j) /\ k \in registered[x] => k \in registered'[x]
    BY DEF OperationEnds, BatchInv, TypeOK
  <1>6. TypeOK'
    BY <1>4, <1>5 DEF OperationEnds, uiVars, loopVars, BatchInv, TypeOK
  <1>7. CancelReaches'
    <2>1. SUFFICES ASSUME NEW q \in Run, current = q, loop[q].at = "transcribing",
                          NEW k \in Job \ Unregistered(q), op'[loop[q].item][k] = "running"
                   PROVE  k \in registered'[loop[q].item]
      BY DEF BatchInv, CancelReaches, OperationEnds, uiVars, loopVars, Unregistered
    <2>2. loop[q].item \in Item
      BY <2>1 DEF BatchInv, Held, Busy
    <2>3. ~(loop[q].item = i /\ k = j) /\ op[loop[q].item][k] = "running"
      BY <1>3, <1>4, <2>1, <2>2
    <2>4. QED BY <1>5, <2>1, <2>2, <2>3 DEF BatchInv, CancelReaches
  <1>8. QED BY <1>1, <1>6, <1>7 DEF BatchInv

-----------------------------------------------------------------------------
LEMMA RunStepKeeps ==
  ASSUME BatchInv, NEW r \in Run, RunStep(r)
  PROVE  BatchInv'
  BY DrainsKeeps, DownloadedKeeps, SizesKeeps, RepeatsKeeps, MergesKeeps, ResultReceivedKeeps, TitledKeeps,
     SaveAnsweredKeeps DEF RunStep

LEMMA StepInv == BatchInv /\ [Next]_vars => BatchInv'
  <1> SUFFICES ASSUME BatchInv, [Next]_vars PROVE BatchInv'
    OBVIOUS
  <1>1. ASSUME NEW i \in Item, AddItem(i) \/ RemoveQueueItem(i) \/ DownloadEnds(i)
        PROVE  BatchInv'
    BY <1>1, AddKeeps, RemoveKeeps, DownloadEndsKeeps
  <1>2. CASE CancelBatch \/ ClearBatchQueue \/ ProcessBatchQueue
    BY <1>2, CancelKeeps, ClearKeeps, StartKeeps
  <1>3. ASSUME NEW r \in Run, RunStep(r)
        PROVE  BatchInv'
    BY <1>3, RunStepKeeps
  <1>4. ASSUME NEW i \in Item, NEW j \in Job, OperationEnds(i, j)
        PROVE  BatchInv'
    BY <1>4, OperationEndsKeeps
  <1>5. CASE UNCHANGED vars
    <2>1. Begun' /\ Held' /\ Alone' /\ Apart' /\ Labelled' /\ DrainIsCurrent'
      BY <1>5, LoopsRest DEF vars, uiVars, loopVars
    <2>2. TypeOK' /\ CancelReaches'
      BY <1>5 DEF vars, uiVars, loopVars, mainVars, BatchInv, TypeOK, CancelReaches, Unregistered
    <2>3. QED BY <2>1, <2>2 DEF BatchInv
  <1>6. QED BY <1>1, <1>2, <1>3, <1>4, <1>5 DEF Next

\* The inductive invariant: what runs hold, which items they work on, and what
\* the queue shows of them.
THEOREM BatchInvariant == Spec => []BatchInv
  <1>1. QED BY InitInv, StepInv, PTL DEF Spec

\* Every variable of queue and main holds what its type says.
THEOREM TypesHold == Spec => []TypeOK
  <1>1. BatchInv => TypeOK
    BY DEF BatchInv
  <1>2. QED BY <1>1, BatchInvariant, PTL

\* The queue is shown as processing exactly while its current run works,
\* however late stale runs end (processBatchQueue, cancelBatch).
THEOREM DrainsAreCurrent == Spec => []DrainIsCurrent
  <1>1. BatchInv => DrainIsCurrent
    BY DEF BatchInv
  <1>2. QED BY <1>1, BatchInvariant, PTL

\* Cancel reaches the request of the current run and all that main has running
\* for it (activeUploadRequestId, createUploadCancelRegistry).
THEOREM CancelsReach == Spec => []CancelReaches
  <1>1. BatchInv => CancelReaches
    BY DEF BatchInv
  <1>2. QED BY <1>1, BatchInvariant, PTL

-----------------------------------------------------------------------------
\* One item of CancelHolds.
Holds(i) ==
    /\ status[i] \in Settled => status'[i] \in {status[i], "gone"}
    /\ saved' # saved /\ i \in saved' \ saved => status[i] = "transcribing"

\* A run that updates an item has not shown it settled.
LEMMA UpdatesHold ==
  ASSUME BatchInv, NEW r \in Run, loop[r].at \in Busy, NEW s \in {"transcribing", "done", "error"},
         Updates(r, s), UNCHANGED saved, NEW i \in Item
  PROVE  Holds(i)
  <1>1. /\ \A x \in Item \ {loop[r].item} : status'[x] = status[x]
        /\ status'[loop[r].item] = IF current = r THEN s ELSE status[loop[r].item]
    BY UpdatesLabels
  <1>2. current = r => status[loop[r].item] \notin Settled
    BY DEF BatchInv, Labelled, Busy, Settled
  <1>3. QED BY <1>1, <1>2 DEF Holds

\* A note is written for the current run's item, which is shown as transcribed.
LEMMA SavesHold ==
  ASSUME BatchInv, NEW r \in Run, current = r, loop[r].at \in {"transcribing", "merging", "titling"},
         Saves(r), UNCHANGED status, NEW i \in Item
  PROVE  Holds(i)
  BY DEF BatchInv, Labelled, Saves, Holds

LEMMA RunStepHolds ==
  ASSUME BatchInv, NEW r \in Run, RunStep(r), NEW i \in Item
  PROVE  Holds(i)
  <1>1. CASE UNCHANGED <<status, saved>>
    BY <1>1 DEF Holds
  <1>2. CASE Drains(r)
    <2>1. CASE current = r /\ Waiting # {}
      <3>1. PICK n \in Waiting : StartsItem(r, order[n])
        BY <1>2, <2>1 DEF Drains
      <3>2. order[n] \in Item /\ status[order[n]] = "queued"
        BY DEF Waiting, BatchInv, TypeOK
      <3>3. QED BY <1>2, <3>1, <3>2 DEF Drains, StartsItem, Holds, Settled, BatchInv, TypeOK
    <2>2. CASE ~(current = r /\ Waiting # {})
      BY <1>1, <1>2, <2>2 DEF Drains, EndsRun
    <2>3. QED BY <2>1, <2>2
  <1>3. CASE Downloaded(r) \/ Sizes(r)
    <2>1. loop[r].at \in Busy
      BY <1>3 DEF Downloaded, Sizes, Busy
    <2>2. saved' = saved
      BY <1>3 DEF Downloaded, Sizes
    <2>3. Updates(r, "error") \/ Updates(r, "transcribing") \/ status' = status
      BY <1>3 DEF Downloaded, Sizes, Fails, Transcribes
    <2>4. QED BY <1>1, <2>1, <2>2, <2>3, UpdatesHold
  <1>4. CASE Repeats(r) \/ Merges(r)
    BY <1>1, <1>4 DEF Repeats, Merges, uiVars
  <1>5. ASSUME NEW ok \in BOOLEAN, ResultArrives(r, ok), loop[r].at \in {"transcribing", "merging"}
        PROVE  Holds(i)
    <2>1. loop[r].at \in Busy
      BY <1>5 DEF Busy
    <2>2. CASE UNCHANGED saved /\ (Updates(r, "error") \/ status' = status)
      BY <1>1, <2>1, <2>2, UpdatesHold
    <2>3. CASE current = r /\ Saves(r) /\ UNCHANGED status
      BY <1>5, <2>3, SavesHold
    <2>4. QED BY <1>5, <2>2, <2>3 DEF ResultArrives, Fails
  <1>6. CASE Titled(r)
    <2>1. loop[r].at \in Busy /\ loop[r].at = "titling"
      BY <1>6 DEF Titled, Busy
    <2>2. CASE UNCHANGED saved /\ (Updates(r, "error") \/ status' = status)
      BY <1>1, <2>1, <2>2, UpdatesHold
    <2>3. CASE current = r /\ Saves(r) /\ UNCHANGED status
      BY <2>1, <2>3, SavesHold
    <2>4. QED BY <1>6, <2>2, <2>3 DEF Titled, Fails
  <1>7. CASE SaveAnswered(r)
    <2>1. loop[r].at \in Busy /\ saved' = saved /\ (Updates(r, "done") \/ Updates(r, "error"))
      BY <1>7 DEF SaveAnswered, Busy
    <2>2. QED BY <2>1, UpdatesHold
  <1>8. QED BY <1>2, <1>3, <1>4, <1>5, <1>6, <1>7 DEF RunStep, ResultReceived

LEMMA StepHolds ==
  ASSUME BatchInv, [Next]_vars, NEW i \in Item
  PROVE  Holds(i)
  <1>1. CASE UNCHANGED <<status, saved>>
    BY <1>1 DEF Holds
  <1>2. ASSUME NEW x \in Item, AddItem(x) \/ RemoveQueueItem(x) \/ DownloadEnds(x)
        PROVE  Holds(i)
    BY <1>2 DEF AddItem, RemoveQueueItem, DownloadEnds, uiVars, Holds, Settled, BatchInv, TypeOK
  <1>3. CASE CancelBatch \/ ClearBatchQueue \/ ProcessBatchQueue
    BY <1>3 DEF CancelBatch, ClearBatchQueue, ProcessBatchQueue, Holds, Settled, BatchInv, TypeOK
  <1>4. ASSUME NEW x \in Item, NEW j \in Job, OperationEnds(x, j)
        PROVE  Holds(i)
    BY <1>1, <1>4 DEF OperationEnds, uiVars
  <1>5. CASE UNCHANGED vars
    BY <1>1, <1>5 DEF vars, uiVars
  <1>6. QED BY <1>2, <1>3, <1>4, <1>5, RunStepHolds DEF Next

\* What was settled on the screen stays so, and no note appears for an item
\* that was cancelled before its note was asked for (updateItem, processItem).
THEOREM CancelsHold == Spec => CancelHolds
  <1>1. BatchInv /\ [Next]_vars =>
            [\A i \in Item :
                /\ status[i] \in Settled => status'[i] \in {status[i], "gone"}
                /\ saved' # saved /\ i \in saved' \ saved => status[i] = "transcribing"]_vars
    BY StepHolds DEF Holds
  <1>2. QED BY <1>1, BatchInvariant, PTL DEF Spec, CancelHolds
=============================================================================
