------------------------------ MODULE BatchQueue ------------------------------
(* The batch queue of file and URL transcriptions (batchQueueStore.ts), the   *)
(* operations main runs for it, and the registry through which one cancel     *)
(* reaches them (uploadCancelRegistry.js).  A run of the queue drains it in   *)
(* the background; a cancel or a clear leaves that run stale and does not     *)
(* wait for it, so its late results meet a queue that has moved on and,       *)
(* maybe, a newer run.                                                        *)
(*                                                                            *)
(* Only the equality of run ids is ever used, so runId is the run that holds  *)
(* it, or None.  An action is one task of the renderer or of main; a call of  *)
(* main and what its handler does at once are one step.                       *)
EXTENDS Naturals, Sequences

CONSTANTS File,       \* items that are files
          Url,        \* items that are downloaded first
          None,
          Provider,   \* whom a run may ask to transcribe: "cloud", "local" or "byok"
          Speakers,   \* whether it may have speakers told apart
          MaxRuns,    \* bound on runs of the queue
          MaxRetries  \* GRACE_RETRY_COUNT: repeats of an upload while the session settles

Item == File \cup Url
Run == 1..MaxRuns
Job == {"transcribe", "diarize"}
Lanes == [provider: Provider, speakers: Speakers]

ASSUME Bounds == MaxRuns \in Nat /\ MaxRetries \in Nat
ASSUME Settings == Provider \subseteq {"cloud", "local", "byok"} /\ Speakers \subseteq BOOLEAN
ASSUME ItemsDiffer == File \cap Url = {} /\ None \notin Item \cup Run

VARIABLES order,       \* items in the order they were added
          status,      \* what the queue shows of each item
          isProcessing,
          current,     \* the run that holds runId
          active,      \* activeUploadRequestId: the item it was made for
          loop,        \* where each run stands
          starts,      \* runs started
          download,    \* the download main runs for an item
          downloads,   \* activeUrlDownloads: those a cancel reaches
          op,          \* the operations main runs for an item
          registered,  \* those in the registry's set of its request
          retries,
          temp,        \* temp files that exist
          saved        \* items whose note was written

uiVars == <<order, status, isProcessing, current, active>>
loopVars == <<loop, starts>>
mainVars == <<download, downloads, op, registered, temp>>
vars == <<uiVars, loopVars, mainVars, retries, saved>>

Settled == {"done", "error"}
Shown == {i \in Item : status[i] \notin {"absent", "gone"}}
AllDone == Shown # {} /\ \A i \in Shown : status[i] \in Settled

Idle(place) == [at |-> place, item |-> None, lane |-> None]

Places == {"unborn", "next", "downloading", "sizing", "transcribing", "merging", "titling",
           "saving", "ended"}

\* Types of the whole state.
TypeOK ==
    /\ order \in Seq(Item)
    /\ status \in [Item -> {"absent", "queued", "downloading", "transcribing", "done", "error", "gone"}]
    /\ isProcessing \in BOOLEAN
    /\ current \in Run \cup {None}
    /\ active \in Item \cup {None}
    /\ loop \in [Run -> [at: Places, item: Item \cup {None}, lane: Lanes \cup {None}]]
    /\ starts \in 0..MaxRuns
    /\ download \in [Item -> {"none", "running", "aborted", "ok", "failed"}]
    /\ downloads \subseteq Item
    /\ op \in [Item -> [Job -> {"none", "running", "aborted", "ok", "failed", "thrown", "expired"}]]
    /\ registered \in [Item -> SUBSET Job]
    /\ retries \in [Item -> 0..MaxRetries]
    /\ temp \subseteq Item
    /\ saved \subseteq Item

Init ==
    /\ order = << >>
    /\ status = [i \in Item |-> "absent"]
    /\ isProcessing = FALSE
    /\ current = None
    /\ active = None
    /\ loop = [r \in Run |-> Idle("unborn")]
    /\ starts = 0
    /\ download = [i \in Item |-> "none"]
    /\ downloads = {}
    /\ op = [i \in Item |-> [j \in Job |-> "none"]]
    /\ registered = [i \in Item |-> {}]
    /\ retries = [i \in Item |-> 0]
    /\ temp = {}
    /\ saved = {}

\* A continuation runs before the next task.
Quiet == \A r \in Run : loop[r].at \notin {"next", "sizing"}

Live == {"running", "aborted"}

Busy == {"downloading", "sizing", "transcribing", "merging", "titling", "saving"}

-----------------------------------------------------------------------------
(* The user.                                                                  *)

AddItem(i) ==
    /\ Quiet
    /\ status[i] = "absent"
    /\ order' = Append(order, i)
    /\ status' = [status EXCEPT ![i] = "queued"]
    /\ UNCHANGED <<isProcessing, current, active, loopVars, mainVars, retries, saved>>

RemoveQueueItem(i) ==
    /\ Quiet
    /\ status[i] = "queued"
    /\ status' = [status EXCEPT ![i] = "gone"]
    /\ UNCHANGED <<order, isProcessing, current, active, loopVars, mainVars, retries, saved>>

\* Main aborts what it still has registered: every download, and the operations of the request.
Aborted(o) == IF o = "running" THEN "aborted" ELSE o

AbortDownloads ==
    /\ download' = [i \in Item |-> IF i \in downloads THEN Aborted(download[i]) ELSE download[i]]
    /\ downloads' = {}

AbortUpload ==
    /\ op' = [i \in Item |-> [j \in Job |->
                 IF i = active /\ j \in registered[i] THEN Aborted(op[i][j]) ELSE op[i][j]]]
    /\ registered' = [i \in Item |-> IF i = active THEN {} ELSE registered[i]]

CancelBatch ==
    /\ Quiet
    /\ isProcessing /\ ~AllDone
    /\ current' = None
    /\ AbortUpload
    /\ active' = None
    /\ AbortDownloads
    /\ isProcessing' = FALSE
    /\ status' = [i \in Item |-> IF i \in Shown /\ status[i] \notin Settled THEN "error" ELSE status[i]]
    /\ UNCHANGED <<order, loopVars, temp, retries, saved>>

ClearBatchQueue ==
    /\ Quiet
    /\ AllDone
    /\ current' = None
    /\ isProcessing' = FALSE
    /\ status' = [i \in Item |-> IF i \in Shown THEN "gone" ELSE status[i]]
    /\ UNCHANGED <<order, active, loopVars, mainVars, retries, saved>>

\* The button was pressed some awaits ago; the queue may be empty by now.
ProcessBatchQueue ==
    /\ Quiet
    /\ ~isProcessing
    /\ starts < MaxRuns
    /\ starts' = starts + 1
    /\ current' = starts'
    /\ isProcessing' = TRUE
    /\ \E lane \in Lanes : loop' = [loop EXCEPT ![starts'] = [at |-> "next", item |-> None, lane |-> lane]]
    /\ UNCHANGED <<order, status, active, mainVars, retries, saved>>

-----------------------------------------------------------------------------
(* A run of the queue.                                                        *)

Goes(r, place) == loop' = [loop EXCEPT ![r].at = place]

\* Mutant: a stale run still writes to the queue.
UpdatesStale(r, s) == status' = [status EXCEPT ![loop[r].item] = s]

\* updateItem: a stale run does not touch the queue.
Updates(r, s) ==
    status' = [status EXCEPT ![loop[r].item] = IF current = r THEN s ELSE @]

\* Mutant: a stale run leaves its temp file to the newer one.
LeavesIfCurrent(r) ==
    /\ temp' = IF current = r THEN temp \ {loop[r].item} ELSE temp
    /\ Goes(r, "next")

\* The finally of processItem: the temp file goes, whoever the queue belongs to.
Leaves(r) ==
    /\ temp' = temp \ {loop[r].item}
    /\ Goes(r, "next")

Fails(r) == Updates(r, "error") /\ Leaves(r)

Waiting == {n \in 1..Len(order) : status[order[n]] = "queued"}

StartsItem(r, i) ==
    /\ loop' = [loop EXCEPT ![r].item = i, ![r].at = IF i \in Url THEN "downloading" ELSE "sizing"]
    /\ IF i \in Url
       THEN /\ status' = [status EXCEPT ![i] = "downloading"]
            /\ download' = [download EXCEPT ![i] = "running"]
            /\ downloads' = downloads \cup {i}
       ELSE UNCHANGED <<status, download, downloads>>
    /\ UNCHANGED isProcessing

\* Mutant: a stale run unlocks the queue.
EndsRunUnlocking(r) ==
    /\ loop' = [loop EXCEPT ![r] = Idle("ended")]
    /\ isProcessing' = FALSE
    /\ UNCHANGED <<status, download, downloads>>

EndsRun(r) ==
    /\ loop' = [loop EXCEPT ![r] = Idle("ended")]
    /\ isProcessing' = IF current = r THEN FALSE ELSE isProcessing
    /\ UNCHANGED <<status, download, downloads>>

Drains(r) ==
    /\ loop[r].at = "next"
    /\ IF current = r /\ Waiting # {}
       THEN \E n \in Waiting : (\A m \in Waiting : n <= m) /\ StartsItem(r, order[n])
       ELSE EndsRun(r)
    /\ UNCHANGED <<order, current, active, starts, op, registered, temp, retries, saved>>

Downloaded(r) ==
    /\ Quiet
    /\ loop[r].at = "downloading"
    /\ \/ /\ download[loop[r].item] = "ok"
          /\ Goes(r, "sizing")
          /\ UNCHANGED <<status, temp>>
       \/ /\ download[loop[r].item] = "failed"
          /\ Fails(r)
    /\ download' = [download EXCEPT ![loop[r].item] = "none"]
    /\ UNCHANGED <<order, isProcessing, current, active, starts, downloads, op, registered, retries, saved>>

\* Transcription and diarization are asked for under one request id; providers
\* that bring their own key register nothing.
Jobs(r) == IF loop[r].lane.speakers THEN Job ELSE {"transcribe"}
Unregistered(r) == IF loop[r].lane.provider = "byok" THEN {"transcribe"} ELSE {}

Transcribes(r) ==
    LET i == loop[r].item
    IN  /\ Updates(r, "transcribing")
        /\ active' = i
        /\ op' = [op EXCEPT ![i] = [j \in Job |-> IF j \in Jobs(r) THEN "running" ELSE "none"]]
        /\ registered' = [registered EXCEPT ![i] = Jobs(r) \ Unregistered(r)]
        /\ Goes(r, "transcribing")
        /\ UNCHANGED temp

Sizes(r) ==
    /\ loop[r].at = "sizing"
    /\ \/ /\ current # r
          /\ Leaves(r)
          /\ UNCHANGED <<status, active, op, registered>>
       \/ /\ current = r
          /\ Fails(r)
          /\ UNCHANGED <<active, op, registered>>
       \/ /\ current = r
          /\ Transcribes(r)
    /\ UNCHANGED <<order, isProcessing, current, starts, download, downloads, retries, saved>>

\* withSessionRefresh repeats an upload the cloud did not let in, under the same
\* request id, after a delay that no cancel ends.
Repeats(r) ==
    LET i == loop[r].item
    IN  /\ Quiet
        /\ loop[r].at = "transcribing"
        /\ op[i]["transcribe"] = "expired"
        /\ IF retries[i] < MaxRetries
           THEN /\ retries' = [retries EXCEPT ![i] = @ + 1]
                /\ op' = [op EXCEPT ![i]["transcribe"] = "running"]
                /\ registered' = [registered EXCEPT ![i] = @ \cup {"transcribe"}]
           ELSE /\ op' = [op EXCEPT ![i]["transcribe"] = "thrown"]
                /\ UNCHANGED <<retries, registered>>
        /\ UNCHANGED <<uiVars, loopVars, download, downloads, temp, saved>>

\* Mutant: a late result erases the id of a newer request.
ForgottenAlways(i) == None

\* The request id is forgotten if no later request has taken its place.
Forgotten(i) == IF active = i THEN None ELSE active

\* A failed transcription that throws does not wait for the diarization.
Transcribed(r) == op[loop[r].item]["transcribe"] \in {"ok", "failed"}
                    /\ op[loop[r].item]["diarize"] \notin Live

Merges(r) ==
    /\ Quiet
    /\ loop[r].at = "transcribing"
    /\ Transcribed(r)
    /\ op[loop[r].item]["transcribe"] = "ok" /\ op[loop[r].item]["diarize"] = "ok"
    /\ Goes(r, "merging")
    /\ UNCHANGED <<uiVars, starts, mainVars, retries, saved>>

\* The note is written when main gets the call, or it is refused.
Saves(r) ==
    /\ Goes(r, "saving")
    /\ saved' \in {saved, saved \cup {loop[r].item}}

ResultArrives(r, ok) ==
    /\ active' = Forgotten(loop[r].item)
    /\ IF current # r
       THEN Leaves(r) /\ UNCHANGED <<status, saved>>
       ELSE IF ~ok
       THEN Fails(r) /\ UNCHANGED saved
       ELSE /\ IF loop[r].item \in File
               THEN Goes(r, "titling") /\ UNCHANGED saved
               ELSE Saves(r)
            /\ UNCHANGED <<status, temp>>
    /\ op' = [op EXCEPT ![loop[r].item] = [j \in Job |-> IF @[j] \in Live THEN @[j] ELSE "none"]]
    /\ retries' = [retries EXCEPT ![loop[r].item] = 0]
    /\ UNCHANGED <<order, isProcessing, current, starts, download, downloads, registered>>

ResultReceived(r) ==
    /\ Quiet
    /\ \/ /\ loop[r].at = "transcribing"
          /\ op[loop[r].item]["transcribe"] = "thrown"
          /\ ResultArrives(r, FALSE)
       \/ /\ loop[r].at = "transcribing"
          /\ Transcribed(r)
          /\ (op[loop[r].item]["diarize"] # "ok" \/ op[loop[r].item]["transcribe"] = "failed")
          /\ ResultArrives(r, op[loop[r].item]["transcribe"] = "ok")
       \/ /\ loop[r].at = "merging"
          /\ ResultArrives(r, TRUE)

Titled(r) ==
    /\ Quiet
    /\ loop[r].at = "titling"
    /\ \/ Fails(r) /\ UNCHANGED saved
       \/ /\ current # r
          /\ Leaves(r)
          /\ UNCHANGED <<status, saved>>
       \/ /\ current = r
          /\ Saves(r)
          /\ UNCHANGED <<status, temp>>
    /\ UNCHANGED <<order, isProcessing, current, active, starts, download, downloads, op, registered,
                   retries>>

SaveAnswered(r) ==
    /\ Quiet
    /\ loop[r].at = "saving"
    /\ Updates(r, IF loop[r].item \in saved THEN "done" ELSE "error")
    /\ Leaves(r)
    /\ UNCHANGED <<order, isProcessing, current, active, starts, download, downloads, op, registered,
                   retries, saved>>

RunStep(r) ==
    \/ Drains(r) \/ Downloaded(r) \/ Sizes(r) \/ Repeats(r)
    \/ Merges(r) \/ ResultReceived(r) \/ Titled(r) \/ SaveAnswered(r)

-----------------------------------------------------------------------------
(* Main.                                                                      *)

\* A download that ends well leaves its temp file, whatever was cancelled in
\* between; one that fails or is aborted has removed it.
DownloadEnds(i) ==
    /\ Quiet
    /\ download[i] \in Live
    /\ \/ /\ download' = [download EXCEPT ![i] = "ok"]
          /\ temp' = temp \cup {i}
       \/ /\ download' = [download EXCEPT ![i] = "failed"]
          /\ UNCHANGED temp
    /\ downloads' = downloads \ {i}
    /\ UNCHANGED <<uiVars, loopVars, op, registered, retries, saved>>

\* The lanes of the runs that await an operation; an answer nobody awaits is dropped.
Awaiting(i) == {loop[r].lane : r \in {q \in Run : loop[q].item = i /\ loop[q].at = "transcribing"}}

\* Only the upload to the cloud throws, and only it is repeated, unless aborted.
Results(i, j) ==
    IF Awaiting(i) = {} THEN {"none"}
    ELSE {"ok", "failed"}
           \cup {o \in {"thrown"} : j = "transcribe" /\ \E lane \in Awaiting(i) : lane.provider = "cloud"}
           \cup {o \in {"expired"} : /\ j = "transcribe" /\ op[i][j] = "running"
                                      /\ \E lane \in Awaiting(i) : lane.provider = "cloud"}

\* An operation ends and is taken out of the set it was registered in; a set
\* that a cancel has taken out of the registry is not the registry's any more.
OperationEnds(i, j) ==
    /\ Quiet
    /\ op[i][j] \in Live
    /\ \E result \in Results(i, j) : op' = [op EXCEPT ![i][j] = result]
    /\ registered' = [registered EXCEPT ![i] = IF op[i][j] = "aborted" THEN @ ELSE @ \ {j}]
    /\ UNCHANGED <<uiVars, loopVars, download, downloads, temp, retries, saved>>

Next ==
    \/ \E i \in Item : AddItem(i) \/ RemoveQueueItem(i) \/ DownloadEnds(i)
    \/ CancelBatch \/ ClearBatchQueue \/ ProcessBatchQueue
    \/ \E r \in Run : RunStep(r)
    \/ \E i \in Item, j \in Job : OperationEnds(i, j)

\* The event loops run their tasks, and main's work has timeouts.
Spec ==
    /\ Init /\ [][Next]_vars
    /\ \A r \in Run : WF_vars(RunStep(r))
    /\ \A i \in Item : WF_vars(DownloadEnds(i))
    /\ \A i \in Item, j \in Job : WF_vars(OperationEnds(i, j))

-----------------------------------------------------------------------------
(* What may never happen, and what must.                                      *)

\* The queue is shown as processing exactly while the loop of the current run
\* is at work: a stale run that ends late neither stops a newer one from being
\* shown nor leaves the queue locked.
DrainIsCurrent ==
    isProcessing <=> current # None /\ loop[current].at \in Busy \cup {"next"}

\* While the current run transcribes, activeUploadRequestId names its request
\* and the registry holds all that main runs for it, so that Cancel reaches it:
\* a stale run that comes back late must not erase the id of the newer one.
CancelReaches ==
    \A r \in Run :
        current = r /\ loop[r].at = "transcribing" =>
            /\ active = loop[r].item
            /\ \A j \in Job \ Unregistered(r) :
                  op[loop[r].item][j] = "running" => j \in registered[loop[r].item]

\* What the user has seen settled stays so until it is cleared, and no note is
\* written for an item that a cancel has settled, however late its
\* transcription or title arrives.
CancelHolds ==
    [][\A i \in Item :
          /\ status[i] \in Settled => status'[i] \in {status[i], "gone"}
          /\ saved' # saved /\ i \in saved' \ saved => status[i] = "transcribing"]_vars

\* A downloaded file is deleted in the end, by a stale run too.
TempsGo == \A i \in Item : (i \in temp) ~> (i \notin temp)
=============================================================================
