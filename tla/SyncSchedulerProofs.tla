----------------------- MODULE SyncSchedulerProofs -----------------------
(* Theorems about SyncScheduler for every set of windows and every bound:  *)
(* type correctness, the mutual exclusion of passes, and that a pass and   *)
(* the do-while of a phase offer what they should.                         *)
EXTENDS SyncScheduler, TLAPS

(* A window is in a pass exactly while it holds the lock.                  *)
LockInv == \A w \in Windows : InPass(w) <=> holder = w

(* What a run knows of the writes: they were made, its phase has read      *)
(* those the pass began with, and those asked for since or the flag is set.*)
PhaseInv ==
    \A w \in Windows, k \in Kinds :
        /\ run[w].seen[k] <= written[k]
        /\ run[w].asked[k] <= written[k]
        /\ run[w].at = k =>
              /\ run[w].seen[k] <= run[w].picked
              /\ run[w].asked[k] <= run[w].picked \/ k \in dirty[w]

(* A run that waits for the lock, or is past it, is a pass.                *)
LoneInv == \A w \in Windows : run[w].lone => run[w].at \in Kinds

(* Only full passes have dictionary and snippet phases.                    *)
FullInv == \A w \in Windows : run[w].at \in Kinds /\ ~run[w].lone => run[w].full

Inv == TypeOK /\ LockInv /\ PhaseInv /\ PassCovers /\ LoneInv /\ FullInv
--------------------------------------------------------------------------
(* Values of a run. *)

LEMMA KindValues == Kinds \subseteq Places /\ None \in [Kinds -> Numbers] /\ 0 \in Numbers
BY BoundAssumption DEF Kinds, Places, None, Numbers

LEMMA RunValues ==
    ASSUME TypeOK
    PROVE  /\ Idle \in Runs
           /\ [Idle EXCEPT !.lone = TRUE] \in Runs
           /\ \A wait \in BOOLEAN : NewPass(wait) \in Runs
BY KindValues DEF Idle, NewPass, Runs, Places, TypeOK

LEMMA MovedRun ==
    ASSUME NEW r \in Runs, NEW place \in Places, NEW rows \in Numbers
    PROVE  /\ [r EXCEPT !.at = place] \in Runs
           /\ [r EXCEPT !.at = place, !.picked = rows] \in Runs
BY DEF Runs

LEMMA AskedRun ==
    ASSUME NEW r \in Runs, NEW k \in Kinds, NEW n \in Numbers
    PROVE  /\ [r EXCEPT !.asked[k] = n] \in Runs
           /\ [r EXCEPT !.asked[k] = n].asked = [r.asked EXCEPT ![k] = n]
           /\ \A f \in {"at", "lone", "full", "picked", "seen"} :
                  [r EXCEPT !.asked[k] = n][f] = r[f]
BY DEF Runs

LEMMA LockedRun ==
    ASSUME NEW r \in Runs, NEW s \in [Kinds -> Numbers]
    PROVE  /\ [r EXCEPT !.at = "spaces", !.seen = s] \in Runs
           /\ [r EXCEPT !.at = "spaces", !.seen = s].at = "spaces"
           /\ [r EXCEPT !.at = "spaces", !.seen = s].seen = s
           /\ [r EXCEPT !.at = "spaces", !.seen = s].asked = r.asked
           /\ [r EXCEPT !.at = "spaces", !.seen = s].lone = r.lone
BY DEF Runs, Places

(* The run of one window is replaced by r. *)
LEMMA OneRun ==
    ASSUME NEW r \in Runs, NEW w \in Windows, TypeOK, run' = [run EXCEPT ![w] = r]
    PROVE  /\ run' \in [Windows -> Runs]
           /\ run'[w] = r
           /\ \A v \in Windows \ {w} : run'[v] = run[v]
BY DEF TypeOK
--------------------------------------------------------------------------
(* Requests. *)

LEMMA SyncAllInv ==
    ASSUME Inv, NEW w \in Windows, NEW wait \in BOOLEAN, SyncAll(w, wait),
           retry' \in [Windows -> BOOLEAN], asks' \in 0..MaxAsks,
           UNCHANGED <<dirty, shared, faults>>
    PROVE  Inv'
<1> USE DEF Inv, shared
<1>1. CASE UNCHANGED run
  <2>1. pending' \in [Windows -> BOOLEAN]
    BY <1>1 DEF SyncAll, TypeOK
  <2>2. TypeOK'
    BY <1>1, <2>1 DEF TypeOK
  <2>3. LockInv' /\ PhaseInv' /\ PassCovers' /\ LoneInv' /\ FullInv'
    BY <1>1 DEF LockInv, PhaseInv, PassCovers, InPass, LoneInv, FullInv
  <2>4. QED
    BY <2>2, <2>3
<1>2. CASE ~Syncing(w) /\ run' = [run EXCEPT ![w] = NewPass(wait)] /\ UNCHANGED pending
  <2>1. /\ run' \in [Windows -> Runs]
        /\ run'[w] = NewPass(wait)
        /\ \A v \in Windows \ {w} : run'[v] = run[v]
    BY <1>2, RunValues, OneRun
  <2>2. TypeOK'
    BY <1>2, <2>1 DEF TypeOK
  <2>3. /\ run'[w].at = "lock"
        /\ run'[w].seen = None
        /\ run'[w].asked = None
        /\ ~run'[w].lone
    BY <2>1 DEF NewPass, Idle
  <2>4. LockInv'
    BY <1>2, <2>1, <2>3 DEF LockInv, InPass, Syncing
  <2>5. PhaseInv'
    BY <1>2, <2>1, <2>3 DEF PhaseInv, None, TypeOK, Kinds, Numbers
  <2>6. PassCovers'
    BY <1>2, <2>1, <2>3 DEF PassCovers, InPass
  <2>7. LoneInv' /\ FullInv'
    BY <2>1, <2>3 DEF LoneInv, FullInv, Kinds
  <2>8. QED
    BY <2>2, <2>4, <2>5, <2>6, <2>7
<1>3. QED
  BY <1>1, <1>2 DEF SyncAll

LEMMA AskInv ==
    ASSUME Inv, NEW w \in Windows, Ask(w) \/ FirstProbe(w) \/ Ambient(w) \/ RetryFires(w)
    PROVE  Inv'
<1>1. CASE Ask(w)
  <2>1. asks' \in 0..MaxAsks
    BY <1>1, BoundAssumption DEF Ask, Inv, TypeOK
  <2>2. QED
    BY <1>1, <2>1, SyncAllInv DEF Ask, Inv, TypeOK
<1>2. CASE Ambient(w)
  BY <1>2, SyncAllInv DEF Ambient, Inv, TypeOK
<1>3. CASE FirstProbe(w)
  <2>1. asks' \in 0..MaxAsks
    BY <1>3, BoundAssumption DEF FirstProbe, Inv, TypeOK
  <2>2. QED
    BY <1>3, <2>1, SyncAllInv DEF FirstProbe, Inv, TypeOK
<1>4. CASE RetryFires(w)
  <2>1. retry' \in [Windows -> BOOLEAN]
    BY <1>4 DEF RetryFires, Inv, TypeOK
  <2>2. QED
    BY <1>4, <2>1, SyncAllInv DEF RetryFires, Inv, TypeOK
<1>5. QED
  BY <1>1, <1>2, <1>3, <1>4
--------------------------------------------------------------------------
(* Steps of one window. *)

(* Writes and offers only grow, and the flags of the other windows stay.   *)
Grows(w) ==
    /\ \A k \in Kinds : written[k] <= written'[k] /\ offered[k] <= offered'[k]
    /\ \A v \in Windows \ {w} : dirty'[v] = dirty[v]

(* A step of w keeps the invariant when the types hold after it, it moves  *)
(* the lock with its run, and its new run knows its writes.                *)
LEMMA WindowStep ==
    ASSUME Inv, NEW w \in Windows, TypeOK', Grows(w),
           \A v \in Windows \ {w} : run'[v] = run[v],
           \A v \in Windows \ {w} : holder' = v <=> holder = v,
           InPass(w)' <=> holder' = w,
           run'[w].lone => run'[w].at \in Kinds,
           run'[w].at \in Kinds /\ ~run'[w].lone => run'[w].full,
           \A k \in Kinds :
              /\ run'[w].seen[k] <= written'[k]
              /\ run'[w].asked[k] <= written'[k]
              /\ run'[w].at = k =>
                    /\ run'[w].seen[k] <= run'[w].picked
                    /\ run'[w].asked[k] <= run'[w].picked \/ k \in dirty'[w],
           InPass(w)' /\ run'[w].full =>
              /\ run'[w].at \in {"snippets", "last"} =>
                     offered'["dictionary"] >= run'[w].seen["dictionary"]
              /\ run'[w].at = "last" => offered'["snippets"] >= run'[w].seen["snippets"]
    PROVE  Inv'
<1>1. LockInv'
  BY DEF Inv, LockInv, InPass
<1>2. \A v \in Windows \ {w}, k \in Kinds :
          /\ run'[v].seen[k] \in Nat /\ run'[v].asked[k] \in Nat /\ run'[v].picked \in Nat
          /\ written[k] \in Nat /\ written'[k] \in Nat
          /\ offered[k] \in Nat /\ offered'[k] \in Nat
  BY DEF TypeOK, Runs, Numbers, Inv
<1>3. PhaseInv'
  <2> SUFFICES ASSUME NEW v \in Windows \ {w}, NEW k \in Kinds
               PROVE  /\ run'[v].seen[k] <= written'[k]
                      /\ run'[v].asked[k] <= written'[k]
                      /\ run'[v].at = k =>
                            /\ run'[v].seen[k] <= run'[v].picked
                            /\ run'[v].asked[k] <= run'[v].picked \/ k \in dirty'[v]
    BY DEF PhaseInv
  <2>1. /\ run[v].seen[k] <= written[k]
        /\ run[v].asked[k] <= written[k]
        /\ run[v].at = k =>
              /\ run[v].seen[k] <= run[v].picked
              /\ run[v].asked[k] <= run[v].picked \/ k \in dirty[v]
    BY DEF Inv, PhaseInv
  <2>2. run'[v] = run[v] /\ dirty'[v] = dirty[v] /\ written[k] <= written'[k]
    BY DEF Grows
  <2>3. QED
    BY <1>2, <2>1, <2>2
<1>4. PassCovers'
  <2> SUFFICES ASSUME NEW v \in Windows \ {w}, InPass(v)', run'[v].full
               PROVE  /\ run'[v].at \in {"snippets", "last"} =>
                             offered'["dictionary"] >= run'[v].seen["dictionary"]
                      /\ run'[v].at = "last" =>
                             offered'["snippets"] >= run'[v].seen["snippets"]
    BY DEF PassCovers
  <2>1. /\ run[v].at \in {"snippets", "last"} =>
               offered["dictionary"] >= run[v].seen["dictionary"]
        /\ run[v].at = "last" => offered["snippets"] >= run[v].seen["snippets"]
    BY DEF Inv, PassCovers, InPass
  <2>2. run'[v] = run[v] /\ \A k \in Kinds : offered[k] <= offered'[k]
    BY DEF Grows
  <2>3. QED
    BY <1>2, <2>1, <2>2 DEF Kinds
<1>5. LoneInv' /\ FullInv'
  BY DEF Inv, LoneInv, FullInv
<1>6. QED
  BY <1>1, <1>3, <1>4, <1>5 DEF Inv

(* A run that ended, and the pass that may follow it at once, know nothing *)
(* and hold nothing.                                                       *)
LEMMA EndedStep ==
    ASSUME Inv, NEW w \in Windows, TypeOK', Grows(w),
           run'[w] = Idle \/ run'[w] = NewPass(FALSE),
           \A v \in Windows \ {w} : run'[v] = run[v],
           \A v \in Windows \ {w} : holder' = v <=> holder = v,
           holder' # w
    PROVE  Inv'
<1>1. /\ run'[w].at \in {"idle", "lock"}
      /\ run'[w].seen = None
      /\ run'[w].asked = None
      /\ ~run'[w].lone
  <2>1. CASE run'[w] = Idle
    BY <2>1 DEF Idle
  <2>2. CASE run'[w] = NewPass(FALSE)
    BY <2>2 DEF NewPass, Idle
  <2>3. QED
    BY <2>1, <2>2
<1>2. ~InPass(w)'
  BY <1>1 DEF InPass
<1>3. \A k \in Kinds : /\ run'[w].seen[k] <= written'[k]
                        /\ run'[w].asked[k] <= written'[k]
                        /\ run'[w].at # k
  BY <1>1 DEF None, TypeOK, Kinds, Numbers
<1>4. QED
  BY <1>1, <1>2, <1>3, WindowStep

LEMMA EndTypes ==
    ASSUME TypeOK, NEW w \in Windows, EndPass(w) \/ EndRun(w)
    PROVE  /\ run' \in [Windows -> Runs]
           /\ run'[w] = Idle \/ run'[w] = NewPass(FALSE)
           /\ \A v \in Windows \ {w} : run'[v] = run[v]
<1>1. CASE run' = [run EXCEPT ![w] = Idle]
  BY <1>1, RunValues, OneRun
<1>2. CASE run' = [run EXCEPT ![w] = NewPass(FALSE)]
  BY <1>2, RunValues, OneRun
<1>3. QED
  BY <1>1, <1>2 DEF EndPass, EndRun

(* Leaving the lock while holding it, and ending a run that holds nothing. *)
LEMMA LeaveInv ==
    ASSUME Inv, NEW w \in Windows, Leave(w), holder = w,
           retry' \in [Windows -> BOOLEAN], recent' \in BOOLEAN,
           offered' \in [Kinds -> Numbers], \A k \in Kinds : offered[k] <= offered'[k],
           UNCHANGED <<dirty, consent, written, asks, faults>>
    PROVE  Inv'
<1>1. /\ run' \in [Windows -> Runs]
      /\ run'[w] = Idle \/ run'[w] = NewPass(FALSE)
      /\ \A v \in Windows \ {w} : run'[v] = run[v]
  BY EndTypes DEF Leave, Inv
<1>2. pending' \in [Windows -> BOOLEAN] /\ holder' = NoWindow
  BY DEF Leave, EndPass, Inv, TypeOK
<1>3. TypeOK'
  BY <1>1, <1>2 DEF Inv, TypeOK
<1>4. Grows(w)
  BY DEF Grows, Inv, TypeOK, Numbers
<1>5. holder' # w /\ \A v \in Windows \ {w} : holder' = v <=> holder = v
  BY <1>2, WindowAssumption
<1>6. QED
  BY <1>1, <1>3, <1>4, <1>5, EndedStep

(* Entering a phase: the run has read every write made.                    *)
LEMMA EnterInv ==
    ASSUME Inv, NEW w \in Windows, NEW r \in Runs, NEW k \in Kinds, NEW n \in Numbers,
           Enter(w, r, k, n), written' \in [Kinds -> Numbers], offered' \in [Kinds -> Numbers],
           n = written'[k],
           \A j \in Kinds : written[j] <= written'[j] /\ offered[j] <= offered'[j],
           \A j \in Kinds : r.seen[j] <= written'[j] /\ r.asked[j] <= written'[j],
           ~r.lone <=> holder = w,
           ~r.lone => r.full,
           k = "snippets" => offered'["dictionary"] >= r.seen["dictionary"] \/ r.lone,
           UNCHANGED <<pending, retry, holder, recent, consent, asks, faults>>
    PROVE  Inv'
<1>1. [r EXCEPT !.at = k, !.picked = n] \in Runs
  BY MovedRun, KindValues
<1>2. /\ run' \in [Windows -> Runs]
      /\ run'[w] = [r EXCEPT !.at = k, !.picked = n]
      /\ \A v \in Windows \ {w} : run'[v] = run[v]
  BY <1>1, OneRun DEF Enter, Inv
<1>3. /\ run'[w].at = k /\ run'[w].picked = n
      /\ run'[w].seen = r.seen /\ run'[w].asked = r.asked
      /\ run'[w].lone = r.lone /\ run'[w].full = r.full
  BY <1>2 DEF Runs
<1>4. dirty' \in [Windows -> SUBSET Kinds] /\ \A v \in Windows \ {w} : dirty'[v] = dirty[v]
  BY DEF Enter, Inv, TypeOK
<1>5. TypeOK'
  BY <1>2, <1>4 DEF Inv, TypeOK
<1>6. Grows(w)
  BY <1>4 DEF Grows
<1>7. InPass(w)' <=> holder' = w
  BY <1>3 DEF InPass, Kinds
<1>8. \A j \in Kinds :
          /\ run'[w].seen[j] <= written'[j]
          /\ run'[w].asked[j] <= written'[j]
          /\ run'[w].at = j => /\ run'[w].seen[j] <= run'[w].picked
                               /\ run'[w].asked[j] <= run'[w].picked
  BY <1>3
<1>9. InPass(w)' /\ run'[w].full =>
         /\ run'[w].at \in {"snippets", "last"} =>
                offered'["dictionary"] >= run'[w].seen["dictionary"]
         /\ run'[w].at = "last" => offered'["snippets"] >= run'[w].seen["snippets"]
  BY <1>3 DEF InPass, Kinds
<1>10. QED
  BY <1>2, <1>3, <1>5, <1>6, <1>7, <1>8, <1>9, WindowStep
--------------------------------------------------------------------------
(* The actions. *)

LEMMA WriteInv ==
    ASSUME Inv, NEW w \in Windows, NEW k \in Kinds, Write(w, k)
    PROVE  Inv'
<1> DEFINE n == written[k] + 1
<1>1. /\ n \in Numbers
      /\ written' \in [Kinds -> Numbers]
      /\ written'[k] = n
      /\ \A j \in Kinds : written[j] <= written'[j]
  BY BoundAssumption DEF Write, Inv, TypeOK, Numbers
<1>2. UNCHANGED <<pending, retry, holder, recent, consent, offered, asks, faults>>
  BY DEF Write
<1>3. \A j \in Kinds : offered[j] <= offered'[j]
  BY <1>2 DEF Inv, TypeOK, Numbers
<1> HIDE DEF n
<1>4. CASE UNCHANGED <<run, dirty>>
  <2>1. TypeOK'
    BY <1>1, <1>2, <1>4 DEF Inv, TypeOK
  <2>2. LockInv' /\ PassCovers' /\ LoneInv' /\ FullInv'
    BY <1>2, <1>4 DEF Inv, LockInv, PassCovers, InPass, LoneInv, FullInv
  <2>3. \A v \in Windows, j \in Kinds : run[v].seen[j] \in Nat /\ run[v].asked[j] \in Nat
                                       /\ written[j] \in Nat /\ written'[j] \in Nat
    BY <1>1 DEF Inv, TypeOK, Runs, Numbers
  <2>4. PhaseInv'
    BY <1>1, <1>4, <2>3 DEF Inv, PhaseInv
  <2>5. QED
    BY <2>1, <2>2, <2>4 DEF Inv
<1>5. CASE Syncing(w) /\ dirty' = [dirty EXCEPT ![w] = @ \cup {k}]
                      /\ run' = [run EXCEPT ![w] = [@ EXCEPT !.asked[k] = n]]
  <2>1. /\ run' \in [Windows -> Runs]
        /\ \A v \in Windows \ {w} : run'[v] = run[v]
        /\ run'[w].at = run[w].at /\ run'[w].lone = run[w].lone /\ run'[w].full = run[w].full
        /\ run'[w].picked = run[w].picked /\ run'[w].seen = run[w].seen
        /\ run'[w].asked = [run[w].asked EXCEPT ![k] = n]
    <3>1. run[w] \in Runs
      BY DEF Inv, TypeOK
    <3>2. [run[w] EXCEPT !.asked[k] = n] \in Runs
      BY <1>1, <3>1, AskedRun
    <3>3. /\ run' \in [Windows -> Runs]
          /\ run'[w] = [run[w] EXCEPT !.asked[k] = n]
          /\ \A v \in Windows \ {w} : run'[v] = run[v]
      BY <1>5, <3>2, OneRun DEF Inv
    <3>4. QED
      BY <1>1, <3>1, <3>3, AskedRun
  <2>2. dirty' \in [Windows -> SUBSET Kinds] /\ dirty'[w] = dirty[w] \cup {k}
        /\ \A v \in Windows \ {w} : dirty'[v] = dirty[v]
    BY <1>5 DEF Inv, TypeOK
  <2>3. TypeOK'
    BY <1>1, <1>2, <2>1, <2>2 DEF Inv, TypeOK
  <2>4. Grows(w)
    BY <1>1, <1>3, <2>2 DEF Grows
  <2>5. InPass(w)' <=> holder' = w
    BY <1>2, <2>1 DEF Inv, LockInv, InPass
  <2>6. \A j \in Kinds :
           /\ run[w].seen[j] \in Nat /\ run[w].asked[j] \in Nat /\ run[w].picked \in Nat
           /\ written[j] \in Nat /\ written'[j] \in Nat
    BY <1>1 DEF Inv, TypeOK, Runs, Numbers
  <2>7. \A j \in Kinds :
           /\ run'[w].seen[j] <= written'[j]
           /\ run'[w].asked[j] <= written'[j]
           /\ run'[w].at = j => /\ run'[w].seen[j] <= run'[w].picked
                                /\ run'[w].asked[j] <= run'[w].picked \/ j \in dirty'[w]
    <3> SUFFICES ASSUME NEW j \in Kinds
                 PROVE  /\ run'[w].seen[j] <= written'[j]
                        /\ run'[w].asked[j] <= written'[j]
                        /\ run'[w].at = j => /\ run'[w].seen[j] <= run'[w].picked
                                             /\ \/ run'[w].asked[j] <= run'[w].picked
                                                \/ j \in dirty'[w]
      OBVIOUS
    <3>1. /\ run[w].seen[j] <= written[j]
          /\ run[w].asked[j] <= written[j]
          /\ run[w].at = j =>
                /\ run[w].seen[j] <= run[w].picked
                /\ run[w].asked[j] <= run[w].picked \/ j \in dirty[w]
      BY DEF Inv, PhaseInv
    <3>2. run'[w].asked[j] = IF j = k THEN n ELSE run[w].asked[j]
      BY <2>1 DEF Inv, TypeOK, Runs
    <3>3. QED
      BY <1>1, <2>1, <2>2, <2>6, <3>1, <3>2
  <2>8. InPass(w)' /\ run'[w].full =>
           /\ run'[w].at \in {"snippets", "last"} =>
                  offered'["dictionary"] >= run'[w].seen["dictionary"]
           /\ run'[w].at = "last" => offered'["snippets"] >= run'[w].seen["snippets"]
    BY <1>2, <2>1 DEF Inv, PassCovers, InPass
  <2>9. /\ run'[w].lone => run'[w].at \in Kinds
        /\ run'[w].at \in Kinds /\ ~run'[w].lone => run'[w].full
    BY <2>1 DEF Inv, LoneInv, FullInv
  <2>10. QED
    BY <1>2, <2>1, <2>3, <2>4, <2>5, <2>7, <2>8, <2>9, WindowStep
<1>6. CASE ~Syncing(w) /\ Enter(w, [Idle EXCEPT !.lone = TRUE], k, n)
  <2> DEFINE r == [Idle EXCEPT !.lone = TRUE]
  <2>1. r \in Runs
    BY RunValues DEF Inv
  <2>2. r.seen = None /\ r.asked = None /\ r.lone = TRUE
    BY DEF Idle
  <2> HIDE DEF r
  <2>3. holder # w
    BY <1>6 DEF Inv, LockInv, InPass, Syncing
  <2>4. \A j \in Kinds : r.seen[j] <= written'[j] /\ r.asked[j] <= written'[j]
    BY <1>1, <2>2 DEF None, Numbers
  <2>5. Enter(w, r, k, n)
    BY <1>6 DEF r
  <2>6. offered' \in [Kinds -> Numbers]
    BY <1>2 DEF Inv, TypeOK
  <2>7. QED
    BY <1>1, <1>2, <1>3, <2>1, <2>2, <2>3, <2>4, <2>5, <2>6, EnterInv
<1>7. QED
  BY <1>4, <1>5, <1>6 DEF Write, SyncNow, n

LEMMA LockSteps ==
    ASSUME Inv, NEW w \in Windows, GetLock(w) \/ SkipLock(w)
    PROVE  Inv'
<1>1. CASE GetLock(w)
  <2>1. /\ run' \in [Windows -> Runs]
        /\ \A v \in Windows \ {w} : run'[v] = run[v]
        /\ run'[w].at = "spaces" /\ run'[w].seen = written
        /\ run'[w].lone = run[w].lone /\ run'[w].asked = run[w].asked
    <3>1. run[w] \in Runs /\ written \in [Kinds -> Numbers]
      BY DEF Inv, TypeOK
    <3>2. [run[w] EXCEPT !.at = "spaces", !.seen = written] \in Runs
      BY <3>1, LockedRun
    <3> DEFINE r == [run[w] EXCEPT !.at = "spaces", !.seen = written]
    <3>3. r.at = "spaces" /\ r.seen = written /\ r.asked = run[w].asked /\ r.lone = run[w].lone
      BY <3>1, LockedRun
    <3>4. run' = [run EXCEPT ![w] = r]
      BY <1>1 DEF GetLock
    <3> HIDE DEF r
    <3>5. run' \in [Windows -> Runs] /\ run'[w] = r /\ \A v \in Windows \ {w} : run'[v] = run[v]
      BY <3>2, <3>4, OneRun DEF Inv, r
    <3>6. QED
      BY <3>3, <3>5
  <2>3. TypeOK'
    BY <1>1, <2>1 DEF GetLock, Inv, TypeOK
  <2>4. Grows(w)
    BY <1>1 DEF GetLock, Grows, Inv, TypeOK, Numbers
  <2>5. ~run[w].lone
    BY <1>1 DEF GetLock, Inv, LoneInv, Kinds
  <2>6. InPass(w)' /\ holder' = w /\ \A v \in Windows \ {w} : holder' # v /\ holder # v
    BY <1>1, <2>1, <2>5, WindowAssumption DEF GetLock, InPass
  <2>7. \A j \in Kinds :
           /\ run'[w].seen[j] <= written'[j]
           /\ run'[w].asked[j] <= written'[j]
           /\ run'[w].at # j
    BY <1>1, <2>1 DEF GetLock, Inv, TypeOK, PhaseInv, Kinds, Numbers
  <2>8. ~run'[w].lone /\ run'[w].at \notin Kinds
    BY <2>1, <2>5 DEF Kinds
  <2>9. run'[w].at \notin {"snippets", "last"}
    BY <2>1
  <2>10. QED
    BY <2>1, <2>3, <2>4, <2>6, <2>7, <2>8, <2>9, WindowStep
<1>2. CASE SkipLock(w)
  <2>1. /\ run' \in [Windows -> Runs]
        /\ run'[w] = Idle \/ run'[w] = NewPass(FALSE)
        /\ \A v \in Windows \ {w} : run'[v] = run[v]
    BY <1>2, EndTypes DEF SkipLock, Inv
  <2>2. TypeOK'
    BY <1>2, <2>1 DEF SkipLock, EndPass, shared, Inv, TypeOK
  <2>3. Grows(w) /\ UNCHANGED holder
    BY <1>2 DEF SkipLock, shared, Grows, Inv, TypeOK, Numbers
  <2>4. holder # w
    BY <1>2 DEF SkipLock, Inv, LockInv, InPass
  <2>5. QED
    BY <2>1, <2>2, <2>3, <2>4, EndedStep
<1>3. QED
  BY <1>1, <1>2

(* A pass moves on to a place that is not a phase.                         *)
LEMMA MovedStep ==
    ASSUME Inv, NEW w \in Windows, InPass(w), NEW r \in Runs, run' = [run EXCEPT ![w] = r],
           r.at \in {"rest", "last"}, r.lone = run[w].lone, r.full = run[w].full,
           r.seen = run[w].seen, r.asked = run[w].asked,
           offered' \in [Kinds -> Numbers],
           \A k \in Kinds : offered[k] <= offered'[k],
           r.at = "last" /\ r.full => \A k \in Kinds : offered'[k] >= r.seen[k],
           UNCHANGED <<pending, dirty, retry, holder, recent, consent, written, asks, faults>>
    PROVE  Inv'
<1>1. /\ run' \in [Windows -> Runs]
      /\ run'[w] = r
      /\ \A v \in Windows \ {w} : run'[v] = run[v]
  BY OneRun DEF Inv
<1>2. TypeOK'
  BY <1>1 DEF Inv, TypeOK
<1>3. Grows(w)
  BY DEF Grows, Inv, TypeOK, Numbers
<1>4. InPass(w)' <=> holder' = w
  BY <1>1 DEF Inv, LockInv, InPass
<1>5. \A k \in Kinds :
          /\ run'[w].seen[k] <= written'[k]
          /\ run'[w].asked[k] <= written'[k]
          /\ run'[w].at # k
  BY <1>1 DEF Inv, PhaseInv, Kinds
<1>6. ~run'[w].lone
  BY <1>1 DEF InPass
<1>7. run'[w].at \notin Kinds
  BY <1>1 DEF Kinds
<1>8. QED
  BY <1>1, <1>2, <1>3, <1>4, <1>5, <1>6, <1>7, WindowStep DEF Kinds

LEMMA ProbedRun ==
    ASSUME NEW r \in Runs, NEW ok \in BOOLEAN
    PROVE  /\ [r EXCEPT !.at = "rest", !.probed = ok] \in Runs
           /\ [r EXCEPT !.at = "rest", !.probed = ok].at = "rest"
           /\ [r EXCEPT !.at = "rest", !.probed = ok].lone = r.lone
           /\ [r EXCEPT !.at = "rest", !.probed = ok].full = r.full
           /\ [r EXCEPT !.at = "rest", !.probed = ok].seen = r.seen
           /\ [r EXCEPT !.at = "rest", !.probed = ok].asked = r.asked
BY DEF Runs, Places

LEMMA LastRun ==
    ASSUME NEW r \in Runs
    PROVE  /\ [r EXCEPT !.at = "last"] \in Runs
           /\ [r EXCEPT !.at = "last"].at = "last"
           /\ [r EXCEPT !.at = "last"].lone = r.lone
           /\ [r EXCEPT !.at = "last"].full = r.full
           /\ [r EXCEPT !.at = "last"].seen = r.seen
           /\ [r EXCEPT !.at = "last"].asked = r.asked
BY DEF Runs, Places

LEMMA SpacesInv ==
    ASSUME Inv, NEW w \in Windows, SpacesDone(w)
    PROVE  Inv'
<1>1. InPass(w) /\ holder = w /\ run[w] \in Runs
  BY DEF SpacesDone, Inv, TypeOK, LockInv, LoneInv, InPass, Kinds
<1>2. offered' \in [Kinds -> Numbers] /\ \A k \in Kinds : offered[k] <= offered'[k]
  <2>1. UNCHANGED offered
    BY Zenon DEF SpacesDone
  <2>2. QED
    BY <2>1 DEF Inv, TypeOK, Numbers
<1>3. CASE Leave(w)
  BY <1>1, <1>2, <1>3, LeaveInv DEF SpacesDone, Inv, TypeOK
<1>4. ASSUME NEW ok \in BOOLEAN, UNCHANGED <<pending, holder>>,
             run' = [run EXCEPT ![w] = [@ EXCEPT !.at = "rest", !.probed = ok]]
      PROVE  Inv'
  <2> DEFINE r == [run[w] EXCEPT !.at = "rest", !.probed = ok]
  <2>1. /\ r \in Runs /\ r.at = "rest" /\ r.lone = run[w].lone /\ r.full = run[w].full
        /\ r.seen = run[w].seen /\ r.asked = run[w].asked
    BY <1>1, <1>4, ProbedRun
  <2>2. run' = [run EXCEPT ![w] = r]
    BY <1>4
  <2> HIDE DEF r
  <2>3. QED
    BY <1>1, <1>2, <1>4, <2>1, <2>2, MovedStep DEF SpacesDone
<1>5. QED
  BY <1>3, <1>4 DEF SpacesDone

(* MoveTo the analytics, once both phases are covered or not due.          *)
LEMMA LastInv ==
    ASSUME Inv, NEW w \in Windows, InPass(w), MoveTo(w, "last"),
           offered' \in [Kinds -> Numbers],
           \A k \in Kinds : offered[k] <= offered'[k],
           run[w].full => \A k \in Kinds : offered'[k] >= run[w].seen[k],
           UNCHANGED <<pending, dirty, retry, holder, recent, consent, written, asks, faults>>
    PROVE  Inv'
<1> DEFINE r == [run[w] EXCEPT !.at = "last"]
<1>1. run[w] \in Runs
  BY DEF Inv, TypeOK
<1>2. /\ r \in Runs /\ r.at = "last" /\ r.lone = run[w].lone /\ r.full = run[w].full
      /\ r.seen = run[w].seen /\ r.asked = run[w].asked
  BY <1>1, LastRun
<1>3. run' = [run EXCEPT ![w] = r]
  BY DEF MoveTo
<1> HIDE DEF r
<1>4. QED
  BY <1>2, <1>3, MovedStep

LEMMA RestInv ==
    ASSUME Inv, NEW w \in Windows, RestDone(w)
    PROVE  Inv'
<1>1. InPass(w) /\ holder = w /\ run[w] \in Runs /\ ~run[w].lone
  BY DEF RestDone, Inv, TypeOK, LockInv, LoneInv, InPass, Kinds
<1>2. offered' \in [Kinds -> Numbers] /\ \A k \in Kinds : offered[k] <= offered'[k]
  BY DEF RestDone, Inv, TypeOK, Numbers
<1>3. CASE Leave(w) /\ UNCHANGED dirty
  BY <1>1, <1>2, <1>3, LeaveInv DEF RestDone, Inv, TypeOK
<1>4. CASE /\ run[w].full
           /\ Enter(w, run[w], "dictionary", written["dictionary"])
           /\ UNCHANGED <<pending, holder>>
  <2>1. written' = written /\ written \in [Kinds -> Numbers]
    BY DEF RestDone, Inv, TypeOK
  <2>2. \A k \in Kinds : written[k] <= written'[k] /\ run[w].seen[k] <= written'[k]
                        /\ run[w].asked[k] <= written'[k]
    BY <2>1 DEF Inv, PhaseInv, Numbers
  <2>3. "dictionary" \in Kinds /\ written["dictionary"] \in Numbers
    BY <2>1 DEF Kinds
  <2>4. QED
    BY <1>1, <1>2, <1>4, <2>1, <2>2, <2>3, EnterInv DEF RestDone
<1>5. CASE ~run[w].full /\ MoveTo(w, "last") /\ UNCHANGED <<pending, holder, dirty>>
  BY <1>1, <1>2, <1>5, LastInv DEF RestDone
<1>6. QED
  BY <1>3, <1>4, <1>5 DEF RestDone

(* The end of a run that did not hold the lock, whatever else it resets.   *)
LEMMA EndedInv ==
    ASSUME Inv, NEW w \in Windows, EndRun(w), holder # w, UNCHANGED holder,
           pending' \in [Windows -> BOOLEAN], faults' \in 0..MaxFaults,
           offered' \in [Kinds -> Numbers],
           \A k \in Kinds : offered[k] <= offered'[k],
           UNCHANGED <<dirty, retry, recent, consent, written, asks>>
    PROVE  Inv'
<1>1. /\ run' \in [Windows -> Runs]
      /\ run'[w] = Idle \/ run'[w] = NewPass(FALSE)
      /\ \A v \in Windows \ {w} : run'[v] = run[v]
  BY EndTypes DEF Inv
<1>2. TypeOK'
  BY <1>1 DEF Inv, TypeOK
<1>3. Grows(w)
  BY DEF Grows, Inv, TypeOK, Numbers
<1>4. QED
  BY <1>1, <1>2, <1>3, EndedStep

LEMMA PhaseDoneInv ==
    ASSUME Inv, NEW w \in Windows, NEW k \in Kinds, PhaseDone(w, k)
    PROVE  Inv'
<1>1. /\ run[w] \in Runs /\ run[w].at = k /\ run[w].picked \in Numbers
      /\ ~run[w].lone <=> holder = w
      /\ ~run[w].lone => InPass(w)
  BY DEF PhaseDone, Inv, TypeOK, LockInv, InPass, Runs, Kinds
<1>2. /\ offered' \in [Kinds -> Numbers]
      /\ \A j \in Kinds : offered[j] <= offered'[j]
      /\ run[w].picked <= offered'[k]
  BY <1>1 DEF PhaseDone, Inv, TypeOK, Numbers, Later
<1>3. UNCHANGED <<retry, recent, consent, written, asks, faults>>
  BY DEF PhaseDone
<1>4. \A j \in Kinds : /\ written[j] \in Nat /\ run[w].seen[j] \in Nat
                        /\ offered[j] \in Nat /\ offered'[j] \in Nat
  BY <1>1, <1>2 DEF Inv, TypeOK, Runs, Numbers
<1>5. \A j \in Kinds : /\ written[j] <= written'[j] /\ run[w].seen[j] <= written'[j]
                        /\ run[w].asked[j] <= written'[j]
  BY <1>3, <1>4 DEF Inv, PhaseInv
<1>6. run[w].seen[k] <= offered'[k]
  <2>1. run[w].seen[k] <= run[w].picked
    BY <1>1 DEF Inv, PhaseInv
  <2>2. QED
    BY <1>1, <1>2, <1>4, <2>1 DEF Numbers
<1>7. k = "snippets" /\ ~run[w].lone /\ run[w].full =>
          offered'["dictionary"] >= run[w].seen["dictionary"]
  <2> SUFFICES ASSUME k = "snippets", ~run[w].lone, run[w].full
               PROVE  offered'["dictionary"] >= run[w].seen["dictionary"]
    OBVIOUS
  <2>1. offered["dictionary"] >= run[w].seen["dictionary"]
    BY <1>1 DEF Inv, PassCovers
  <2>2. QED
    BY <1>2, <1>4, <2>1 DEF Kinds
<1>8. ~run[w].lone => run[w].full
  BY <1>1 DEF Inv, FullInv
<1>9. written \in [Kinds -> Numbers] /\ written' \in [Kinds -> Numbers]
  BY <1>3 DEF Inv, TypeOK
<1>10. CASE Enter(w, run[w], k, written[k]) /\ UNCHANGED <<pending, holder>>
  <2>1. k = "snippets" => offered'["dictionary"] >= run[w].seen["dictionary"] \/ run[w].lone
    BY <1>7, <1>8
  <2>2. written[k] \in Numbers /\ written[k] = written'[k]
    BY <1>3, <1>9
  <2>3. UNCHANGED <<pending, retry, holder, recent, consent, asks, faults>>
    BY <1>3, <1>10
  <2>4. ~run[w].lone => run[w].full
    BY <1>8
  <2>5. Enter(w, run[w], k, written[k])
    BY <1>10
  <2>6. QED
    BY <1>1, <1>2, <1>5, <1>9, <2>1, <2>2, <2>3, <2>4, <2>5, EnterInv
<1>11. CASE run[w].lone /\ EndRun(w) /\ UNCHANGED <<pending, holder, dirty>>
  BY <1>1, <1>2, <1>3, <1>11, EndedInv DEF Inv, TypeOK
<1>12. CASE ~run[w].lone /\ AfterPhase(w, k)
  <2>1. CASE k = "dictionary" /\ Enter(w, run[w], "snippets", written["snippets"])
             /\ UNCHANGED <<pending, holder>>
    <3>1. "snippets" \in Kinds /\ written["snippets"] \in Numbers
      BY <1>9 DEF Kinds
    <3>2. offered'["dictionary"] >= run[w].seen["dictionary"]
      BY <1>4, <1>6, <2>1
    <3>3. written["snippets"] = written'["snippets"]
      BY <1>3
    <3>4. UNCHANGED <<pending, retry, holder, recent, consent, asks, faults>>
      BY <1>3, <2>1
    <3>5. Enter(w, run[w], "snippets", written["snippets"])
      BY <2>1
    <3>6. QED
      BY <1>1, <1>2, <1>5, <1>8, <1>9, <3>1, <3>2, <3>3, <3>4, <3>5, EnterInv
  <2>2. CASE k = "snippets" /\ MoveTo(w, "last") /\ UNCHANGED <<pending, holder, dirty>>
    <3>1. \A j \in Kinds : offered'[j] >= run[w].seen[j]
      BY <1>4, <1>6, <1>7, <1>8, <1>12, <2>2 DEF Kinds
    <3>2. QED
      BY <1>1, <1>2, <1>3, <1>12, <2>2, <3>1, LastInv
  <2>3. CASE Leave(w) /\ UNCHANGED dirty
    BY <1>1, <1>2, <1>3, <1>12, <2>3, LeaveInv DEF Inv, TypeOK
  <2>4. QED
    BY <1>12, <2>1, <2>2, <2>3 DEF AfterPhase
<1>13. QED
  BY <1>10, <1>11, <1>12 DEF PhaseDone

LEMMA LastDoneInv ==
    ASSUME Inv, NEW w \in Windows, LastDone(w)
    PROVE  Inv'
<1>1. holder = w
  BY DEF LastDone, Inv, LockInv, LoneInv, InPass, Kinds
<1>2. retry' \in [Windows -> BOOLEAN] /\ recent' \in BOOLEAN
  BY DEF LastDone, Inv, TypeOK
<1>3. offered' \in [Kinds -> Numbers] /\ \A k \in Kinds : offered[k] <= offered'[k]
  BY DEF LastDone, Inv, TypeOK, Numbers
<1>4. QED
  BY <1>1, <1>2, <1>3, LeaveInv DEF LastDone

LEMMA FaultInv ==
    ASSUME Inv, NEW w \in Windows, PassThrows(w) \/ LoneThrows(w) \/ Reload(w)
    PROVE  Inv'
<1>1. faults' \in 0..MaxFaults
  BY BoundAssumption DEF PassThrows, LoneThrows, Reload, Fault, Inv, TypeOK
<1>2. UNCHANGED <<recent, consent, written, offered, asks>>
  BY DEF PassThrows, LoneThrows, Reload, shared
<1>3. offered' \in [Kinds -> Numbers] /\ \A k \in Kinds : offered[k] <= offered'[k]
  BY <1>2 DEF Inv, TypeOK, Numbers
<1>4. EndPass(w) \/ EndRun(w)
  BY DEF PassThrows, LoneThrows, Reload
<1>5. /\ run' \in [Windows -> Runs]
      /\ run'[w] = Idle \/ run'[w] = NewPass(FALSE)
      /\ \A v \in Windows \ {w} : run'[v] = run[v]
  BY <1>4, EndTypes DEF Inv
<1>6. CASE PassThrows(w)
  <2>1. holder = w /\ holder' = NoWindow /\ UNCHANGED dirty
    BY <1>6 DEF PassThrows, Inv, LockInv
  <2>2. retry' \in [Windows -> BOOLEAN] /\ pending' \in [Windows -> BOOLEAN]
    BY <1>6 DEF PassThrows, EndPass, Inv, TypeOK
  <2>3. TypeOK'
    BY <1>1, <1>2, <1>5, <2>1, <2>2 DEF Inv, TypeOK
  <2>4. Grows(w)
    BY <1>2, <1>3, <2>1 DEF Grows, Inv, TypeOK, Numbers
  <2>5. QED
    BY <1>5, <2>1, <2>3, <2>4, WindowAssumption, EndedStep
<1>7. CASE LoneThrows(w)
  <2>1. holder # w /\ EndRun(w) /\ UNCHANGED <<pending, dirty, retry, shared, asks>>
    BY <1>7 DEF LoneThrows, Inv, LockInv, InPass
  <2>2. QED
    BY <1>1, <1>3, <2>1, EndedInv DEF Inv, TypeOK, shared
<1>8. CASE Reload(w)
  <2>1. /\ pending' \in [Windows -> BOOLEAN]
        /\ dirty' \in [Windows -> SUBSET Kinds]
        /\ retry' \in [Windows -> BOOLEAN]
        /\ \A v \in Windows \ {w} : dirty'[v] = dirty[v]
    BY <1>8 DEF Reload, Inv, TypeOK
  <2>2. /\ holder' \in Windows \cup {NoWindow} /\ holder' # w
        /\ \A v \in Windows \ {w} : holder' = v <=> holder = v
    BY <1>8, WindowAssumption DEF Reload, Inv, TypeOK
  <2>3. TypeOK'
    BY <1>1, <1>2, <1>5, <2>1, <2>2 DEF Inv, TypeOK
  <2>4. Grows(w)
    BY <1>2, <1>3, <2>1 DEF Grows, Inv, TypeOK, Numbers
  <2>5. QED
    BY <1>5, <2>2, <2>3, <2>4, EndedStep
<1>9. QED
  BY <1>6, <1>7, <1>8

LEMMA InvInit == Init => Inv
<1> SUFFICES ASSUME Init PROVE Inv
  OBVIOUS
<1>1. TypeOK
  <2>1. Idle \in Runs
    BY KindValues DEF Idle, Runs, Places
  <2>2. run \in [Windows -> Runs]
    BY <2>1 DEF Init
  <2>3. written \in [Kinds -> Numbers] /\ offered \in [Kinds -> Numbers]
    BY KindValues DEF Init
  <2>4. asks \in 0..MaxAsks /\ faults \in 0..MaxFaults
    BY BoundAssumption DEF Init
  <2>5. QED
    BY <2>2, <2>3, <2>4, ConsentAssumption DEF Init, TypeOK
<1>2. \A w \in Windows : run[w].at = "idle" /\ ~run[w].lone /\ run[w].seen = None
                                            /\ run[w].asked = None
  BY DEF Init, Idle
<1>3. LockInv /\ PassCovers
  BY <1>2, WindowAssumption DEF Init, LockInv, PassCovers, InPass
<1>4. PhaseInv /\ LoneInv /\ FullInv
  BY <1>2 DEF Init, PhaseInv, LoneInv, FullInv, None, Kinds
<1>5. QED
  BY <1>1, <1>3, <1>4 DEF Inv

(* What neither the time nor the account changes.                          *)
LEMMA StillInv ==
    ASSUME Inv, UNCHANGED <<window, holder, written, offered, asks>>,
           recent' \in BOOLEAN, consent' \in Consents, faults' \in 0..MaxFaults
    PROVE  Inv'
<1>1. TypeOK'
  BY DEF Inv, TypeOK, window
<1>2. LockInv' /\ PhaseInv' /\ PassCovers' /\ LoneInv' /\ FullInv'
  BY DEF Inv, LockInv, PhaseInv, PassCovers, LoneInv, FullInv, InPass, window
<1>3. QED
  BY <1>1, <1>2 DEF Inv

LEMMA InvStep == Inv /\ [Next]_vars => Inv'
<1> SUFFICES ASSUME Inv, [Next]_vars PROVE Inv'
  OBVIOUS
<1>1. CASE UNCHANGED vars
  BY <1>1, StillInv DEF vars, shared, Inv, TypeOK
<1>2. CASE Expire
  BY <1>2, StillInv DEF Expire, Inv, TypeOK
<1>3. CASE ChangeConsent
  <2>1. faults' \in 0..MaxFaults
    BY <1>3, BoundAssumption DEF ChangeConsent, Fault, Inv, TypeOK
  <2>2. QED
    BY <1>3, <2>1, StillInv DEF ChangeConsent, Inv, TypeOK
<1>4. CASE \E w \in Windows :
              \/ \E k \in Kinds : Write(w, k)
              \/ Ask(w) \/ FirstProbe(w) \/ Ambient(w) \/ RetryFires(w)
              \/ Run(w)
              \/ PassThrows(w) \/ LoneThrows(w) \/ Reload(w)
  BY <1>4, WriteInv, AskInv, LockSteps, SpacesInv, RestInv, PhaseDoneInv, LastDoneInv, FaultInv
     DEF Run
<1>5. QED
  BY <1>1, <1>2, <1>3, <1>4 DEF Next

(* Runs, flags and counters always hold what their types say.              *)
THEOREM TypesHold == Spec => []TypeOK
<1>1. Spec => []Inv
  BY InvInit, InvStep, PTL DEF Spec
<1>2. Inv => TypeOK
  BY DEF Inv
<1>3. QED
  BY <1>1, <1>2, PTL

(* No two windows are ever in a pass at the same time.                     *)
THEOREM PassesExclude == Spec => []OnePass
<1>1. Spec => []Inv
  BY InvInit, InvStep, PTL DEF Spec
<1>2. Inv => OnePass
  BY DEF Inv, LockInv, OnePass
<1>3. QED
  BY <1>1, <1>2, PTL

(* The writes made before a full pass began are offered once it leaves     *)
(* their phase.                                                            *)
THEOREM PassesCover == Spec => []PassCovers
<1>1. Spec => []Inv
  BY InvInit, InvStep, PTL DEF Spec
<1>2. Inv => PassCovers
  BY DEF Inv
<1>3. QED
  BY <1>1, <1>2, PTL
--------------------------------------------------------------------------
(* Leaving a phase. *)

(* Only the end of its round moves a run out of its phase, faults aside.   *)
LEMMA OnlyPhaseDoneLeaves ==
    ASSUME Inv, Next, NEW w \in Windows, NEW k \in Kinds,
           run[w].at = k, run'[w].at # k, faults' = faults
    PROVE  PhaseDone(w, k)
<1>1. Syncing(w) /\ run[w].at \notin {"idle", "lock", "spaces", "rest", "last"}
  BY DEF Syncing, Kinds
<1>2. faults \in Nat /\ run \in [Windows -> Runs]
  BY BoundAssumption DEF Inv, TypeOK
<1>3. ~Expire /\ ~ChangeConsent
  BY <1>2 DEF Expire, ChangeConsent, window, Fault
<1>4. PICK v \in Windows :
         \/ \E j \in Kinds : Write(v, j)
         \/ Ask(v) \/ FirstProbe(v) \/ Ambient(v) \/ RetryFires(v)
         \/ Run(v)
         \/ PassThrows(v) \/ LoneThrows(v) \/ Reload(v)
  BY <1>3 DEF Next
<1>5. ~PassThrows(v) /\ ~LoneThrows(v) /\ ~Reload(v)
  BY <1>2 DEF PassThrows, LoneThrows, Reload, Fault
<1>6. ASSUME NEW r, run' = [run EXCEPT ![v] = r]
      PROVE  v = w
  BY <1>2, <1>6
<1>7. ASSUME NEW j \in Kinds, Write(v, j)
      PROVE  FALSE
  <2>1. CASE run' = [run EXCEPT ![v] = [@ EXCEPT !.asked[j] = written[j] + 1]]
    <3>1. v = w
      BY <1>2, <2>1
    <3>2. run[w] \in Runs /\ written[j] + 1 \in Numbers
      BY <1>2, <1>7, BoundAssumption DEF Write, Inv, TypeOK, Numbers
    <3>3. [run[w] EXCEPT !.asked[j] = written[j] + 1]["at"] = run[w].at
      BY <3>2, AskedRun
    <3>4. run'[w] = [run[w] EXCEPT !.asked[j] = written[j] + 1]
      BY <1>2, <2>1, <3>1
    <3>5. QED
      BY <3>3, <3>4
  <2>2. CASE ~Syncing(v) /\ Enter(v, [Idle EXCEPT !.lone = TRUE], j, written[j] + 1)
    BY <1>1, <1>2, <2>2 DEF Enter
  <2>3. CASE UNCHANGED run
    BY <2>3
  <2>4. QED
    BY <1>7, <2>1, <2>2, <2>3 DEF Write, SyncNow
<1>8. ASSUME NEW wait \in BOOLEAN, SyncAll(v, wait)
      PROVE  FALSE
  BY <1>1, <1>2, <1>8 DEF SyncAll
<1>9. ~Ask(v) /\ ~FirstProbe(v) /\ ~Ambient(v) /\ ~RetryFires(v)
  BY <1>8 DEF Ask, FirstProbe, Ambient, RetryFires
<1>10. ~(EndPass(v) /\ run[v].at \in {"lock", "spaces", "rest", "last"})
  BY <1>1, <1>2 DEF EndPass, EndRun
<1>11. ~GetLock(v) /\ ~SkipLock(v)
  BY <1>1, <1>2, <1>10 DEF GetLock, SkipLock
<1>12. ~SpacesDone(v) /\ ~RestDone(v) /\ ~LastDone(v)
  BY <1>1, <1>2, <1>10 DEF SpacesDone, RestDone, LastDone, Leave, Enter, MoveTo
<1>13. PICK j \in Kinds : PhaseDone(v, j)
  BY <1>4, <1>5, <1>7, <1>9, <1>11, <1>12 DEF Run
<1>14. v = w
  BY <1>2, <1>13 DEF PhaseDone, AfterPhase, Enter, EndRun, EndPass, Leave, MoveTo
<1>15. QED
  BY <1>13, <1>14 DEF PhaseDone

(* A run that leaves a phase has offered every write its window asked to   *)
(* sync while it ran.                                                      *)
THEOREM FlagsDrain == Spec => DrainedOnLeave
<1>1. Inv /\ [Next]_vars =>
        [\A w \in Windows, k \in Kinds :
            run[w].at = k /\ run'[w].at # k /\ faults' = faults =>
                offered'[k] >= run[w].asked[k]]_vars
  <2> SUFFICES ASSUME Inv, Next, NEW w \in Windows, NEW k \in Kinds,
                      run[w].at = k, run'[w].at # k, faults' = faults
               PROVE  offered'[k] >= run[w].asked[k]
    OBVIOUS
  <2>1. PhaseDone(w, k)
    BY OnlyPhaseDoneLeaves
  <2>2. run[w] \in Runs /\ offered \in [Kinds -> Numbers]
    BY DEF Inv, TypeOK
  <2>3. run[w].picked \in Nat /\ run[w].asked[k] \in Nat /\ offered[k] \in Nat
    BY <2>2 DEF Runs, Numbers
  <2>4. offered'[k] >= run[w].picked
    BY <2>1, <2>2, <2>3 DEF PhaseDone, Later
  <2>5. k \notin dirty[w]
    <3>1. ~Enter(w, run[w], k, written[k])
      <4> SUFFICES ASSUME Enter(w, run[w], k, written[k]) PROVE FALSE
        OBVIOUS
      <4>1. written[k] \in Numbers /\ k \in Places
        BY KindValues DEF Inv, TypeOK
      <4>2. [run[w] EXCEPT !.at = k, !.picked = written[k]].at = k
        BY <2>2, <4>1 DEF Runs
      <4>3. run'[w] = [run[w] EXCEPT !.at = k, !.picked = written[k]]
        BY DEF Enter, Inv, TypeOK
      <4>4. QED
        BY <4>2, <4>3
    <3>2. QED
      BY <2>1, <3>1 DEF PhaseDone, Again
  <2>6. run[w].asked[k] <= run[w].picked
    BY <2>5 DEF Inv, PhaseInv
  <2>7. offered'[k] \in Nat
    BY <2>1, <2>2, <2>3 DEF PhaseDone, Later
  <2>8. QED
    BY <2>3, <2>4, <2>6, <2>7
<1>2. QED
  BY <1>1, InvInit, InvStep, PTL DEF Spec, DrainedOnLeave
==========================================================================
