-------------------------- MODULE LocalServerProofs --------------------------
(* The parakeet server never loses a child: for any number of callers, models *)
(* and children, as long as every child closes within the grace period of its *)
(* SIGTERM, there is one server, its flags tell the truth, and every start is *)
(* served by the model it asked for.                                          *)
EXTENDS LocalServer, TLAPS

\* The steps of a startup, which holds startupPromise.
Startups == {"stopping", "porting", "loading", "warming"}

\* Who holds the startup, and what the calls wait for.
Held ==
    /\ \A c \in Caller : call[c].pc \in Startups <=> startup = c
    /\ \A c \in Caller :
          /\ ~At(c, "killing")
          /\ call[c].pc \in Startups => call[c].rung = 1
          /\ Closing(c) => Target(c) \in Child
          /\ At(c, "queueing") => Target(c) \in Caller \cup {None}
          /\ At(c, "joining") =>
                /\ Target(c) = startup
                /\ startup # None
                /\ call[c].model = call[startup].model
    /\ ~up => proc = None /\ ~ready /\ \A c \in Caller : call[c] = Idle

\* The child the app knows of is the one that lives.
Known ==
    /\ OneServer
    /\ proc # None => Live(proc)
    /\ \A c \in Caller :
          /\ Closing(c) => \A k \in Child : Live(k) => k = Target(c)
          /\ Closing(c) => child[Target(c)] # "unborn"
          /\ At(c, "porting") => proc = None

\* The startup under way loads the child for its model.
Loading ==
    \A c \in Caller :
        /\ At(c, "loading") =>
              proc # None /\ Target(c) = proc /\ serves[proc] = call[c].model /\ model = call[c].model
        /\ At(c, "warming") /\ proc # None =>
              child[proc] = "serving" /\ serves[proc] = call[c].model

ServerInv ==
    /\ TypeOK
    /\ Held
    /\ ~lapsed => Known /\ ReadyIsTrue /\ ServesRequest /\ Loading
-----------------------------------------------------------------------------
\* What the end of a startup leaves of the calls that did not take part in it.
Stays(d) ==
    \/ call'[d] = call[d]
    \/ /\ At(d, "queueing")
       /\ call'[d] = [pc |-> "queueing", model |-> call[d].model, on |-> None,
                      rung |-> call[d].rung]

\* What a settled startup leaves of the calls.
LEMMA SettleReturns ==
  ASSUME TypeOK, Held, NEW c \in Caller, startup = c, NEW ok \in BOOLEAN, Settle(c, ok)
  PROVE  /\ startup' = None
         /\ call' \in [Caller -> Calls]
         /\ \A d \in Caller :
               \/ /\ d # c
                  /\ Stays(d)
                  /\ ~At(d, "joining")
                  /\ call[d].pc \notin Startups
               \/ call'[d] = Idle
               \/ ok /\ call'[d].pc = "started" /\ call'[d].model = call[c].model
  <1>1. startup' = None
    BY DEF Settle
  <1>2. \A d \in Caller : call[d] \in Calls
    BY DEF TypeOK
  <1>3. ASSUME NEW d \in Caller
        PROVE  /\ call'[d] \in Calls
               /\ \/ /\ d # c
                     /\ Stays(d)
                     /\ ~At(d, "joining")
                     /\ call[d].pc \notin Startups
                  \/ call'[d] = Idle
                  \/ ok /\ call'[d].pc = "started" /\ call'[d].model = call[c].model
    <2>1. CASE ~(d = c \/ (At(d, "joining") /\ Target(d) = c))
      <3>1. ~At(d, "joining") /\ call[d].pc \notin Startups
        BY <2>1 DEF Held
      <3>2. CASE At(d, "queueing") /\ Target(d) = c
        <4>1. call'[d] = [call[d] EXCEPT !.on = None]
          BY <2>1, <3>2 DEF Settle, Settled
        <4>2. /\ call[d] \in Calls
              /\ call'[d] = [pc |-> "queueing", model |-> call[d].model, on |-> None,
                             rung |-> call[d].rung]
          BY <3>2, <4>1, <1>2 DEF Calls, At
        <4>3. call'[d] \in Calls
          BY <4>2 DEF Calls, Steps
        <4>4. QED BY <2>1, <3>1, <3>2, <4>2, <4>3 DEF Stays
      <3>3. CASE ~(At(d, "queueing") /\ Target(d) = c)
        <4>1. call'[d] = call[d]
          BY <2>1, <3>3 DEF Settle, Settled
        <4>2. QED BY <2>1, <3>1, <4>1, <1>2 DEF Stays
      <3>4. QED BY <3>2, <3>3
    <2>2. CASE d = c \/ (At(d, "joining") /\ Target(d) = c)
      <3>1. call[d].model = call[c].model
        BY <2>2 DEF Held
      <3>2. CASE ok
        <4>1. call'[d] = [pc |-> "started", model |-> call[d].model, on |-> None, rung |-> 0]
          BY <2>2, <3>2 DEF Settle, Settled, Idle
        <4>2. call[d].model \in Model \cup {None}
          BY <1>2 DEF Calls
        <4>3. call'[d] \in Calls
          BY <4>1, <4>2, Ladder DEF Calls, Steps
        <4>4. QED BY <3>1, <3>2, <4>1, <4>3
      <3>3. CASE ~ok
        <4>1. call'[d] = Idle
          BY <2>2, <3>3 DEF Settle, Settled
        <4>2. QED BY <4>1, Ladder DEF Idle, Calls, Steps
      <3>4. QED BY <3>2, <3>3
    <2>3. QED BY <2>1, <2>2
  <1>4. call' = [d \in Caller |-> call'[d]]
    BY DEF Settle, Settled
  <1>5. call' \in [Caller -> Calls]
    BY <1>3, <1>4
  <1>6. QED BY <1>1, <1>3, <1>5

\* What a call that moves leaves of the others.
LEMMA GoesMoves ==
  ASSUME TypeOK, NEW c \in Caller, NEW pc \in Steps, NEW m \in Model \cup {None},
         NEW on \in Child \cup Caller \cup {None}, NEW rung \in 0..Rungs,
         Goes(c, pc, m, on, rung)
  PROVE  /\ call' \in [Caller -> Calls]
         /\ call'[c] = [pc |-> pc, model |-> m, on |-> on, rung |-> rung]
         /\ \A d \in Caller \ {c} : call'[d] = call[d]
  BY DEF TypeOK, Goes, Calls

\* The parts of the invariant that speak of the children and of the flags.
Sound == Known /\ ReadyIsTrue /\ ServesRequest /\ Loading

LEMMA InitInv == Init => ServerInv
  <1> SUFFICES ASSUME Init PROVE ServerInv
    OBVIOUS
  <1>1. Idle \in Calls
    BY Ladder DEF Idle, Calls, Steps
  <1>2. TypeOK
    <2>1. child \in [Child -> {"unborn", "loading", "serving", "dead"}]
      BY DEF Init
    <2>2. serves \in [Child -> Model \cup {None}]
      BY DEF Init
    <2>3. call \in [Caller -> Calls]
      BY <1>1 DEF Init
    <2>4. crashes \in 0..MaxCrashes
      BY Bounds DEF Init
    <2>5. QED BY <2>1, <2>2, <2>3, <2>4 DEF Init, TypeOK
  <1>3. \A c \in Caller : call[c] = Idle
    BY DEF Init
  <1>4. Held
    BY <1>3, NoneIsNothing DEF Init, Held, Startups, At, Closing, Idle
  <1>5. Known
    BY <1>3 DEF Init, Known, OneServer, Live, At, Closing, Idle
  <1>6. ReadyIsTrue /\ ServesRequest /\ Loading
    BY <1>3 DEF Init, ReadyIsTrue, ServesRequest, Loading, At, Idle
  <1>7. QED BY <1>2, <1>4, <1>5, <1>6 DEF ServerInv

LEMMA EntersKeeps ==
  ASSUME Kind = "parakeet", ServerInv, NEW c \in Caller, NEW m \in Model \cup {None},
         call[c].pc \in {"idle", "queueing"}, up, Enters(c, m), UNCHANGED <<up, crashes>>
  PROVE  ServerInv'
  <1>0. TypeOK /\ Held
    BY DEF ServerInv
  <1>1. CASE startup # None
    <2>1. PICK pc \in {"joining", "queueing"} :
              Goes(c, pc, m, startup, 0) /\ (pc = "joining" => call[startup].model = m)
      BY <1>1 DEF Enters, Joins
    <2>2. startup \in Caller
      BY <1>0, <1>1 DEF TypeOK
    <2>3. /\ call' \in [Caller -> Calls]
          /\ call'[c] = [pc |-> pc, model |-> m, on |-> startup, rung |-> 0]
          /\ \A d \in Caller \ {c} : call'[d] = call[d]
      BY <1>0, <2>1, <2>2, Ladder, GoesMoves DEF Steps
    <2>4. UNCHANGED <<childVars, proc, ready, model, startup, up, crashes>>
      BY <1>1 DEF Enters
    <2>5. TypeOK'
      BY <1>0, <2>3, <2>4 DEF TypeOK, childVars
    <2>6. startup # c
      BY <1>0 DEF Held, Startups
    <2>7. Held'
      BY <1>0, <1>1, <2>1, <2>2, <2>3, <2>4, <2>6 DEF Held, Startups, At, Closing, Target
    <2>8. ASSUME ~lapsed' PROVE Sound'
      <3>1. Sound
        BY <2>4, <2>8 DEF ServerInv, Sound, childVars
      <3>2. Known'
        BY <2>3, <2>4, <3>1 DEF Sound, Known, OneServer, Live, At, Closing, Target, childVars
      <3>3. ReadyIsTrue'
        BY <2>4, <3>1 DEF Sound, ReadyIsTrue, childVars
      <3>4. ServesRequest' /\ Loading'
        BY <2>3, <2>4, <3>1 DEF Sound, ServesRequest, Loading, At, Target, childVars
      <3>5. QED BY <3>2, <3>3, <3>4 DEF Sound
    <2>9. QED BY <2>5, <2>7, <2>8 DEF ServerInv, Sound
  <1>2. CASE startup = None /\ ready /\ model = m
    <2>1. Goes(c, "started", m, None, 0)
      BY <1>2 DEF Enters
    <2>3. /\ call' \in [Caller -> Calls]
          /\ call'[c] = [pc |-> "started", model |-> m, on |-> None, rung |-> 0]
          /\ \A d \in Caller \ {c} : call'[d] = call[d]
      BY <1>0, <2>1, Ladder, GoesMoves DEF Steps
    <2>4. UNCHANGED <<childVars, proc, ready, model, startup, up, crashes>>
      BY <1>2 DEF Enters
    <2>5. TypeOK'
      BY <1>0, <2>3, <2>4 DEF TypeOK, childVars
    <2>7. Held'
      BY <1>0, <1>2, <2>3, <2>4, NoneIsNothing DEF Held, Startups, At, Closing, Target
    <2>8. ASSUME ~lapsed' PROVE Sound'
      <3>1. Sound
        BY <2>4, <2>8 DEF ServerInv, Sound, childVars
      <3>2. Known'
        BY <2>3, <2>4, <3>1 DEF Sound, Known, OneServer, Live, At, Closing, Target, childVars
      <3>3. ReadyIsTrue'
        BY <2>4, <3>1 DEF Sound, ReadyIsTrue, childVars
      <3>4. ServesRequest'
        BY <1>2, <2>3, <2>4, <2>8, <3>1 DEF Sound, ServesRequest, ReadyIsTrue, At, childVars
      <3>5. Loading'
        BY <2>3, <2>4, <3>1 DEF Sound, Loading, At, Target, childVars
      <3>6. QED BY <3>2, <3>3, <3>4, <3>5 DEF Sound
    <2>9. QED BY <2>5, <2>7, <2>8 DEF ServerInv, Sound
  <1>3. CASE startup = None /\ ~(ready /\ model = m)
    <2>1. /\ startup' = c
          /\ UNCHANGED <<child, serves, lapsed, pidFile, proc, ready, model, up, crashes>>
      BY <1>3 DEF Enters, Claims
    <2>2. PICK pc \in {"stopping", "porting"} :
              /\ Goes(c, pc, m, proc, 1)
              /\ pc = "porting" <=> proc = None
      BY <1>3 DEF Enters, Occupied
    <2>3. proc \in Child \cup {None}
      BY <1>0 DEF TypeOK
    <2>4. /\ call' \in [Caller -> Calls]
          /\ call'[c] = [pc |-> pc, model |-> m, on |-> proc, rung |-> 1]
          /\ \A d \in Caller \ {c} : call'[d] = call[d]
      BY <1>0, <2>2, <2>3, Ladder, GoesMoves DEF Steps
    <2>5. signalled' \subseteq Child
      BY <1>0, <1>3, <2>3 DEF Enters, Occupied, TypeOK
    <2>6. TypeOK'
      BY <1>0, <2>1, <2>4, <2>5 DEF TypeOK
    <2>7. Held'
      BY <1>0, <1>3, <2>1, <2>2, <2>3, <2>4, NoneIsNothing DEF Held, Startups, At, Closing, Target
    <2>8. ASSUME ~lapsed' PROVE Sound'
      <3>1. Sound /\ ~lapsed
        BY <2>1, <2>8 DEF ServerInv, Sound
      <3>2. Known'
        BY <1>3, <2>1, <2>2, <2>3, <2>4, <3>1
           DEF Sound, Known, OneServer, Live, At, Closing, Target
      <3>3. ReadyIsTrue'
        BY <2>1, <3>1 DEF Sound, ReadyIsTrue
      <3>4. ServesRequest' /\ Loading'
        BY <2>1, <2>4, <3>1 DEF Sound, ServesRequest, Loading, At, Target
      <3>5. QED BY <3>2, <3>3, <3>4 DEF Sound
    <2>9. QED BY <2>6, <2>7, <2>8 DEF ServerInv, Sound
  <1>4. QED BY <1>1, <1>2, <1>3

\* A startup that settles without a change of the server: it failed, or it is
\* sound to use what it loaded.
LEMMA SettleKeeps ==
  ASSUME ServerInv, NEW c \in Caller, startup = c, NEW ok \in BOOLEAN, Settle(c, ok),
         UNCHANGED <<childVars, proc, ready, model, up, crashes>>,
         ok /\ ~lapsed /\ proc # None => child[proc] = "serving" /\ serves[proc] = call[c].model
  PROVE  ServerInv'
  <1>0. TypeOK /\ Held /\ c # None
    BY NoneIsNothing DEF ServerInv
  <1>1. /\ startup' = None
        /\ call' \in [Caller -> Calls]
        /\ \A d \in Caller :
              \/ /\ d # c
                 /\ Stays(d)
                 /\ ~At(d, "joining")
                 /\ call[d].pc \notin Startups
              \/ call'[d] = Idle
              \/ ok /\ call'[d].pc = "started" /\ call'[d].model = call[c].model
    BY <1>0, SettleReturns
  <1>2. TypeOK'
    BY <1>0, <1>1 DEF TypeOK, childVars
  <1>3. up
    BY <1>0 DEF Held, Startups, Idle
  <1>4. Held'
    BY <1>0, <1>1, <1>3, NoneIsNothing DEF Held, Startups, At, Closing, Target, Idle, Stays
  <1>5. ASSUME ~lapsed' PROVE Sound'
    <2>1. Sound /\ ~lapsed
      BY <1>5 DEF ServerInv, Sound, childVars
    <2>2. Known'
      BY <1>1, <2>1 DEF Sound, Known, OneServer, Live, At, Closing, Target, childVars, Idle, Stays
    <2>3. ReadyIsTrue'
      BY <2>1 DEF Sound, ReadyIsTrue, childVars
    <2>4. ServesRequest'
      BY <1>1, <2>1 DEF Sound, ServesRequest, At, childVars, Idle, Stays
    <2>5. Loading'
      BY <1>1, <2>1 DEF Sound, Loading, At, Target, childVars, Idle, Stays
    <2>6. QED BY <2>2, <2>3, <2>4, <2>5 DEF Sound
  <1>6. QED BY <1>2, <1>4, <1>5 DEF ServerInv, Sound

LEMMA PortedKeeps ==
  ASSUME Kind = "parakeet", ServerInv, NEW c \in Caller, Ported(c)
  PROVE  ServerInv'
  <1>0. TypeOK /\ Held /\ At(c, "porting") /\ Quiet /\ startup = c
    BY DEF ServerInv, Ported, Held, At, Startups
  <1>1. CASE Settle(c, FALSE) /\ UNCHANGED <<childVars, proc, ready, model>>
    BY <1>0, <1>1, SettleKeeps DEF Ported
  <1>2. ASSUME NEW k \in Child,
               child[k] = "unborn",
               child' = [child EXCEPT ![k] = "loading"],
               serves' = [serves EXCEPT ![k] = call[c].model],
               proc' = k,
               pidFile' = k,
               model' = IF call[c].rung = 1 THEN call[c].model ELSE model,
               Goes(c, "loading", call[c].model, k, call[c].rung),
               UNCHANGED <<signalled, lapsed, ready, startup, up, crashes>>
        PROVE  ServerInv'
    <2>1. call[c] \in Calls
      BY <1>0 DEF TypeOK
    <2>2. call[c].model \in Model \cup {None} /\ call[c].rung \in 0..Rungs
      BY <2>1 DEF Calls
    <2>3. /\ call' \in [Caller -> Calls]
          /\ call'[c] = [pc |-> "loading", model |-> call[c].model, on |-> k, rung |-> call[c].rung]
          /\ \A d \in Caller \ {c} : call'[d] = call[d]
      BY <1>0, <1>2, <2>2, GoesMoves DEF Steps
    <2>4. /\ child' \in [Child -> {"unborn", "loading", "serving", "dead"}]
          /\ serves' \in [Child -> Model \cup {None}]
          /\ child'[k] = "loading" /\ serves'[k] = call[c].model
          /\ \A j \in Child \ {k} : child'[j] = child[j] /\ serves'[j] = serves[j]
      BY <1>0, <1>2, <2>2 DEF TypeOK
    <2>5. TypeOK'
      BY <1>0, <1>2, <2>2, <2>3, <2>4 DEF TypeOK
    <2>6. Held'
      BY <1>0, <1>2, <2>3 DEF Held, Startups, At, Closing, Target, Idle
    <2>7. ASSUME ~lapsed' PROVE Sound'
      <3>1. Sound /\ ~lapsed
        BY <1>2, <2>7 DEF ServerInv, Sound
      <3>2. /\ proc = None
            /\ ~ready
            /\ \A j \in Child : ~Live(j)
            /\ up
        BY <1>0, <3>1, NoneIsNothing DEF Sound, Known, OneServer, ReadyIsTrue, Held, At, Idle, Child
      <3>3. \A d \in Caller : ~Closing(d)
        BY <1>0, <3>1, <3>2 DEF Sound, Known, Held, Quiet, Due, Closing, Live, TypeOK
      <3>4. \A d \in Caller : ~At(d, "started")
        BY <1>0 DEF Quiet, Due
      <3>5. k # None
        BY NoneIsNothing DEF Child
      <3>6. Known'
        <4>1. OneServer'
          BY <1>2, <2>4, <3>2 DEF OneServer, Live
        <4>2. QED BY <1>0, <1>2, <2>3, <2>4, <3>1, <3>3, <4>1
                  DEF Sound, Known, Live, At, Closing, Held, Startups
      <3>7. ReadyIsTrue' /\ ServesRequest'
        BY <1>2, <2>3, <3>2, <3>4 DEF ReadyIsTrue, ServesRequest, At
      <3>8. call[c].rung = 1
        BY <1>0 DEF Held, At, Startups
      <3>9. Loading'
        BY <1>0, <1>2, <2>3, <2>4, <3>5, <3>8 DEF Loading, At, Target, Held, Startups
      <3>10. QED BY <3>6, <3>7, <3>9 DEF Sound
    <2>8. QED BY <2>5, <2>6, <2>7 DEF ServerInv, Sound
  <1>3. QED BY <1>1, <1>2 DEF Ported

LEMMA CompletesKeeps ==
  ASSUME Kind = "parakeet", ServerInv, NEW c \in Caller, Completes(c)
  PROVE  ServerInv'
  <1>1. /\ At(c, "warming")
        /\ Settle(c, TRUE)
        /\ UNCHANGED <<childVars, proc, ready, model, up, crashes>>
    BY DEF Completes, Warmed, childVars
  <1>2. startup = c
    BY <1>1 DEF ServerInv, Held, At, Startups
  <1>3. ~lapsed /\ proc # None => child[proc] = "serving" /\ serves[proc] = call[c].model
    BY <1>1 DEF ServerInv, Loading
  <1>4. QED BY <1>1, <1>2, <1>3, SettleKeeps

LEMMA TimesOutKeeps ==
  ASSUME Kind = "parakeet", ServerInv, NEW c \in Caller, TimesOut(c)
  PROVE  ServerInv'
  <1>1. startup = c /\ call[c].rung = 1
    BY DEF ServerInv, Held, At, Startups, TimesOut
  <1>2. ~(call[c].rung < Rungs)
    BY <1>1, Ladder
  <1>3. Fails(c, proc) /\ UNCHANGED <<child, serves, lapsed, pidFile, proc, ready, model, up, crashes>>
    BY DEF TimesOut
  <1>4. Settle(c, FALSE) /\ UNCHANGED signalled
    BY <1>2, <1>3 DEF Fails
  <1>5. UNCHANGED <<childVars, proc, ready, model, up, crashes>>
    BY <1>3, <1>4 DEF childVars
  <1>6. QED BY <1>1, <1>4, <1>5, SettleKeeps

LEMMA UsesKeeps ==
  ASSUME ServerInv, NEW c \in Caller, Uses(c)
  PROVE  ServerInv'
  <1>0. TypeOK /\ Held
    BY DEF ServerInv
  <1>1. /\ call'[c] = Idle
        /\ \A d \in Caller \ {c} : call'[d] = call[d]
        /\ UNCHANGED <<childVars, proc, ready, model, startup, up, crashes>>
    BY <1>0 DEF Uses, TypeOK
  <1>2. Idle \in Calls
    BY Ladder DEF Idle, Calls, Steps
  <1>3. TypeOK'
    BY <1>0, <1>1, <1>2 DEF Uses, TypeOK, childVars
  <1>4. Held'
    BY <1>0, <1>1 DEF Uses, Held, Startups, At, Closing, Target, Idle
  <1>5. ASSUME ~lapsed' PROVE Sound'
    <2>1. Sound /\ ~lapsed
      BY <1>1, <1>5 DEF ServerInv, Sound, childVars
    <2>2. Known'
      BY <1>1, <2>1 DEF Sound, Known, OneServer, Live, At, Closing, Target, childVars, Idle
    <2>3. ReadyIsTrue' /\ ServesRequest' /\ Loading'
      BY <1>1, <2>1 DEF Sound, ReadyIsTrue, ServesRequest, Loading, At, Target, childVars, Idle
    <2>4. QED BY <2>2, <2>3 DEF Sound
  <1>6. QED BY <1>3, <1>4, <1>5 DEF ServerInv, Sound

\* The end of a wait for a child: a stop returns, a startup goes on.
LEMMA EndsCalls ==
  ASSUME ServerInv, NEW c \in Caller, Closing(c), Ends(c), UNCHANGED <<up, crashes>>
  PROVE  /\ call' \in [Caller -> Calls]
         /\ startup' = startup
         /\ \A d \in Caller \ {c} : call'[d] = call[d]
         /\ \/ call'[c] = Idle /\ startup # c
            \/ /\ call'[c] = [pc |-> "porting", model |-> call[c].model, on |-> None,
                              rung |-> call[c].rung]
               /\ startup = c
         /\ Held'
  <1>0. TypeOK /\ Held
    BY DEF ServerInv
  <1>1. call[c] \in Calls
    BY <1>0 DEF TypeOK
  <1>2. call[c].model \in Model \cup {None} /\ call[c].rung \in 0..Rungs
    BY <1>1 DEF Calls
  <1>3. proc' = None /\ ready' = FALSE
    BY DEF Ends
  <1>4. CASE At(c, "stop")
    <2>1. call'[c] = Idle /\ \A d \in Caller \ {c} : call'[d] = call[d]
      BY <1>0, <1>4 DEF Ends, TypeOK
    <2>2. Idle \in Calls
      BY Ladder DEF Idle, Calls, Steps
    <2>3. call' \in [Caller -> Calls]
      BY <1>0, <1>4, <2>2 DEF Ends, TypeOK
    <2>4. startup' = startup /\ startup # c
      BY <1>0, <1>4 DEF Ends, At, Held, Startups
    <2>5. Held'
      <3>1. up
        BY <1>0, <1>4 DEF Held, At, Idle
      <3>2. \A d \in Caller : call'[d].pc \in Startups <=> startup' = d
        BY <1>0, <1>4, <2>1, <2>4 DEF Held, Startups, At, Idle
      <3>3. ASSUME NEW d \in Caller, call'[d].pc = "joining"
            PROVE  call'[d].on = startup' /\ startup' # None /\ call'[d].model = call'[startup'].model
        <4>1. d # c /\ call'[d] = call[d]
          BY <2>1, <3>3 DEF Idle
        <4>2. call[d].on = startup /\ startup # None /\ call[d].model = call[startup].model
          BY <1>0, <3>3, <4>1 DEF Held, At, Target
        <4>3. startup \in Caller \ {c}
          BY <1>0, <2>4, <4>2 DEF TypeOK
        <4>4. QED BY <2>1, <2>4, <4>1, <4>2, <4>3
      <3>4. \A d \in Caller : call'[d].pc # "killing" /\ (call'[d].pc \in Startups => call'[d].rung = 1)
        BY <1>0, <2>1 DEF Held, At, Startups, Idle
      <3>5. \A d \in Caller : call'[d].pc \in {"stop", "stopping", "killing"} => call'[d].on \in Child
        BY <1>0, <2>1 DEF Held, Closing, Target, Idle
      <3>6. \A d \in Caller : call'[d].pc = "queueing" => call'[d].on \in Caller \cup {None}
        BY <1>0, <2>1 DEF Held, At, Target, Idle
      <3>7. QED BY <3>1, <3>2, <3>3, <3>4, <3>5, <3>6 DEF Held, At, Closing, Target
    <2>6. QED BY <2>1, <2>3, <2>4, <2>5
  <1>5. CASE At(c, "stopping")
    <2>1. Goes(c, "porting", call[c].model, None, call[c].rung)
      BY <1>5 DEF Ends, At
    <2>2. /\ call' \in [Caller -> Calls]
          /\ call'[c] = [pc |-> "porting", model |-> call[c].model, on |-> None,
                         rung |-> call[c].rung]
          /\ \A d \in Caller \ {c} : call'[d] = call[d]
      BY <1>0, <1>2, <2>1, GoesMoves DEF Steps
    <2>3. startup = c /\ startup' = startup
      BY <1>0, <1>5 DEF Ends, At, Held, Startups
    <2>4. Held'
      BY <1>0, <1>3, <1>5, <2>2, <2>3 DEF Held, Startups, At, Closing, Target, Idle
    <2>5. QED BY <2>2, <2>3, <2>4
  <1>6. QED BY <1>0, <1>4, <1>5 DEF Closing, At, Held

LEMMA ChildClosedKeeps ==
  ASSUME ServerInv, NEW c \in Caller, ChildClosed(c)
  PROVE  ServerInv'
  <1>0. TypeOK /\ Held /\ Closing(c) /\ Ends(c) /\ UNCHANGED <<childVars, up, crashes>>
    BY DEF ServerInv, ChildClosed
  <1>1. /\ call' \in [Caller -> Calls]
        /\ startup' = startup
        /\ \A d \in Caller \ {c} : call'[d] = call[d]
        /\ \/ call'[c] = Idle /\ startup # c
           \/ /\ call'[c] = [pc |-> "porting", model |-> call[c].model, on |-> None,
                             rung |-> call[c].rung]
              /\ startup = c
        /\ Held'
    BY <1>0, EndsCalls
  <1>2. proc' = None /\ ready' = FALSE /\ model' \in Model \cup {None}
    BY <1>0 DEF Ends, TypeOK
  <1>3. TypeOK'
    BY <1>0, <1>1, <1>2 DEF TypeOK, childVars
  <1>4. ASSUME ~lapsed' PROVE Sound'
    <2>1. Sound /\ ~lapsed
      BY <1>0, <1>4 DEF ServerInv, Sound, childVars
    <2>2. child[Target(c)] = "dead"
      BY DEF ChildClosed
    <2>3. \A k \in Child : ~Live(k)
      BY <1>0, <2>1, <2>2 DEF Sound, Known, Live
    <2>4. Known'
      BY <1>0, <1>1, <1>2, <2>1, <2>3
         DEF Sound, Known, OneServer, Live, At, Closing, Target, childVars, Idle
    <2>5. ReadyIsTrue' /\ ServesRequest'
      BY <1>2 DEF ReadyIsTrue, ServesRequest
    <2>6. \A d \in Caller : ~At(d, "loading")
      BY <1>0, <2>1, <2>3 DEF Sound, Loading, Known, TypeOK
    <2>7. Loading'
      BY <1>1, <1>2, <2>6 DEF Loading, At, Idle
    <2>8. QED BY <2>4, <2>5, <2>7 DEF Sound
  <1>5. QED BY <1>1, <1>3, <1>4 DEF ServerInv, Sound

\* Nothing is claimed after a child has outlived its grace period.
LEMMA GraceElapsesKeeps ==
  ASSUME ServerInv, NEW c \in Caller, GraceElapses(c)
  PROVE  ServerInv'
  <1>0. /\ TypeOK /\ Closing(c) /\ Ends(c) /\ lapsed' = TRUE
        /\ UNCHANGED <<child, serves, signalled, pidFile, up, crashes>>
    BY DEF ServerInv, GraceElapses
  <1>1. call' \in [Caller -> Calls] /\ startup' = startup /\ Held'
    BY <1>0, EndsCalls
  <1>2. proc' = None /\ ready' = FALSE /\ model' \in Model \cup {None}
    BY <1>0 DEF Ends, TypeOK
  <1>3. TypeOK'
    BY <1>0, <1>1, <1>2 DEF TypeOK
  <1>4. QED BY <1>0, <1>1, <1>3 DEF ServerInv

LEMMA StopKeeps ==
  ASSUME ServerInv, NEW c \in Caller, Stop(c)
  PROVE  ServerInv'
  <1>0. /\ TypeOK /\ Held /\ up /\ call[c] = Idle /\ ~At(c, "joining")
        /\ UNCHANGED <<child, serves, lapsed, pidFile, proc, model, startup, up, crashes>>
    BY DEF ServerInv, Stop, At, Idle
  <1>1. CASE proc = None
    <2>1. UNCHANGED <<signalled, call>> /\ ready' = FALSE
      BY <1>1 DEF Stop
    <2>2. TypeOK'
      BY <1>0, <2>1 DEF TypeOK
    <2>3. Held'
      BY <1>0, <2>1 DEF Held, Startups, At, Closing, Target
    <2>4. ASSUME ~lapsed' PROVE Sound'
      <3>1. Sound
        BY <1>0, <2>4 DEF ServerInv, Sound
      <3>2. QED BY <1>0, <1>1, <2>1, <3>1 DEF Sound, Known, OneServer, Live, ReadyIsTrue,
                                              ServesRequest, Loading, At, Closing, Target
    <2>5. QED BY <2>2, <2>3, <2>4 DEF ServerInv, Sound
  <1>2. CASE proc # None
    <2>1. Goes(c, "stop", None, proc, 0) /\ UNCHANGED ready /\ signalled' = signalled \cup {proc}
      BY <1>2 DEF Stop
    <2>2. proc \in Child
      BY <1>0, <1>2 DEF TypeOK
    <2>3. /\ call' \in [Caller -> Calls]
          /\ call'[c] = [pc |-> "stop", model |-> None, on |-> proc, rung |-> 0]
          /\ \A d \in Caller \ {c} : call'[d] = call[d]
      BY <1>0, <2>1, <2>2, Ladder, GoesMoves DEF Steps
    <2>4. TypeOK'
      BY <1>0, <2>1, <2>2, <2>3 DEF TypeOK
    <2>5. startup # c
      BY <1>0 DEF Held, Startups, Idle
    <2>6. Held'
      <3>2. \A d \in Caller : call'[d].pc \in Startups <=> startup' = d
        BY <1>0, <2>3, <2>5 DEF Held, Startups
      <3>3. ASSUME NEW d \in Caller, call'[d].pc = "joining"
            PROVE  call'[d].on = startup' /\ startup' # None /\ call'[d].model = call'[startup'].model
        <4>1. d # c /\ call'[d] = call[d]
          BY <2>3, <3>3
        <4>2. call[d].on = startup /\ startup # None /\ call[d].model = call[startup].model
          BY <1>0, <3>3, <4>1 DEF Held, At, Target
        <4>3. startup \in Caller \ {c}
          BY <1>0, <2>5, <4>2 DEF TypeOK
        <4>4. QED BY <1>0, <2>3, <4>1, <4>2, <4>3
      <3>4. \A d \in Caller : call'[d].pc # "killing" /\ (call'[d].pc \in Startups => call'[d].rung = 1)
        BY <1>0, <2>3 DEF Held, At, Startups
      <3>5. \A d \in Caller : call'[d].pc \in {"stop", "stopping", "killing"} => call'[d].on \in Child
        BY <1>0, <2>2, <2>3 DEF Held, Closing, Target
      <3>6. \A d \in Caller : call'[d].pc = "queueing" => call'[d].on \in Caller \cup {None}
        BY <1>0, <2>3 DEF Held, At, Target
      <3>7. QED BY <1>0, <3>2, <3>3, <3>4, <3>5, <3>6 DEF Held, At, Closing, Target
    <2>7. ASSUME ~lapsed' PROVE Sound'
      <3>1. Sound /\ ~lapsed
        BY <1>0, <2>7 DEF ServerInv, Sound
      <3>2. Known'
        BY <1>0, <1>2, <2>2, <2>3, <3>1 DEF Sound, Known, OneServer, Live, At, Closing, Target
      <3>3. ReadyIsTrue' /\ ServesRequest' /\ Loading'
        BY <1>0, <2>1, <2>3, <3>1 DEF Sound, ReadyIsTrue, ServesRequest, Loading, At, Target
      <3>4. QED BY <3>2, <3>3 DEF Sound
    <2>8. QED BY <2>4, <2>6, <2>7 DEF ServerInv, Sound
  <1>3. QED BY <1>1, <1>2

LEMMA AppDiesKeeps == ServerInv /\ AppDies => ServerInv'
  <1> SUFFICES ASSUME ServerInv, AppDies PROVE ServerInv'
    OBVIOUS
  <1>0. TypeOK /\ UNCHANGED <<child, signalled, lapsed, pidFile>>
    BY DEF ServerInv, AppDies
  <1>1. Idle \in Calls
    BY Ladder DEF Idle, Calls, Steps
  <1>2. \A c \in Caller : call'[c] = Idle
    BY DEF AppDies
  <1>3. call' \in [Caller -> Calls] /\ serves' \in [Child -> Model \cup {None}]
    BY <1>1 DEF AppDies
  <1>4. crashes' \in 0..MaxCrashes
    BY <1>0, Bounds DEF AppDies, TypeOK
  <1>5. TypeOK'
    BY <1>0, <1>3, <1>4 DEF AppDies, TypeOK
  <1>6. Held'
    BY <1>2, NoneIsNothing DEF AppDies, Held, Startups, At, Closing, Idle
  <1>7. ASSUME ~lapsed' PROVE Sound'
    <2>1. Known /\ ~lapsed
      BY <1>0, <1>7 DEF ServerInv
    <2>2. Known'
      BY <1>0, <1>2, <2>1 DEF AppDies, Known, OneServer, Live, At, Closing, Idle
    <2>3. ReadyIsTrue' /\ ServesRequest' /\ Loading'
      BY <1>2 DEF AppDies, ReadyIsTrue, ServesRequest, Loading, At, Idle
    <2>4. QED BY <2>2, <2>3 DEF Sound
  <1>8. QED BY <1>5, <1>6, <1>7 DEF ServerInv, Sound

LEMMA ReapKeeps == ServerInv /\ ReapStaleSidecars => ServerInv'
  <1> SUFFICES ASSUME ServerInv, ReapStaleSidecars PROVE ServerInv'
    OBVIOUS
  <1>0. /\ TypeOK /\ Held /\ ~up /\ up' = TRUE /\ pidFile' = None
        /\ UNCHANGED <<serves, lapsed, proc, ready, model, startup, call, crashes>>
    BY DEF ServerInv, ReapStaleSidecars, serverVars
  <1>1. /\ child' \in [Child -> {"unborn", "loading", "serving", "dead"}]
        /\ signalled' \subseteq Child
    BY <1>0 DEF ReapStaleSidecars, TypeOK
  <1>2. TypeOK'
    BY <1>0, <1>1 DEF TypeOK
  <1>3. \A c \in Caller : call'[c] = Idle
    BY <1>0 DEF Held
  <1>4. Held'
    BY <1>0 DEF Held, Startups, At, Closing, Target
  <1>5. ASSUME ~lapsed' PROVE Sound'
    <2>1. Known /\ ~lapsed
      BY <1>0, <1>5 DEF ServerInv
    <2>2. \A k \in Child : ~(child'[k] \in {"loading", "serving"})
      BY <1>0, <2>1 DEF ReapStaleSidecars, Known, OneServer, Live
    <2>3. proc' = None /\ ready' = FALSE
      BY <1>0 DEF Held, TypeOK
    <2>4. Known'
      BY <1>3, <2>2, <2>3 DEF Known, OneServer, Live, At, Closing, Idle
    <2>5. ReadyIsTrue' /\ ServesRequest' /\ Loading'
      BY <1>3, <2>3 DEF ReadyIsTrue, ServesRequest, Loading, At, Idle
    <2>6. QED BY <2>4, <2>5 DEF Sound
  <1>6. QED BY <1>2, <1>4, <1>5 DEF ServerInv, Sound

LEMMA ListensKeeps ==
  ASSUME Kind = "parakeet", ServerInv, NEW k \in Child, Listens(k)
  PROVE  ServerInv'
  <1>0. /\ TypeOK /\ Held /\ Quiet /\ child[k] = "loading"
        /\ child' = [child EXCEPT ![k] = "serving"]
        /\ UNCHANGED <<serves, signalled, lapsed, pidFile, proc, model, startup, up, crashes>>
    BY DEF ServerInv, Listens
  <1>1. /\ child' \in [Child -> {"unborn", "loading", "serving", "dead"}]
        /\ child'[k] = "serving"
        /\ \A j \in Child \ {k} : child'[j] = child[j]
    BY <1>0 DEF TypeOK
  <1>2. CASE \E c \in Caller : At(c, "loading") /\ Target(c) = k
    <2>1. PICK c \in Caller : At(c, "loading") /\ Target(c) = k
      BY <1>2
    <2>2. startup = c /\ up
      BY <1>0, <2>1 DEF Held, At, Startups, Idle
    <2>3. /\ ready' = TRUE
          /\ call' = [d \in Caller |-> IF At(d, "loading") /\ Target(d) = k
                                       THEN [call[d] EXCEPT !.pc = "warming"] ELSE call[d]]
      BY <1>2 DEF Listens
    <2>4. call[c] \in Calls
      BY <1>0 DEF TypeOK
    <2>5. /\ call'[c] = [pc |-> "warming", model |-> call[c].model, on |-> call[c].on,
                         rung |-> call[c].rung]
          /\ call'[c] \in Calls
      BY <2>1, <2>3, <2>4 DEF Calls, Steps
    <2>6. \A d \in Caller \ {c} : call'[d] = call[d]
      BY <1>0, <2>2, <2>3 DEF Held, At, Startups
    <2>7. call' \in [Caller -> Calls]
      BY <1>0, <2>3, <2>5, <2>6 DEF TypeOK
    <2>8. TypeOK'
      BY <1>0, <1>1, <2>3, <2>7 DEF TypeOK
    <2>9. Held'
      <3>2. \A d \in Caller : call'[d].pc \in Startups <=> startup' = d
        BY <1>0, <2>2, <2>5, <2>6 DEF Held, Startups
      <3>3. ASSUME NEW d \in Caller, call'[d].pc = "joining"
            PROVE  call'[d].on = startup' /\ startup' # None /\ call'[d].model = call'[startup'].model
        <4>1. d # c /\ call'[d] = call[d]
          BY <2>5, <2>6, <3>3
        <4>2. call[d].on = startup /\ startup # None /\ call[d].model = call[startup].model
          BY <1>0, <3>3, <4>1 DEF Held, At, Target
        <4>3. call'[c].model = call[c].model
          BY <2>5
        <4>4. QED BY <1>0, <2>2, <4>1, <4>2, <4>3
      <3>4. \A d \in Caller : call'[d].pc # "killing" /\ (call'[d].pc \in Startups => call'[d].rung = 1)
        BY <1>0, <2>1, <2>5, <2>6 DEF Held, At, Startups
      <3>5. \A d \in Caller : call'[d].pc \in {"stop", "stopping", "killing"} => call'[d].on \in Child
        BY <1>0, <2>5, <2>6 DEF Held, Closing, Target
      <3>6. \A d \in Caller : call'[d].pc = "queueing" => call'[d].on \in Caller \cup {None}
        BY <1>0, <2>5, <2>6 DEF Held, At, Target
      <3>7. QED BY <1>0, <2>2, <3>2, <3>3, <3>4, <3>5, <3>6 DEF Held, At, Closing, Target
    <2>10. ASSUME ~lapsed' PROVE Sound'
      <3>1. Sound /\ ~lapsed
        BY <1>0, <2>10 DEF ServerInv, Sound
      <3>2. proc = k /\ proc # None /\ serves[k] = call[c].model /\ model = call[c].model
        BY <2>1, <3>1 DEF Sound, Loading
      <3>3. Known'
        BY <1>0, <1>1, <2>5, <2>6, <3>1 DEF Sound, Known, OneServer, Live, At, Closing, Target
      <3>4. ReadyIsTrue'
        BY <1>0, <1>1, <3>2 DEF ReadyIsTrue
      <3>5. ServesRequest'
        BY <1>0, <2>5, <2>6 DEF ServesRequest, Quiet, Due, At
      <3>6. Loading'
        BY <1>0, <1>1, <2>2, <2>5, <2>6, <3>1, <3>2 DEF Sound, Loading, Held, Startups, At, Target
      <3>7. QED BY <3>3, <3>4, <3>5, <3>6 DEF Sound
    <2>11. QED BY <2>8, <2>9, <2>10 DEF ServerInv, Sound
  <1>3. CASE ~\E c \in Caller : At(c, "loading") /\ Target(c) = k
    <2>1. UNCHANGED <<ready, call>>
      BY <1>3 DEF Listens
    <2>2. TypeOK'
      BY <1>0, <1>1, <2>1 DEF TypeOK
    <2>3. Held'
      BY <1>0, <2>1 DEF Held, Startups, At, Closing, Target
    <2>4. ASSUME ~lapsed' PROVE Sound'
      <3>1. Sound /\ ~lapsed
        BY <1>0, <2>4 DEF ServerInv, Sound
      <3>2. Known'
        BY <1>0, <1>1, <2>1, <3>1 DEF Sound, Known, OneServer, Live, At, Closing, Target
      <3>3. ReadyIsTrue'
        BY <1>0, <1>1, <2>1, <3>1 DEF Sound, ReadyIsTrue, TypeOK
      <3>4. ServesRequest'
        BY <1>0, <2>1 DEF ServesRequest, Quiet, Due, At
      <3>5. Loading'
        BY <1>0, <1>1, <2>1, <3>1 DEF Sound, Loading, At, Target, TypeOK
      <3>6. QED BY <3>2, <3>3, <3>4, <3>5 DEF Sound
    <2>5. QED BY <2>2, <2>3, <2>4 DEF ServerInv, Sound
  <1>4. QED BY <1>2, <1>3

LEMMA ExitsKeeps ==
  ASSUME Kind = "parakeet", ServerInv, NEW k \in Child, Exits(k)
  PROVE  ServerInv'
  <1>0. /\ TypeOK /\ Held /\ Quiet /\ Live(k)
        /\ child' = [child EXCEPT ![k] = "dead"]
        /\ signalled' = signalled \ {k}
        /\ serves' = [serves EXCEPT ![k] = None]
        /\ UNCHANGED <<lapsed, model, up, crashes>>
    BY DEF ServerInv, Exits
  <1>1. /\ child' \in [Child -> {"unborn", "loading", "serving", "dead"}]
        /\ serves' \in [Child -> Model \cup {None}]
        /\ child'[k] = "dead"
        /\ \A j \in Child \ {k} : child'[j] = child[j] /\ serves'[j] = serves[j]
    BY <1>0 DEF TypeOK
  <1>2. IF proc = k THEN ready' = FALSE /\ proc' = None /\ pidFile' = None
                    ELSE UNCHANGED <<ready, proc, pidFile>>
    BY DEF Exits, IsCurrent
  <1>3. \/ /\ UNCHANGED <<startup, call>>
           /\ \A c \in Caller : ~(At(c, "loading") /\ Target(c) = k)
        \/ \E c \in Caller : At(c, "loading") /\ Target(c) = k /\ Settle(c, FALSE)
    BY DEF Exits
  <1>4. /\ call' \in [Caller -> Calls]
        /\ \A d \in Caller : Stays(d) \/ call'[d] = Idle
        /\ Held'
        /\ startup' \in Caller \cup {None}
        /\ \A d \in Caller : call'[d].pc = "loading" => call'[d] = call[d] /\ call[d].on # k
    <2>1. CASE UNCHANGED <<startup, call>> /\ \A c \in Caller : ~(At(c, "loading") /\ Target(c) = k)
      <3>1. ~up => proc' = None /\ ~ready' /\ \A c \in Caller : call'[c] = Idle
        BY <1>0, <1>2, <2>1 DEF Held
      <3>2. Held'
        BY <1>0, <2>1, <3>1 DEF Held, Startups, At, Closing, Target
      <3>3. QED BY <1>0, <2>1, <3>2 DEF TypeOK, At, Target, Stays
    <2>2. CASE \E c \in Caller : At(c, "loading") /\ Target(c) = k /\ Settle(c, FALSE)
      <3>1. PICK c \in Caller : At(c, "loading") /\ Target(c) = k /\ Settle(c, FALSE)
        BY <2>2
      <3>2. startup = c /\ up
        BY <1>0, <3>1 DEF Held, At, Startups, Idle
      <3>3. /\ startup' = None
            /\ call' \in [Caller -> Calls]
            /\ \A d \in Caller :
                  \/ /\ d # c
                     /\ Stays(d)
                     /\ ~At(d, "joining")
                     /\ call[d].pc \notin Startups
                  \/ call'[d] = Idle
        BY <1>0, <3>1, <3>2, SettleReturns
      <3>4. Held'
        BY <1>0, <3>2, <3>3, NoneIsNothing DEF Held, Startups, At, Closing, Target, Idle, Stays
      <3>5. \A d \in Caller : call'[d].pc # "loading"
        BY <3>3 DEF Startups, Idle, Stays
      <3>6. QED BY <3>3, <3>4, <3>5
    <2>3. QED BY <1>3, <2>1, <2>2
  <1>5. TypeOK'
    BY <1>0, <1>1, <1>2, <1>4 DEF TypeOK
  <1>6. ASSUME ~lapsed' PROVE Sound'
    <2>1. Sound /\ ~lapsed
      BY <1>0, <1>6 DEF ServerInv, Sound
    <2>2. up => proc = k /\ pidFile = k
      BY <1>0, <2>1 DEF Sound, Known, OneServer
    <2>3. proc' = None /\ ready' = FALSE
      BY <1>0, <1>2, <2>2 DEF Held, TypeOK
    <2>4. \A j \in Child : child'[j] \in {"loading", "serving"} => Live(j) /\ j # k
      BY <1>1 DEF Live
    <2>5. Known'
      <3>1. OneServer'
        BY <1>0, <1>2, <2>1, <2>2, <2>4 DEF Sound, Known, OneServer, Live
      <3>2. ASSUME NEW c \in Caller, call'[c].pc \in {"stop", "stopping", "killing"}
            PROVE  /\ \A j \in Child : child'[j] \in {"loading", "serving"} => j = call'[c].on
                   /\ child'[call'[c].on] # "unborn"
        <4>1. call'[c] = call[c] /\ Closing(c)
          BY <1>4, <3>2 DEF Closing, Idle, Stays, At
        <4>2. Target(c) \in Child
          BY <1>0, <4>1 DEF Held
        <4>3. QED BY <1>1, <2>1, <2>4, <4>1, <4>2 DEF Sound, Known, Target
      <3>3. QED BY <2>3, <3>1, <3>2 DEF Known, Live, At, Closing, Target
    <2>6. ReadyIsTrue' /\ ServesRequest'
      BY <2>3 DEF ReadyIsTrue, ServesRequest
    <2>7. \A d \in Caller : call'[d].pc # "loading"
      BY <1>0, <1>4, <2>1, <2>2 DEF Sound, Loading, Held, At, Target, Idle, Stays
    <2>8. Loading'
      BY <2>3, <2>7 DEF Loading, At
    <2>9. QED BY <2>5, <2>6, <2>8 DEF Sound
  <1>7. QED BY <1>4, <1>5, <1>6 DEF ServerInv, Sound

-----------------------------------------------------------------------------
LEMMA StepKeeps ==
  ASSUME Kind = "parakeet", ServerInv, [Next]_vars
  PROVE  ServerInv'
  <1>1. ASSUME NEW c \in Caller, Start(c) PROVE ServerInv'
    <2>1. PICK m \in Model : Enters(c, m)
      BY <1>1 DEF Start
    <2>2. call[c].pc = "idle" /\ up /\ UNCHANGED <<up, crashes>>
      BY <1>1 DEF Start, Idle
    <2>3. QED BY <2>1, <2>2, EntersKeeps
  <1>2. ASSUME NEW c \in Caller, Rechecks(c) PROVE ServerInv'
    <2>1. call[c].pc = "queueing" /\ up
      BY <1>2 DEF Rechecks, ServerInv, Held, At, Idle
    <2>2. call[c].model \in Model \cup {None}
      BY DEF ServerInv, TypeOK, Calls
    <2>3. Enters(c, call[c].model) /\ UNCHANGED <<up, crashes>>
      BY <1>2 DEF Rechecks
    <2>4. QED BY <2>1, <2>2, <2>3, EntersKeeps
  <1>3. ASSUME NEW c \in Caller, Step(c) PROVE ServerInv'
    BY <1>2, <1>3, PortedKeeps, CompletesKeeps, TimesOutKeeps, UsesKeeps, ChildClosedKeeps,
       GraceElapsesKeeps DEF Step
  <1>4. ASSUME NEW c \in Caller, Stop(c) PROVE ServerInv'
    BY <1>4, StopKeeps
  <1>5. ASSUME NEW k \in Child, Listens(k) \/ Exits(k) PROVE ServerInv'
    BY <1>5, ListensKeeps, ExitsKeeps
  <1>6. CASE AppDies
    BY <1>6, AppDiesKeeps
  <1>7. CASE ReapStaleSidecars
    BY <1>7, ReapKeeps
  <1>8. CASE UNCHANGED vars
    BY <1>8 DEF vars, childVars, serverVars, ServerInv, TypeOK, Held, Startups, Known, OneServer,
                Live, At, Closing, Target, ReadyIsTrue, ServesRequest, Loading
  <1>9. QED BY <1>1, <1>3, <1>4, <1>5, <1>6, <1>7, <1>8 DEF Next

\* The inductive invariant: a startup is claimed before its first await, so no
\* two startups overlap, and each begins only after every child has closed.
THEOREM ServerInvariant ==
  ASSUME Kind = "parakeet"
  PROVE  Spec => []ServerInv
  <1>1. ServerInv /\ [Next]_vars => ServerInv'
    BY StepKeeps
  <1>2. QED BY <1>1, InitInv, PTL DEF Spec

\* Calls, children and flags hold what their types say.
THEOREM TypesHold ==
  ASSUME Kind = "parakeet"
  PROVE  Spec => []TypeOK
  <1>1. ServerInv => TypeOK
    BY DEF ServerInv
  <1>2. QED BY <1>1, ServerInvariant, PTL

\* No order of starts, stops, deaths and crashes leaves a child behind or runs
\* two at once.
THEOREM ServersAreOne ==
  ASSUME Kind = "parakeet"
  PROVE  Spec => []OneServer
  <1>1. ServerInv => OneServer
    BY DEF ServerInv, Known, OneServer
  <1>2. QED BY <1>1, ServerInvariant, PTL

\* The flag never outlives the server it speaks of.
THEOREM ReadyStaysTrue ==
  ASSUME Kind = "parakeet"
  PROVE  Spec => []ReadyIsTrue
  <1>1. ServerInv => ReadyIsTrue
    BY DEF ServerInv, ReadyIsTrue
  <1>2. QED BY <1>1, ServerInvariant, PTL

\* A call is never served by the model of another one.
THEOREM RequestsAreServed ==
  ASSUME Kind = "parakeet"
  PROVE  Spec => []ServesRequest
  <1>1. ServerInv => ServesRequest
    BY DEF ServerInv, ServesRequest
  <1>2. QED BY <1>1, ServerInvariant, PTL
=============================================================================
