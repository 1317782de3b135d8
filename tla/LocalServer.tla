----------------------------- MODULE LocalServer -----------------------------
(* A local inference server: a child process that the app starts for a model, *)
(* restarts for another one and stops, for callers that overlap.  Kind        *)
(* "parakeet" is parakeetWsServer.js; "llama" is llamaServer.js, whose start  *)
(* waits for a stop before it is seen by other callers, whose close handler   *)
(* does not look at which child closed, and which tries a chain of binaries.  *)
(* The pid file (sidecarPidFile.js) and the reaper of the next launch         *)
(* (sidecarReaper.js) are common to both.                                     *)
(*                                                                            *)
(* An action is one task of the event loop, or one of the continuations that  *)
(* must run before the next task (Quiet).                                     *)
EXTENDS Naturals, FiniteSets

CONSTANTS Caller,      \* concurrent calls of start and stop
          Model,
          None,
          Kind,        \* "parakeet" or "llama"
          Rungs,       \* binaries and argument sets that a start may try
          MaxSpawns,   \* bound on children
          MaxCrashes   \* bound on crashes of the app

ASSUME Bounds == MaxSpawns \in Nat /\ MaxCrashes \in Nat
ASSUME Ladder == Rungs \in Nat \ {0} /\ (Kind = "parakeet" => Rungs = 1)
ASSUME NoneIsNothing == None \notin Model /\ None \notin Nat /\ None \notin Caller
ASSUME Kinds == Kind \in {"parakeet", "llama"}

Child == 1..MaxSpawns

VARIABLES child,       \* the state of every child
          serves,      \* the model a live child was spawned for by this run of the app
          signalled,   \* children that live although they were sent SIGTERM
          lapsed,      \* a child has outlived the grace period, and was sent SIGKILL
          proc,        \* this.process
          ready,       \* this.ready
          model,       \* this.modelName, this.modelPath
          startup,     \* the call whose startup is startupPromise
          call,        \* where each call stands
          pidFile,     \* what <userData>/sidecar-pids holds for this server
          up,          \* the app runs and has reaped what an earlier run left
          crashes

childVars == <<child, serves, signalled, lapsed, pidFile>>
serverVars == <<proc, ready, model, startup, call>>
vars == <<childVars, serverVars, up, crashes>>

Idle == [pc |-> "idle", model |-> None, on |-> None, rung |-> 0]

Steps == {"idle", "joining", "queueing", "stopping", "killing", "porting", "loading", "warming",
          "started", "stop"}

Calls == [pc: Steps, model: Model \cup {None}, on: Child \cup Caller \cup {None}, rung: 0..Rungs]

Live(k) == child[k] \in {"loading", "serving"}

\* Types of the whole state.
TypeOK ==
    /\ child \in [Child -> {"unborn", "loading", "serving", "dead"}]
    /\ serves \in [Child -> Model \cup {None}]
    /\ signalled \subseteq Child
    /\ lapsed \in BOOLEAN
    /\ proc \in Child \cup {None}
    /\ ready \in BOOLEAN
    /\ model \in Model \cup {None}
    /\ startup \in Caller \cup {None}
    /\ call \in [Caller -> Calls]
    /\ pidFile \in Child \cup {None}
    /\ up \in BOOLEAN
    /\ crashes \in 0..MaxCrashes

Init ==
    /\ child = [k \in Child |-> "unborn"]
    /\ serves = [k \in Child |-> None]
    /\ signalled = {}
    /\ lapsed = FALSE
    /\ proc = None
    /\ ready = FALSE
    /\ model = None
    /\ startup = None
    /\ call = [c \in Caller |-> Idle]
    /\ pidFile = None
    /\ up = TRUE
    /\ crashes = 0

At(c, pc) == call[c].pc = pc

Target(c) == call[c].on

\* Calls that wait for a child to close.
Closing(c) == call[c].pc \in {"stop", "stopping", "killing"}

\* A continuation of c is due before the next task.
Due(c) ==
    \/ At(c, "started")
    \/ At(c, "queueing") /\ Target(c) = None
    \/ Closing(c) /\ child[Target(c)] = "dead"

Quiet == \A c \in Caller : ~Due(c)

-----------------------------------------------------------------------------
(* Start. *)

\* The startup of c is over: it and the calls that joined it return, those that
\* waited for it to start another model will look again.
Settled(c, ok) ==
    [d \in Caller |->
        IF d = c \/ (At(d, "joining") /\ Target(d) = c)
        THEN IF ok THEN [Idle EXCEPT !.pc = "started", !.model = call[d].model] ELSE Idle
        ELSE IF At(d, "queueing") /\ Target(d) = c THEN [call[d] EXCEPT !.on = None]
        ELSE call[d]]

\* Mutant: startupPromise is only reset when the startup succeeds.
SettleSticky(c, ok) ==
    /\ startup' = IF ok THEN None ELSE startup
    /\ call' = Settled(c, ok)

Settle(c, ok) ==
    /\ startup' = None
    /\ call' = Settled(c, ok)

Goes(c, pc, m, on, rung) ==
    call' = [call EXCEPT ![c] = [pc |-> pc, model |-> m, on |-> on, rung |-> rung]]

\* Mutant, and the code of llamaServer.js: any startup is joined.
JoinsAny(m) == TRUE

\* A startup under way is joined if it is for the same model.
Joins(m) == Kind = "llama" \/ call[startup].model = m

\* Mutant: a child that never listened is not stopped.
OccupiedReady == proc # None /\ ready

\* There is a child to stop first.
Occupied == proc # None

\* startupPromise is assigned before any await; llama awaits the stop first.
Claims == Kind = "parakeet" \/ ~Occupied

\* The synchronous part of start: to join or to wait for a startup, to find
\* the server ready, or to begin a startup, with a stop if a child is there.
Enters(c, m) ==
    IF startup # None
    THEN /\ Goes(c, IF Joins(m) THEN "joining" ELSE "queueing", m, startup, 0)
         /\ UNCHANGED <<childVars, proc, ready, model, startup>>
    ELSE IF ready /\ model = m
    THEN /\ Goes(c, "started", m, None, 0)
         /\ UNCHANGED <<childVars, proc, ready, model, startup>>
    ELSE /\ startup' = IF Claims THEN c ELSE None
         /\ signalled' = IF Occupied THEN signalled \cup {proc} ELSE signalled
         /\ IF Occupied THEN Goes(c, "stopping", m, proc, 1)
                         ELSE Goes(c, "porting", m, None, 1)
         /\ UNCHANGED <<child, serves, lapsed, pidFile, proc, ready, model>>

Start(c) ==
    /\ up
    /\ Quiet
    /\ call[c] = Idle
    /\ \E m \in Model : Enters(c, m)
    /\ UNCHANGED <<up, crashes>>

\* A call that waited for the startup of another model looks again: a call that
\* waited with it may have begun one by now.
Rechecks(c) ==
    /\ At(c, "queueing")
    /\ Target(c) = None
    /\ Enters(c, call[c].model)
    /\ UNCHANGED <<up, crashes>>

\* The awaited port is there, or there is none, or the binary or the model is
\* missing.  The child is spawned and its pid written.
Ported(c) ==
    /\ Quiet
    /\ At(c, "porting")
    /\ \/ /\ Settle(c, FALSE)
          /\ UNCHANGED <<childVars, proc, ready, model>>
       \/ \E k \in Child :
             /\ child[k] = "unborn"
             /\ \A j \in Child : j < k => child[j] # "unborn"
             /\ child' = [child EXCEPT ![k] = "loading"]
             /\ serves' = [serves EXCEPT ![k] = call[c].model]
             /\ proc' = k
             /\ pidFile' = k
             /\ model' = IF call[c].rung = 1 THEN call[c].model ELSE model
             /\ Goes(c, "loading", call[c].model, k, call[c].rung)
             /\ UNCHANGED <<signalled, lapsed, ready, startup>>
    /\ UNCHANGED <<up, crashes>>

\* Mutant: one binary too many.
FailsOver(c, left) ==
    IF call[c].rung <= Rungs
    THEN /\ Goes(c, IF left = None THEN "porting" ELSE "killing", call[c].model, left,
                 call[c].rung + 1)
         /\ signalled' = IF left = None THEN signalled ELSE signalled \cup {left}
         /\ UNCHANGED startup
    ELSE Settle(c, FALSE) /\ UNCHANGED signalled

\* The next binary of the chain is tried, after what is left of this one was
\* killed, or the startup fails.
Fails(c, left) ==
    IF call[c].rung < Rungs
    THEN /\ Goes(c, IF left = None THEN "porting" ELSE "killing", call[c].model, left,
                 call[c].rung + 1)
         /\ signalled' = IF left = None THEN signalled ELSE signalled \cup {left}
         /\ UNCHANGED startup
    ELSE Settle(c, FALSE) /\ UNCHANGED signalled

\* The child listens; parakeet tells by its stderr, llama when it is polled.
Listens(k) ==
    /\ Quiet
    /\ child[k] = "loading"
    /\ child' = [child EXCEPT ![k] = "serving"]
    /\ IF Kind = "parakeet" /\ \E c \in Caller : At(c, "loading") /\ Target(c) = k
       THEN /\ ready' = TRUE
            /\ call' = [c \in Caller |-> IF At(c, "loading") /\ Target(c) = k
                                         THEN [call[c] EXCEPT !.pc = "warming"] ELSE call[c]]
       ELSE UNCHANGED <<ready, call>>
    /\ UNCHANGED <<serves, signalled, lapsed, pidFile, proc, model, startup, up, crashes>>

\* The warm-up inference is over, one way or the other.
Warmed(c) ==
    /\ At(c, "warming")
    /\ Settle(c, TRUE)
    /\ UNCHANGED <<signalled, ready>>

\* The poll of a starting llama-server, which asks whatever child is there.
Polled(c) ==
    /\ At(c, "loading")
    /\ IF proc = None \/ proc \in signalled
       THEN Fails(c, proc) /\ UNCHANGED ready
       ELSE /\ child[proc] = "serving"
            /\ ready' = TRUE
            /\ Settle(c, TRUE)
            /\ UNCHANGED signalled

\* A startup finds its server up.
Completes(c) ==
    /\ Quiet
    /\ IF Kind = "llama" THEN Polled(c) ELSE Warmed(c)
    /\ UNCHANGED <<child, serves, lapsed, pidFile, proc, model, up, crashes>>

\* The child did not listen in time; it is left running.
TimesOut(c) ==
    /\ Quiet
    /\ At(c, "loading")
    /\ Fails(c, proc)
    /\ UNCHANGED <<child, serves, lapsed, pidFile, proc, ready, model, up, crashes>>

\* The caller of a start that returned sends its request.
Uses(c) ==
    /\ At(c, "started")
    /\ call' = [call EXCEPT ![c] = Idle]
    /\ UNCHANGED <<childVars, proc, ready, model, startup, up, crashes>>

-----------------------------------------------------------------------------
(* Stop, and the end of a child. *)

Stop(c) ==
    /\ up
    /\ Quiet
    /\ call[c] = Idle
    /\ IF proc = None
       THEN /\ ready' = FALSE
            /\ UNCHANGED <<signalled, call>>
       ELSE /\ signalled' = signalled \cup {proc}
            /\ Goes(c, "stop", None, proc, 0)
            /\ UNCHANGED ready
    /\ UNCHANGED <<child, serves, lapsed, pidFile, proc, model, startup, up, crashes>>

\* After the wait for the child: the fields are reset, without a look at which
\* child they describe by now, and a start or a chain of binaries goes on.
Ends(c) ==
    /\ proc' = None
    /\ ready' = FALSE
    /\ model' = IF At(c, "killing") THEN model ELSE None
    /\ startup' = IF At(c, "stopping") THEN c ELSE startup
    /\ IF At(c, "stop") THEN call' = [call EXCEPT ![c] = Idle]
                        ELSE Goes(c, "porting", call[c].model, None, call[c].rung)

ChildClosed(c) ==
    /\ Closing(c)
    /\ child[Target(c)] = "dead"
    /\ Ends(c)
    /\ UNCHANGED <<childVars, up, crashes>>

\* The child outlived the grace period: SIGKILL, and no further wait.
GraceElapses(c) ==
    /\ Quiet
    /\ Closing(c)
    /\ Live(Target(c))
    /\ lapsed' = TRUE
    /\ Ends(c)
    /\ UNCHANGED <<child, serves, signalled, pidFile, up, crashes>>

\* A superseded child must not clobber the state of its replacement; in llama
\* any child of this run of the app does.
IsCurrent(k) == IF Kind = "llama" THEN serves[k] # None ELSE proc = k

\* Mutant: the server stays ready.
ExitsReady(k) ==
    /\ Quiet
    /\ Live(k)
    /\ child' = [child EXCEPT ![k] = "dead"]
    /\ signalled' = signalled \ {k}
    /\ serves' = [serves EXCEPT ![k] = None]
    /\ IF IsCurrent(k)
       THEN proc' = None /\ pidFile' = None
       ELSE UNCHANGED <<proc, pidFile>>
    /\ IF Kind = "parakeet" /\ \E c \in Caller : At(c, "loading") /\ Target(c) = k
       THEN \E c \in Caller : At(c, "loading") /\ Target(c) = k /\ Settle(c, FALSE)
       ELSE UNCHANGED <<startup, call>>
    /\ UNCHANGED <<lapsed, ready, model, up, crashes>>

\* A child exits, for a signal or by itself, and its close handler runs; the
\* startup that waits for it fails.
Exits(k) ==
    /\ Quiet
    /\ Live(k)
    /\ child' = [child EXCEPT ![k] = "dead"]
    /\ signalled' = signalled \ {k}
    /\ serves' = [serves EXCEPT ![k] = None]
    /\ IF IsCurrent(k)
       THEN ready' = FALSE /\ proc' = None /\ pidFile' = None
       ELSE UNCHANGED <<ready, proc, pidFile>>
    /\ IF Kind = "parakeet" /\ \E c \in Caller : At(c, "loading") /\ Target(c) = k
       THEN \E c \in Caller : At(c, "loading") /\ Target(c) = k /\ Settle(c, FALSE)
       ELSE UNCHANGED <<startup, call>>
    /\ UNCHANGED <<lapsed, model, up, crashes>>

-----------------------------------------------------------------------------
(* A crash of the app, and its next launch. *)

\* The children live on.
AppDies ==
    /\ up
    /\ crashes < MaxCrashes
    /\ crashes' = crashes + 1
    /\ up' = FALSE
    /\ proc' = None
    /\ ready' = FALSE
    /\ model' = None
    /\ startup' = None
    /\ call' = [c \in Caller |-> Idle]
    /\ serves' = [k \in Child |-> None]
    /\ UNCHANGED <<child, signalled, lapsed, pidFile>>

\* Awaited before anything may start a server.
ReapStaleSidecars ==
    /\ ~up
    /\ child' = [k \in Child |-> IF k = pidFile /\ Live(k) THEN "dead" ELSE child[k]]
    /\ signalled' = signalled \ {pidFile}
    /\ pidFile' = None
    /\ up' = TRUE
    /\ UNCHANGED <<serves, lapsed, serverVars, crashes>>

-----------------------------------------------------------------------------
Step(c) ==
    \/ Ported(c) \/ Completes(c) \/ TimesOut(c) \/ Uses(c) \/ Rechecks(c)
    \/ ChildClosed(c) \/ GraceElapses(c)

Next ==
    \/ \E c \in Caller : Start(c) \/ Stop(c) \/ Step(c)
    \/ \E k \in Child : Listens(k) \/ Exits(k)
    \/ AppDies
    \/ ReapStaleSidecars

\* Timers fire, answers come, and continuations run in the order in which they
\* were registered, so none is overtaken for ever, by those either that waited
\* for the same startup.
Fairness ==
    \A c \in Caller : SF_vars(Step(c)) /\ SF_vars(Rechecks(c) /\ startup = None)

Spec == Init /\ [][Next]_vars /\ Fairness

-----------------------------------------------------------------------------
(* Properties.  A child that outlives SIGTERM and the grace period undoes the *)
(* first three: a late end of a stop forgets its replacement (see README).    *)

\* There is one server.  A child that lives is the one that the app would stop
\* and restart, and the pid file leads the next launch to it if the app dies
\* now: overlapping starts and stops never lose one ("concurrent callers can
\* never double-spawn", parakeetWsServer.js, and the reaper that "cleans up
\* orphans on relaunch", main.js).
OneServer ==
    ~lapsed =>
        \A k \in Child : Live(k) => pidFile = k /\ (up => proc = k)

\* While the server is taken as ready for a model, its child has loaded that
\* model and listens: neither the end of a superseded child nor a late startup
\* leaves the flag behind.
ReadyIsTrue ==
    ~lapsed /\ ready =>
        /\ proc # None
        /\ child[proc] = "serving"
        /\ serves[proc] = model

\* A call of start that returned is served by the model it asked for, or finds
\* the server gone, whichever startups it joined or waited for.
ServesRequest ==
    ~lapsed =>
        \A c \in Caller :
            At(c, "started") /\ proc # None =>
                child[proc] = "serving" /\ serves[proc] = call[c].model

\* Every call of start or stop returns.
CallsSettle == \A c \in Caller : []<>(call[c] = Idle)
=============================================================================
