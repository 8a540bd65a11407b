-------------------------- MODULE WatchdogRestart --------------------------
(***************************************************************************)
(* Starting, stopping and restarting the watchdog at run time              *)
(* (core/application/watchdog.go), as POST /api/settings does, while       *)
(* models are loaded and called.                                           *)
(*                                                                         *)
(* Every WatchDog object has a mutex, a channel stop and a channel done    *)
(* with room for one value each, a goroutine Run if a periodic check is    *)
(* on, and, unless it was created at boot, a goroutine that waits for the  *)
(* application's watchdogStop channel to be closed.                        *)
(***************************************************************************)
EXTENDS FiniteSets, Integers

CONSTANTS
    Admins,             \* goroutines that each stop or restart the watchdog once
    Models,             \* models that are loaded, and called once each
    Kinds,              \* what a settings change leaves on: "run", "lru"
    NoAdmin             \* holder of a free mutex

\* 1 is the watchdog of boot; every restart creates one.
Watchdog == 1..(1 + Cardinality(Admins))

None == 0

ASSUME RestartAssumption ==
    /\ IsFiniteSet(Admins)
    /\ Kinds \subseteq {"run", "lru"}
    /\ NoAdmin \notin Admins

VARIABLES
    current,            \* ml.wd
    created,            \* number of WatchDog objects
    stop, done,         \* values in wd.stop and wd.done
    wdLock,             \* wd.Mutex: "free", "handler" or "admin"
    run,                \* run[w]: the step Run of w is about to take
    handler,            \* handler[w]: the step of w's shutdown handler
    waits,              \* waits[w]: the channel w's handler waits for
    watchdogStop,       \* a.watchdogStop: a watchdog's channel, or None
    closed,             \* closed channels
    mutex,              \* a.watchdogMutex
    admin,              \* admin[t]: the step t is about to take
    oldWD,              \* oldWD[t] of RestartWatchdog
    oldState,           \* oldState[t] of RestartWatchdog
    tracked,            \* tracked[w]: models in w's addressModelMap
    busy,               \* busy[w]: models with a busy mark in w
    pc,                 \* pc[m]: the step of m's load, and of its call
    seen                \* seen[m]: the watchdog that m's load and client use

wdVars == <<current, created, stop, done, wdLock>>
goVars == <<run, handler, waits>>
appVars == <<watchdogStop, closed, mutex, admin, oldWD, oldState>>
trackVars == <<tracked, busy>>
modelVars == <<pc, seen>>
vars == <<wdVars, goVars, appVars, trackVars, modelVars>>

NoState == [tracked |-> {}, busy |-> {}]

TypeOK ==
    /\ current \in Watchdog \cup {None}
    /\ created \in 0..Cardinality(Watchdog)
    /\ stop \in [Watchdog -> 0..1]
    /\ done \in [Watchdog -> 0..1]
    /\ wdLock \in [Watchdog -> {"free", "handler", "admin"}]
    /\ run \in [Watchdog -> {"none", "select", "tick", "stopping", "ended"}]
    /\ handler \in [Watchdog -> {"none", "select", "waiting", "shutdown", "send", "ended"}]
    /\ waits \in [Watchdog -> Watchdog \cup {None}]
    /\ watchdogStop \in Watchdog \cup {None}
    /\ closed \subseteq Watchdog
    /\ mutex \in Admins \cup {NoAdmin}
    /\ admin \in [Admins -> {"idle", "stop", "stopClear", "state", "close", "clear",
                             "shutdown", "send", "wait", "start", "restore", "done"}]
    /\ oldWD \in [Admins -> Watchdog \cup {None}]
    /\ oldState \in [Admins -> [tracked : SUBSET Models, busy : SUBSET Models]]
    /\ tracked \in [Watchdog -> SUBSET Models]
    /\ busy \in [Watchdog -> SUBSET Models]
    /\ pc \in [Models -> {"unloaded", "adding", "loaded", "calling", "idle"}]
    /\ seen \in [Models -> Watchdog \cup {None}]

\* Boot: a watchdog with Run, one without, or none (startup.go).
Init ==
    /\ \E boot \in Kinds \cup {"off"} :
        /\ current = IF boot = "off" THEN None ELSE 1
        /\ created = IF boot = "off" THEN 0 ELSE 1
        /\ run = [w \in Watchdog |-> IF w = 1 /\ boot = "run" THEN "select" ELSE "none"]
    /\ stop = [w \in Watchdog |-> 0]
    /\ done = [w \in Watchdog |-> 0]
    /\ wdLock = [w \in Watchdog |-> "free"]
    /\ handler = [w \in Watchdog |-> "none"]
    /\ waits = [w \in Watchdog |-> None]
    /\ watchdogStop = None
    /\ closed = {}
    /\ mutex = NoAdmin
    /\ admin = [t \in Admins |-> "idle"]
    /\ oldWD = [t \in Admins |-> None]
    /\ oldState = [t \in Admins |-> NoState]
    /\ tracked = [w \in Watchdog |-> {}]
    /\ busy = [w \in Watchdog |-> {}]
    /\ pc = [m \in Models |-> "unloaded"]
    /\ seen = [m \in Models |-> None]

AdminGoto(t, step) == admin' = [admin EXCEPT ![t] = step]
HandlerGoto(w, step) == handler' = [handler EXCEPT ![w] = step]
RunGoto(w, step) == run' = [run EXCEPT ![w] = step]

-----------------------------------------------------------------------------
(***************************************************************************)
(* Run.                                                                    *)
(***************************************************************************)
Tick(w) ==
    /\ run[w] = "select"
    /\ RunGoto(w, "tick")
    /\ UNCHANGED <<wdVars, handler, waits, appVars, trackVars, modelVars>>

\* The checks need wd.Lock; what they evict is WatchDog's subject.
Check(w) ==
    /\ run[w] = "tick"
    /\ wdLock[w] = "free"
    /\ RunGoto(w, "select")
    /\ UNCHANGED <<wdVars, handler, waits, appVars, trackVars, modelVars>>

ReceiveStop(w) ==
    /\ run[w] = "select"
    /\ stop[w] = 1
    /\ stop' = [stop EXCEPT ![w] = 0]
    /\ RunGoto(w, "stopping")
    /\ UNCHANGED <<current, created, done, wdLock, handler, waits, appVars, trackVars,
                   modelVars>>

RunEnds(w) ==
    /\ run[w] = "stopping"
    /\ done[w] = 0
    /\ done' = [done EXCEPT ![w] = 1]
    /\ RunGoto(w, "ended")
    /\ UNCHANGED <<current, created, stop, wdLock, handler, waits, appVars, trackVars,
                   modelVars>>

-----------------------------------------------------------------------------
(***************************************************************************)
(* The shutdown handler that startWatchdog starts.                         *)
(***************************************************************************)

\* The goroutine evaluates a.watchdogStop when it gets to run.
HandlerSelects(w) ==
    /\ handler[w] = "select"
    /\ waits' = [waits EXCEPT ![w] = watchdogStop]
    /\ HandlerGoto(w, "waiting")
    /\ UNCHANGED <<wdVars, run, appVars, trackVars, modelVars>>

HandlerWakes(w) ==
    /\ handler[w] = "waiting"
    /\ waits[w] \in closed
    /\ HandlerGoto(w, "shutdown")
    /\ UNCHANGED <<wdVars, run, waits, appVars, trackVars, modelVars>>

\* wdForShutdown.Shutdown takes wd.Lock, and sends while it holds it.
HandlerLocks(w) ==
    /\ handler[w] = "shutdown"
    /\ wdLock[w] = "free"
    /\ wdLock' = [wdLock EXCEPT ![w] = "handler"]
    /\ HandlerGoto(w, "send")
    /\ UNCHANGED <<current, created, stop, done, run, waits, appVars, trackVars, modelVars>>

HandlerSends(w) ==
    /\ handler[w] = "send"
    /\ stop[w] = 0
    /\ stop' = [stop EXCEPT ![w] = 1]
    /\ wdLock' = [wdLock EXCEPT ![w] = "free"]
    /\ HandlerGoto(w, "ended")
    /\ UNCHANGED <<current, created, done, run, waits, appVars, trackVars, modelVars>>

-----------------------------------------------------------------------------
(***************************************************************************)
(* StopWatchdog.                                                           *)
(***************************************************************************)

\* Wrong form: watchdogMutex is not taken.
StopWatchdogUnlocked(t) ==
    /\ admin[t] = "idle"
    /\ AdminGoto(t, IF watchdogStop = None THEN "done" ELSE "stop")
    /\ UNCHANGED <<wdVars, goVars, watchdogStop, closed, mutex, oldWD, oldState, trackVars,
                   modelVars>>

StopWatchdog(t) ==
    /\ admin[t] = "idle"
    /\ mutex = NoAdmin
    /\ IF watchdogStop = None
       THEN AdminGoto(t, "done") /\ UNCHANGED mutex
       ELSE AdminGoto(t, "stop") /\ mutex' = t
    /\ UNCHANGED <<wdVars, goVars, watchdogStop, closed, oldWD, oldState, trackVars,
                   modelVars>>

StopCloses(t) ==
    /\ admin[t] = "stop"
    /\ closed' = closed \cup {watchdogStop}
    /\ AdminGoto(t, "stopClear")
    /\ UNCHANGED <<wdVars, goVars, watchdogStop, mutex, oldWD, oldState, trackVars,
                   modelVars>>

StopClears(t) ==
    /\ admin[t] = "stopClear"
    /\ watchdogStop' = None
    /\ mutex' = NoAdmin
    /\ AdminGoto(t, "done")
    /\ UNCHANGED <<wdVars, goVars, closed, oldWD, oldState, trackVars, modelVars>>

-----------------------------------------------------------------------------
(***************************************************************************)
(* RestartWatchdog, with watchdogMutex held throughout.                    *)
(***************************************************************************)
RestartWatchdog(t) ==
    /\ admin[t] = "idle"
    /\ mutex = NoAdmin
    /\ mutex' = t
    /\ oldWD' = [oldWD EXCEPT ![t] = current]
    /\ AdminGoto(t, IF current = None THEN "close" ELSE "state")
    /\ UNCHANGED <<wdVars, goVars, watchdogStop, closed, oldState, trackVars, modelVars>>

GetState(t) ==
    /\ admin[t] = "state"
    /\ wdLock[oldWD[t]] = "free"
    /\ oldState' = [oldState EXCEPT ![t] =
           [tracked |-> tracked[oldWD[t]], busy |-> busy[oldWD[t]]]]
    /\ AdminGoto(t, "close")
    /\ UNCHANGED <<wdVars, goVars, watchdogStop, closed, mutex, oldWD, trackVars, modelVars>>

AfterClose(t) == IF oldWD[t] = None THEN "start" ELSE "shutdown"

RestartCloses(t) ==
    /\ admin[t] = "close"
    /\ IF watchdogStop = None
       THEN AdminGoto(t, AfterClose(t)) /\ UNCHANGED closed
       ELSE AdminGoto(t, "clear") /\ closed' = closed \cup {watchdogStop}
    /\ UNCHANGED <<wdVars, goVars, watchdogStop, mutex, oldWD, oldState, trackVars,
                   modelVars>>

RestartClears(t) ==
    /\ admin[t] = "clear"
    /\ watchdogStop' = None
    /\ AdminGoto(t, AfterClose(t))
    /\ UNCHANGED <<wdVars, goVars, closed, mutex, oldWD, oldState, trackVars, modelVars>>

\* oldWD.Shutdown.
RestartLocks(t) ==
    /\ admin[t] = "shutdown"
    /\ wdLock[oldWD[t]] = "free"
    /\ wdLock' = [wdLock EXCEPT ![oldWD[t]] = "admin"]
    /\ AdminGoto(t, "send")
    /\ UNCHANGED <<current, created, stop, done, goVars, watchdogStop, closed, mutex, oldWD,
                   oldState, trackVars, modelVars>>

RestartSends(t) ==
    /\ admin[t] = "send"
    /\ stop[oldWD[t]] = 0
    /\ stop' = [stop EXCEPT ![oldWD[t]] = 1]
    /\ wdLock' = [wdLock EXCEPT ![oldWD[t]] = "free"]
    /\ AdminGoto(t, "wait")
    /\ UNCHANGED <<current, created, done, goVars, watchdogStop, closed, mutex, oldWD,
                   oldState, trackVars, modelVars>>

\* Wrong form: the end of Run is not awaited.
WaitDoneNot(t) ==
    /\ admin[t] = "wait"
    /\ AdminGoto(t, "start")
    /\ UNCHANGED <<wdVars, goVars, watchdogStop, closed, mutex, oldWD, oldState, trackVars,
                   modelVars>>

WaitDone(t) ==
    /\ admin[t] = "wait"
    /\ done[oldWD[t]] = 1
    /\ done' = [done EXCEPT ![oldWD[t]] = 0]
    /\ AdminGoto(t, "start")
    /\ UNCHANGED <<current, created, stop, wdLock, goVars, watchdogStop, closed, mutex, oldWD,
                   oldState, trackVars, modelVars>>

\* startWatchdog: a new channel, SetWatchDog, go wd.Run(), go the handler.
StartWatchdog(t) ==
    /\ admin[t] = "start"
    /\ created' = created + 1
    /\ current' = created + 1
    /\ watchdogStop' = created + 1
    /\ \E kind \in Kinds : RunGoto(created + 1, IF kind = "run" THEN "select" ELSE "none")
    /\ HandlerGoto(created + 1, "select")
    /\ AdminGoto(t, "restore")
    /\ UNCHANGED <<stop, done, wdLock, waits, closed, mutex, oldWD, oldState, trackVars,
                   modelVars>>

\* RestoreState replaces the maps; an empty state is not restored.
RestoreState(t) ==
    /\ admin[t] = "restore"
    /\ wdLock[current] = "free"
    /\ IF oldState[t].tracked = {}
       THEN UNCHANGED trackVars
       ELSE /\ tracked' = [tracked EXCEPT ![current] = oldState[t].tracked]
            /\ busy' = [busy EXCEPT ![current] = oldState[t].busy]
    /\ mutex' = NoAdmin
    /\ AdminGoto(t, "done")
    /\ UNCHANGED <<wdVars, goVars, watchdogStop, closed, oldWD, oldState, modelVars>>

-----------------------------------------------------------------------------
(***************************************************************************)
(* A model: its load registers it with ml.wd; its client is created with   *)
(* ml.wd and kept by the Model.                                            *)
(***************************************************************************)

\* startProcess reads ml.wd.
LoadReadsWatchDog(m) ==
    /\ pc[m] = "unloaded"
    /\ seen' = [seen EXCEPT ![m] = current]
    /\ pc' = [pc EXCEPT ![m] = IF current = None THEN "loaded" ELSE "adding"]
    /\ UNCHANGED <<wdVars, goVars, appVars, trackVars>>

\* AddAddressModelMap; then Model.GRPC reads ml.wd once more.
LoadAdds(m) ==
    /\ pc[m] = "adding"
    /\ wdLock[seen[m]] = "free"
    /\ tracked' = [tracked EXCEPT ![seen[m]] = @ \cup {m}]
    /\ pc' = [pc EXCEPT ![m] = "loaded"]
    /\ seen' = [seen EXCEPT ![m] = current]
    /\ UNCHANGED <<wdVars, goVars, appVars, busy>>

\* TrackRequest on the watchdog of the client.
BeginCall(m) ==
    /\ pc[m] = "loaded"
    /\ seen[m] # None
    /\ wdLock[seen[m]] = "free"
    /\ busy' = [busy EXCEPT ![seen[m]] = @ \cup {m}]
    /\ pc' = [pc EXCEPT ![m] = "calling"]
    /\ UNCHANGED <<wdVars, goVars, appVars, tracked, seen>>

EndCall(m) ==
    /\ pc[m] = "calling"
    /\ wdLock[seen[m]] = "free"
    /\ busy' = [busy EXCEPT ![seen[m]] = @ \ {m}]
    /\ pc' = [pc EXCEPT ![m] = "idle"]
    /\ UNCHANGED <<wdVars, goVars, appVars, tracked, seen>>

-----------------------------------------------------------------------------
RunStep(w) == Tick(w) \/ Check(w) \/ ReceiveStop(w) \/ RunEnds(w)

HandlerStep(w) ==
    HandlerSelects(w) \/ HandlerWakes(w) \/ HandlerLocks(w) \/ HandlerSends(w)

StopStep(t) == StopCloses(t) \/ StopClears(t)

RestartStep(t) ==
    \/ GetState(t) \/ RestartCloses(t) \/ RestartClears(t) \/ RestartLocks(t)
    \/ RestartSends(t) \/ WaitDone(t) \/ StartWatchdog(t) \/ RestoreState(t)

ModelStep(m) == LoadReadsWatchDog(m) \/ LoadAdds(m) \/ BeginCall(m) \/ EndCall(m)

Next ==
    \/ \E w \in Watchdog : RunStep(w) \/ HandlerStep(w)
    \/ \E t \in Admins :
        StopWatchdog(t) \/ RestartWatchdog(t) \/ StopStep(t) \/ RestartStep(t)
    \/ \E m \in Models : ModelStep(m)

Spec == Init /\ [][Next]_vars

(***************************************************************************)
(* Goroutines run; select chooses at random among ready cases, so a stop   *)
(* signal that stays ready is received although the timer fires again and  *)
(* again.  sync.Mutex does not starve a waiter.                            *)
(***************************************************************************)
Fairness ==
    /\ \A w \in Watchdog :
        WF_vars(RunStep(w)) /\ SF_vars(ReceiveStop(w)) /\ SF_vars(HandlerStep(w))
    /\ \A t \in Admins : SF_vars(StopStep(t) \/ RestartStep(t))
    /\ \A m \in Models : SF_vars(LoadAdds(m) \/ EndCall(m))

FairSpec == Spec /\ Fairness

-----------------------------------------------------------------------------
(***************************************************************************)
(* "Without the lock, two callers can both observe a non-nil channel and   *)
(* close it twice, which panics": nobody closes a closed or nil channel.   *)
(***************************************************************************)
NoDoubleClose ==
    \A t \in Admins :
        admin[t] = "stop" \/ (admin[t] = "close" /\ watchdogStop # None) =>
            watchdogStop \in Watchdog \ closed

(***************************************************************************)
(* At most one Run goroutine is active: whatever stops, restarts and       *)
(* handlers overlap, two watchdogs never evict side by side.               *)
(***************************************************************************)
OneRun ==
    \A v, w \in Watchdog :
        run[v] \notin {"none", "ended"} /\ run[w] \notin {"none", "ended"} => v = w

(***************************************************************************)
(* RestartWatchdog returns, and lets go of watchdogMutex.                  *)
(***************************************************************************)
RestartReturns == \A t \in Admins : admin[t] # "idle" ~> admin[t] = "done"

-----------------------------------------------------------------------------
(***************************************************************************)
(* What the comments say and the code does not do.                         *)
(***************************************************************************)

(***************************************************************************)
(* "This ensures the new watchdog knows about already-loaded models":      *)
(* outside a restart, a loaded model is tracked by the current watchdog.   *)
(***************************************************************************)
KnowsLoadedModels ==
    mutex = NoAdmin /\ current # None =>
        \A m \in Models :
            pc[m] \notin {"unloaded", "adding"} /\ seen[m] # None => m \in tracked[current]

(***************************************************************************)
(* "keep track of the state of each backend (busy or not)": outside a      *)
(* restart, a busy mark of the current watchdog is a call in flight.       *)
(***************************************************************************)
BusyIsInFlight ==
    mutex = NoAdmin /\ current # None =>
        \A m \in busy[current] : pc[m] = "calling"

(***************************************************************************)
(* "StopWatchdog signals the watchdog to stop": unless somebody restarts   *)
(* it, the current watchdog's Run ends after StopWatchdog.                 *)
(***************************************************************************)
StopStops ==
    (\A t \in Admins : [](admin[t] \in {"idle", "stop", "stopClear", "done"})) =>
        \A t \in Admins :
            admin[t] = "done" ~> \A w \in Watchdog : run[w] \in {"none", "ended"}
=============================================================================
