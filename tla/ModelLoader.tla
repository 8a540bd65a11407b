---------------------------- MODULE ModelLoader ----------------------------
(***************************************************************************)
(* The lifecycle of one model ID in pkg/model: requests that find or load  *)
(* the backend process of the model, and shutdowns that stop it.           *)
(*                                                                         *)
(* Nothing the loader does for one model waits while it holds ml.mu, so    *)
(* the models are independent and one of them is modelled.  A critical     *)
(* section of ml.mu, a step on a healthMu and a remote call are one action *)
(* each; everything between two of them interleaves.                       *)
(*                                                                         *)
(* A Handle stands for a *Model object, its address and its local process: *)
(* every successful startProcess yields a handle of its own.               *)
(***************************************************************************)
EXTENDS SequencesExt, FiniteSetsExt, Integers

CONSTANTS
    Requests,           \* goroutines that load the model and call it once
    Stoppers,           \* goroutines that shut the model down
    NoThread,
    MaxHandle,          \* bound: processes that startProcess can start
    MaxCrashes,         \* bound: processes that die on their own
    MaxStopFailures,    \* bound: calls of process.Stop that fail on a live process
    ForceConfigured     \* NEURODESK_FORCE_BACKEND_SHUTDOWN=true

Threads == Requests \cup Stoppers

Handle == 1..MaxHandle

NoHandle == 0

ASSUME LoaderAssumption ==
    /\ Requests \cap Stoppers = {}
    /\ NoThread \notin Threads
    /\ MaxHandle \in Nat
    /\ MaxCrashes \in Nat
    /\ MaxStopFailures \in Nat
    /\ ForceConfigured \in BOOLEAN

VARIABLES
    store,              \* ml.store's entry for the model
    loading,            \* whether ml.loading has an entry for the model
    cooldown,           \* whether cooldownRemaining is positive
    alive,              \* handles whose process runs
    started,            \* number of handles created so far
    crashes,            \* number of processes that died on their own
    stopFailures,       \* number of failed process.Stop calls
    fresh,              \* handles that IsRecentlyHealthy
    prober,             \* prober[h]: the goroutine that holds healthMu of h
    queue, held,        \* the model's operation lock (WeightedLock)
    pc,                 \* pc[t]: the step t is about to take
    why,                \* why[t]: the call of checkIsLoaded t is in
    retries,            \* retries[t]: loadModel calls with checkCooldown=false
    probed,             \* probed[t]: m of checkIsLoaded
    target,             \* target[t]: model of deleteProcess
    client,             \* client[t]: what the load returned to t
    force               \* force[t]: the force flag of deleteProcess

lockVars == <<queue, held>>
processVars == <<alive, started, crashes, stopFailures>>
healthVars == <<fresh, prober>>
loadVars == <<store, loading, cooldown>>
localVars == <<why, retries, probed, target, client, force>>
vars == <<loadVars, processVars, healthVars, lockVars, pc, localVars>>

Lock == INSTANCE WeightedLock

-----------------------------------------------------------------------------
\* Steps of checkIsLoaded, under the shared operation lock.
CheckSteps == {"check", "probe", "health", "reap", "reapStop", "reapDelete"}

\* Steps of loadModel outside checkIsLoaded, under the shared operation lock.
LoadSteps == {"decide", "waiting", "spawn", "loadRPC", "publish", "loadFailed",
              "finish", "loaded"}

\* Steps of the goroutine that registered ml.loading's channel.
LeaderSteps == {"spawn", "loadRPC", "publish", "loadFailed", "finish"}

\* Steps of shutdownModel's deleteProcess, under the exclusive lock.
DeleteSteps == {"delete", "busyWait", "stop", "forget"}

\* Steps without the operation lock.
FreeSteps == {"start", "miss", "post", "cleanup", "escalate", "ready", "calling",
              "done"}

PC == CheckSteps \cup LoadSteps \cup DeleteSteps \cup FreeSteps
          \cup {"sharedWait", "exclusiveWait"}

TypeOK ==
    /\ store \in Handle \cup {NoHandle}
    /\ loading \in BOOLEAN
    /\ cooldown \in BOOLEAN
    /\ alive \subseteq Handle
    /\ started \in 0..MaxHandle
    /\ crashes \in 0..MaxCrashes
    /\ stopFailures \in 0..MaxStopFailures
    /\ fresh \subseteq Handle
    /\ prober \in [Handle -> Threads \cup {NoThread}]
    /\ Lock!TypeOK
    /\ pc \in [Threads -> PC]
    /\ why \in [Threads -> {"fast", "load", "woken", "post"}]
    /\ retries \in [Threads -> Nat]
    /\ probed \in [Threads -> Handle \cup {NoHandle}]
    /\ target \in [Threads -> Handle \cup {NoHandle}]
    /\ client \in [Threads -> Handle \cup {NoHandle}]
    /\ force \in [Threads -> BOOLEAN]

Init ==
    /\ store = NoHandle
    /\ loading = FALSE
    /\ cooldown = FALSE
    /\ alive = {}
    /\ started = 0
    /\ crashes = 0
    /\ stopFailures = 0
    /\ fresh = {}
    /\ prober = [h \in Handle |-> NoThread]
    /\ Lock!Init
    /\ pc = [t \in Threads |-> "start"]
    /\ why = [t \in Threads |-> "fast"]
    /\ retries = [t \in Threads |-> 0]
    /\ probed = [t \in Threads |-> NoHandle]
    /\ target = [t \in Threads |-> NoHandle]
    /\ client = [t \in Threads |-> NoHandle]
    /\ force = [t \in Threads |-> FALSE]

Goto(t, step) == pc' = [pc EXCEPT ![t] = step]

\* process.Stop(h) fails and the process stays alive.
StopErrs(h) ==
    /\ h \in alive
    /\ stopFailures < MaxStopFailures
    /\ stopFailures' = stopFailures + 1
    /\ UNCHANGED <<alive, started, crashes>>

\* IsBusy of the client of h: some inference call is in flight on it.
InFlight(h) == {t \in Threads : pc[t] = "calling" /\ client[t] = h}

-----------------------------------------------------------------------------
(***************************************************************************)
(* The operation lock.                                                     *)
(***************************************************************************)

\* CheckIsLoaded and LoadModelWithFile call operations.acquire(id, false).
AcquireShared(t) ==
    /\ \/ t \in Requests /\ pc[t] = "start" /\ why' = [why EXCEPT ![t] = "fast"]
       \/ pc[t] = "miss" /\ why' = [why EXCEPT ![t] = "load"]
       \/ pc[t] = "post" /\ why' = [why EXCEPT ![t] = "post"]
    /\ Lock!Request(t, "shared")
    /\ Goto(t, "sharedWait")
    /\ UNCHANGED <<loadVars, processVars, healthVars, retries, probed, target,
                   client, force>>

Granted(t) ==
    /\ Lock!Grant(t)
    /\ \/ pc[t] = "sharedWait" /\ Goto(t, "check")
       \/ pc[t] = "exclusiveWait" /\ Goto(t, "delete")
    /\ UNCHANGED <<loadVars, processVars, healthVars, localVars>>

-----------------------------------------------------------------------------
(***************************************************************************)
(* checkIsLoaded.                                                          *)
(***************************************************************************)

(***************************************************************************)
(* checkIsLoaded returns m to its caller: the first CheckIsLoaded of Load, *)
(* loadModel before and after it waited for another load, and the last     *)
(* CheckIsLoaded of Load, whose result only selects a wrapper.             *)
(***************************************************************************)
CheckReturns(t, m) ==
    /\ probed' = [probed EXCEPT ![t] = NoHandle]
    /\ \/ /\ why[t] = "fast"
          /\ Goto(t, IF m = NoHandle THEN "miss" ELSE "ready")
          /\ client' = [client EXCEPT ![t] = m]
          /\ Lock!Release(t)
          /\ UNCHANGED <<why, retries>>
       \/ /\ why[t] = "load"
          /\ Goto(t, IF m = NoHandle THEN "decide" ELSE "loaded")
          /\ client' = [client EXCEPT ![t] = m]
          /\ UNCHANGED <<lockVars, why, retries>>
       \/ /\ why[t] = "woken" /\ m # NoHandle
          /\ Goto(t, "loaded")
          /\ client' = [client EXCEPT ![t] = m]
          /\ UNCHANGED <<lockVars, why, retries>>
       \/ /\ why[t] = "woken" /\ m = NoHandle
          /\ Goto(t, "check")
          /\ why' = [why EXCEPT ![t] = "load"]
          /\ retries' = [retries EXCEPT ![t] = @ + 1]
          /\ UNCHANGED <<lockVars, client>>
       \/ /\ why[t] = "post"
          /\ Goto(t, "ready")
          /\ Lock!Release(t)
          /\ UNCHANGED <<client, why, retries>>

\* store.Get misses.
CheckMisses(t) ==
    /\ pc[t] = "check"
    /\ store = NoHandle
    /\ CheckReturns(t, NoHandle)
    /\ UNCHANGED <<loadVars, processVars, healthVars, target, force>>

CheckHits(t) ==
    /\ pc[t] = "check"
    /\ store # NoHandle
    /\ probed' = [probed EXCEPT ![t] = store]
    /\ Goto(t, "probe")
    /\ UNCHANGED <<loadVars, processVars, healthVars, lockVars, why, retries,
                   target, client, force>>

\* m.healthMu.Lock() succeeds and the cached result still holds.
CachedHealth(t) ==
    /\ pc[t] = "probe"
    /\ prober[probed[t]] = NoThread
    /\ probed[t] \in fresh
    /\ CheckReturns(t, probed[t])
    /\ UNCHANGED <<loadVars, processVars, healthVars, target, force>>

\* m.healthMu.Lock() succeeds and the backend has to be asked.
LockHealth(t) ==
    /\ pc[t] = "probe"
    /\ prober[probed[t]] = NoThread
    /\ probed[t] \notin fresh
    /\ prober' = [prober EXCEPT ![probed[t]] = t]
    /\ Goto(t, "health")
    /\ UNCHANGED <<loadVars, processVars, fresh, lockVars, localVars>>

(***************************************************************************)
(* HealthCheck answers, or it fails although the process is alive: the     *)
(* model is kept and marked healthy in both cases.                         *)
(***************************************************************************)
HealthOK(t) ==
    /\ pc[t] = "health"
    /\ probed[t] \in alive
    /\ fresh' = fresh \cup {probed[t]}
    /\ prober' = [prober EXCEPT ![probed[t]] = NoThread]
    /\ CheckReturns(t, probed[t])
    /\ UNCHANGED <<loadVars, processVars, target, force>>

\* HealthCheck fails and the process is not alive: deleteProcess, forced.
HealthDead(t) ==
    /\ pc[t] = "health"
    /\ probed[t] \notin alive
    /\ Goto(t, "reap")
    /\ UNCHANGED <<loadVars, processVars, healthVars, lockVars, localVars>>

\* deleteProcess looks the model up again, by its name.
ReapLookup(t) ==
    /\ pc[t] = "reap"
    /\ store # NoHandle
    /\ target' = [target EXCEPT ![t] = store]
    /\ Goto(t, "reapStop")
    /\ UNCHANGED <<loadVars, processVars, healthVars, lockVars, why, retries,
                   probed, client, force>>

\* checkIsLoaded returns nil after deleteProcess, whatever that returned.
ReapReturns(t) ==
    /\ prober' = [prober EXCEPT ![probed[t]] = NoThread]
    /\ target' = [target EXCEPT ![t] = NoHandle]
    /\ CheckReturns(t, NoHandle)

ReapNotFound(t) ==
    /\ pc[t] = "reap"
    /\ store = NoHandle
    /\ ReapReturns(t)
    /\ UNCHANGED <<loadVars, processVars, fresh, force>>

ReapStop(t) ==
    /\ pc[t] = "reapStop"
    /\ alive' = alive \ {target[t]}
    /\ Goto(t, "reapDelete")
    /\ UNCHANGED <<loadVars, started, crashes, stopFailures, healthVars, lockVars,
                   localVars>>

\* process.Stop fails and the process is still alive: the entry is kept.
ReapStopFails(t) ==
    /\ pc[t] = "reapStop"
    /\ StopErrs(target[t])
    /\ ReapReturns(t)
    /\ UNCHANGED <<loadVars, fresh, force>>

ReapDelete(t) ==
    /\ pc[t] = "reapDelete"
    /\ store' = NoHandle
    /\ ReapReturns(t)
    /\ UNCHANGED <<loading, cooldown, processVars, fresh, force>>

-----------------------------------------------------------------------------
(***************************************************************************)
(* loadModel after checkIsLoaded returned nil: one critical section.       *)
(***************************************************************************)
FindPublished(t) ==
    /\ pc[t] = "decide"
    /\ store # NoHandle
    /\ client' = [client EXCEPT ![t] = store]
    /\ Goto(t, "loaded")
    /\ UNCHANGED <<loadVars, processVars, healthVars, lockVars, why, retries,
                   probed, target, force>>

\* checkCooldown is true in the first loadModel of a request only.
InCooldown(t) == retries[t] = 0 /\ cooldown

RefuseInCooldown(t) ==
    /\ pc[t] = "decide"
    /\ store = NoHandle
    /\ InCooldown(t)
    /\ Goto(t, "loaded")
    /\ UNCHANGED <<loadVars, processVars, healthVars, lockVars, localVars>>

WaitForLeader(t) ==
    /\ pc[t] = "decide"
    /\ store = NoHandle
    /\ ~InCooldown(t)
    /\ loading
    /\ Goto(t, "waiting")
    /\ UNCHANGED <<loadVars, processVars, healthVars, lockVars, localVars>>

\* Wrong form: ml.loading is not consulted.
BecomeLeaderAlways(t) ==
    /\ pc[t] = "decide"
    /\ store = NoHandle
    /\ ~InCooldown(t)
    /\ loading' = TRUE
    /\ Goto(t, "spawn")
    /\ UNCHANGED <<store, cooldown, processVars, healthVars, lockVars, localVars>>

\* Wrong form: the store is not read again under ml.mu.
BecomeLeaderStale(t) ==
    /\ pc[t] = "decide"
    /\ ~InCooldown(t)
    /\ ~loading
    /\ loading' = TRUE
    /\ Goto(t, "spawn")
    /\ UNCHANGED <<store, cooldown, processVars, healthVars, lockVars, localVars>>

BecomeLeader(t) ==
    /\ pc[t] = "decide"
    /\ store = NoHandle
    /\ ~InCooldown(t)
    /\ ~loading
    /\ loading' = TRUE
    /\ Goto(t, "spawn")
    /\ UNCHANGED <<store, cooldown, processVars, healthVars, lockVars, localVars>>

(***************************************************************************)
(* The loader function: spawnGRPCModel.                                    *)
(***************************************************************************)

\* startProcess starts the backend process; client is the leader's *Model.
Spawn(t) ==
    /\ pc[t] = "spawn"
    /\ started < MaxHandle
    /\ started' = started + 1
    /\ alive' = alive \cup {started + 1}
    /\ client' = [client EXCEPT ![t] = started + 1]
    /\ Goto(t, "loadRPC")
    /\ UNCHANGED <<loadVars, crashes, stopFailures, healthVars, lockVars, why,
                   retries, probed, target, force>>

\* No backend, no free port, or the process does not start.
SpawnFails(t) ==
    /\ pc[t] = "spawn"
    /\ Goto(t, "loadFailed")
    /\ UNCHANGED <<loadVars, processVars, healthVars, lockVars, localVars>>

\* The start-up probes and the LoadModel call succeed.
LoadRPCSucceeds(t) ==
    /\ pc[t] = "loadRPC"
    /\ client[t] \in alive
    /\ Goto(t, "publish")
    /\ UNCHANGED <<loadVars, processVars, healthVars, lockVars, localVars>>

\* Wrong form: the failed load leaves its process running.
LoadRPCFailsNoStop(t) ==
    /\ pc[t] = "loadRPC"
    /\ client' = [client EXCEPT ![t] = NoHandle]
    /\ Goto(t, "loadFailed")
    /\ UNCHANGED <<loadVars, processVars, healthVars, lockVars, why, retries,
                   probed, target, force>>

\* One of them fails: stopLoadProcess, whose own failure is only logged.
LoadRPCFails(t) ==
    /\ pc[t] = "loadRPC"
    /\ \/ /\ alive' = alive \ {client[t]}
          /\ UNCHANGED <<started, crashes, stopFailures>>
       \/ StopErrs(client[t])
    /\ client' = [client EXCEPT ![t] = NoHandle]
    /\ Goto(t, "loadFailed")
    /\ UNCHANGED <<loadVars, healthVars, lockVars, why, retries, probed, target,
                   force>>

\* clearLoadFailure and store.Set.
Publish(t) ==
    /\ pc[t] = "publish"
    /\ store' = client[t]
    /\ cooldown' = FALSE
    /\ Goto(t, "finish")
    /\ UNCHANGED <<loading, processVars, healthVars, lockVars, localVars>>

RecordFailure(t) ==
    /\ pc[t] = "loadFailed"
    /\ cooldown' = TRUE
    /\ Goto(t, "finish")
    /\ UNCHANGED <<store, loading, processVars, healthVars, lockVars, localVars>>

\* Wrong form: the channel is not closed.
FinishNoClose(t) ==
    /\ pc[t] = "finish"
    /\ loading' = FALSE
    /\ Goto(t, "loaded")
    /\ UNCHANGED <<store, cooldown, processVars, healthVars, lockVars, localVars>>

\* The deferred function: delete(ml.loading, id) and close(loadingChan).
Finish(t) ==
    /\ pc[t] = "finish"
    /\ loading' = FALSE
    /\ pc' = [u \in Threads |-> IF u = t THEN "loaded"
                                ELSE IF pc[u] = "waiting" THEN "check"
                                ELSE pc[u]]
    /\ why' = [u \in Threads |-> IF pc[u] = "waiting" THEN "woken" ELSE why[u]]
    /\ UNCHANGED <<store, cooldown, processVars, healthVars, lockVars, retries,
                   probed, target, client, force>>

\* LoadModelWithFile returns to backendLoader.
LoadReturns(t) ==
    /\ pc[t] = "loaded"
    /\ Lock!Release(t)
    /\ Goto(t, IF client[t] = NoHandle THEN "cleanup" ELSE "post")
    /\ UNCHANGED <<loadVars, processVars, healthVars, localVars>>

-----------------------------------------------------------------------------
(***************************************************************************)
(* ShutdownModel and ShutdownModelForce.                                   *)
(***************************************************************************)

\* Wrong form: the operation lock is taken in shared mode.
StartShutdownShared(t) ==
    /\ t \in Stoppers
    /\ pc[t] = "start"
    /\ \E f \in BOOLEAN : force' = [force EXCEPT ![t] = f]
    /\ Lock!Request(t, "shared")
    /\ Goto(t, "exclusiveWait")
    /\ UNCHANGED <<loadVars, processVars, healthVars, why, retries, probed,
                   target, client>>

\* A user, an administrator or the watchdog asks for the shutdown.
StartShutdown(t) ==
    /\ t \in Stoppers
    /\ pc[t] = "start"
    /\ \E f \in BOOLEAN : force' = [force EXCEPT ![t] = f]
    /\ Lock!Request(t, "exclusive")
    /\ Goto(t, "exclusiveWait")
    /\ UNCHANGED <<loadVars, processVars, healthVars, why, retries, probed,
                   target, client>>

\* backendLoader after a failed load: StopGRPC(only(modelID)).
CleanupStops(t) ==
    /\ pc[t] = "cleanup"
    /\ store # NoHandle
    /\ Lock!Request(t, "exclusive")
    /\ Goto(t, "exclusiveWait")
    /\ UNCHANGED <<loadVars, processVars, healthVars, localVars>>

CleanupFindsNothing(t) ==
    /\ pc[t] = "cleanup"
    /\ store = NoHandle
    /\ Goto(t, "done")
    /\ UNCHANGED <<loadVars, processVars, healthVars, lockVars, localVars>>

\* Wrong form: the lock is acquired with context.Background().
LockDeadlineIgnored(t) == FALSE

\* The context ends before the lock is acquired: "waiting to shut down model".
LockDeadline(t) ==
    /\ pc[t] = "exclusiveWait"
    /\ Lock!Cancel(t)
    /\ Goto(t, "done")
    /\ UNCHANGED <<loadVars, processVars, healthVars, localVars>>

\* deleteProcess returns and the operation lock is released.
DeleteReturns(t) ==
    /\ Lock!Release(t)
    /\ target' = [target EXCEPT ![t] = NoHandle]
    /\ Goto(t, "done")

DeleteNotFound(t) ==
    /\ pc[t] = "delete"
    /\ store = NoHandle
    /\ DeleteReturns(t)
    /\ UNCHANGED <<loadVars, processVars, healthVars, why, retries, probed, client,
                   force>>

\* Wrong form: the entry is deleted before the process is stopped.
DeleteLookupEarly(t) ==
    /\ pc[t] = "delete"
    /\ store # NoHandle
    /\ store' = NoHandle
    /\ target' = [target EXCEPT ![t] = store]
    /\ Goto(t, IF force[t] THEN "stop" ELSE "busyWait")
    /\ UNCHANGED <<loading, cooldown, processVars, healthVars, lockVars, why,
                   retries, probed, client, force>>

DeleteLookup(t) ==
    /\ pc[t] = "delete"
    /\ store # NoHandle
    /\ target' = [target EXCEPT ![t] = store]
    /\ Goto(t, IF force[t] THEN "stop" ELSE "busyWait")
    /\ UNCHANGED <<loadVars, processVars, healthVars, lockVars, why, retries,
                   probed, client, force>>

\* IsBusy is false: the hooks and the bounded Free call follow.
BusyWaitEnds(t) ==
    /\ pc[t] = "busyWait"
    /\ InFlight(target[t]) = {}
    /\ Goto(t, "stop")
    /\ UNCHANGED <<loadVars, processVars, healthVars, lockVars, localVars>>

(***************************************************************************)
(* The context ends first: ErrModelBusy.  ShutdownModel gives up, or goes  *)
(* on with ShutdownModelForce where that is configured.                    *)
(***************************************************************************)
BusyDeadline(t) ==
    /\ pc[t] = "busyWait"
    /\ Lock!Release(t)
    /\ target' = [target EXCEPT ![t] = NoHandle]
    /\ Goto(t, IF ForceConfigured THEN "escalate" ELSE "done")
    /\ force' = [force EXCEPT ![t] = ForceConfigured]
    /\ UNCHANGED <<loadVars, processVars, healthVars, why, retries, probed, client>>

ForceAfterBusy(t) ==
    /\ pc[t] = "escalate"
    /\ Lock!Request(t, "exclusive")
    /\ Goto(t, "exclusiveWait")
    /\ UNCHANGED <<loadVars, processVars, healthVars, localVars>>

StopProcess(t) ==
    /\ pc[t] = "stop"
    /\ alive' = alive \ {target[t]}
    /\ Goto(t, "forget")
    /\ UNCHANGED <<loadVars, started, crashes, stopFailures, healthVars, lockVars,
                   localVars>>

\* process.Stop fails and the process is still alive: the entry is kept.
StopFails(t) ==
    /\ pc[t] = "stop"
    /\ StopErrs(target[t])
    /\ DeleteReturns(t)
    /\ UNCHANGED <<loadVars, healthVars, why, retries, probed, client, force>>

\* store.Delete(s).
Forget(t) ==
    /\ pc[t] = "forget"
    /\ store' = NoHandle
    /\ DeleteReturns(t)
    /\ UNCHANGED <<loading, cooldown, processVars, healthVars, why, retries,
                   probed, client, force>>

-----------------------------------------------------------------------------
(***************************************************************************)
(* The request uses the client it got; the environment.                    *)
(***************************************************************************)
StartCall(t) ==
    /\ pc[t] = "ready"
    /\ Goto(t, "calling")
    /\ UNCHANGED <<loadVars, processVars, healthVars, lockVars, localVars>>

EndCall(t) ==
    /\ pc[t] = "calling"
    /\ Goto(t, "done")
    /\ client' = [client EXCEPT ![t] = NoHandle]
    /\ UNCHANGED <<loadVars, processVars, healthVars, lockVars, why, retries,
                   probed, target, force>>

Crash ==
    /\ crashes < MaxCrashes
    /\ crashes' = crashes + 1
    /\ \E h \in alive : alive' = alive \ {h}
    /\ UNCHANGED <<loadVars, started, stopFailures, healthVars, lockVars, pc,
                   localVars>>

\* healthCheckTTL passes.
HealthExpires ==
    /\ \E h \in fresh : fresh' = fresh \ {h}
    /\ UNCHANGED <<loadVars, processVars, prober, lockVars, pc, localVars>>

CooldownExpires ==
    /\ cooldown
    /\ cooldown' = FALSE
    /\ UNCHANGED <<store, loading, processVars, healthVars, lockVars, pc, localVars>>

-----------------------------------------------------------------------------
Check(t) ==
    \/ CheckMisses(t) \/ CheckHits(t) \/ CachedHealth(t) \/ LockHealth(t)
    \/ HealthOK(t) \/ HealthDead(t)
    \/ ReapLookup(t) \/ ReapNotFound(t) \/ ReapStop(t) \/ ReapStopFails(t)
    \/ ReapDelete(t)

LoadRPC(t) == LoadRPCSucceeds(t) \/ LoadRPCFails(t)

Load(t) ==
    \/ FindPublished(t) \/ RefuseInCooldown(t) \/ WaitForLeader(t)
    \/ BecomeLeader(t) \/ Spawn(t) \/ SpawnFails(t)
    \/ Publish(t) \/ RecordFailure(t) \/ Finish(t) \/ LoadReturns(t)
    \/ CleanupStops(t) \/ CleanupFindsNothing(t)

Deadline(t) == LockDeadline(t) \/ BusyDeadline(t)

Shutdown(t) ==
    \/ DeleteNotFound(t) \/ DeleteLookup(t) \/ BusyWaitEnds(t)
    \/ ForceAfterBusy(t) \/ StopProcess(t) \/ StopFails(t) \/ Forget(t)

\* Steps that a goroutine takes without waiting for anything outside.
Run(t) ==
    \/ AcquireShared(t) /\ pc[t] # "start"
    \/ Granted(t) \/ Check(t) \/ Load(t) \/ Shutdown(t)

Next ==
    \/ \E t \in Threads :
        \/ AcquireShared(t) \/ Granted(t)
        \/ Check(t) \/ LoadRPC(t) \/ Load(t)
        \/ StartShutdown(t) \/ Deadline(t) \/ Shutdown(t)
        \/ StartCall(t) \/ EndCall(t)
    \/ Crash \/ HealthExpires \/ CooldownExpires

(***************************************************************************)
(* A goroutine that can run runs, and contexts end.  Nothing obliges a     *)
(* request to arrive, a backend to answer, or a process to crash.          *)
(***************************************************************************)
Fairness == \A t \in Threads : WF_vars(Run(t)) /\ WF_vars(Deadline(t))

Spec == Init /\ [][Next]_vars

FairSpec == Spec /\ Fairness

-----------------------------------------------------------------------------
(***************************************************************************)
(* One load at a time: ml.loading has an entry exactly while one goroutine *)
(* leads a load, so concurrent requests for a cold model start one backend *)
(* process, and a goroutine that waits on the channel waits for somebody   *)
(* who will close it.                                                      *)
(***************************************************************************)
SingleFlight ==
    /\ loading <=> \E t \in Threads : pc[t] \in LeaderSteps
    /\ \A t, u \in Threads :
           pc[t] \in LeaderSteps /\ pc[u] \in LeaderSteps => t = u
    /\ \A t \in Threads : pc[t] = "waiting" => loading

(***************************************************************************)
(* shutdownModel's deleteProcess is alone: no request probes, loads or     *)
(* reaps the model while it is being unloaded, so a reload of the model is *)
(* ordered behind its shutdown.                                            *)
(***************************************************************************)
ShutdownIsAlone ==
    \A t, u \in Threads :
        t # u /\ pc[t] \in DeleteSteps =>
            pc[u] \notin CheckSteps \cup LoadSteps \cup DeleteSteps

(***************************************************************************)
(* store.Set never replaces an entry: from the moment a leader decides to  *)
(* load until it publishes, nobody else registers the model, even when     *)
(* processes crash and Stop fails.                                         *)
(***************************************************************************)
LeaderOwnsEmptySlot ==
    \A t \in Threads :
        pc[t] \in LeaderSteps \ {"finish"} => store = NoHandle

\* So far no process died on its own and process.Stop never failed.
Calm == crashes = 0 /\ stopFailures = 0

(***************************************************************************)
(* As long as no process has crashed and no Stop has failed, every backend *)
(* process that runs is the one in the store or the one that the current   *)
(* leader is bringing up: none is left behind where no shutdown could find *)
(* it.  (See the README for what happens afterwards.)                      *)
(***************************************************************************)
NoOrphanProcess ==
    Calm => alive \subseteq {store} \cup
        {client[t] : t \in {u \in Threads : pc[u] \in {"loadRPC", "publish"}}}

(***************************************************************************)
(* As long as that is so, the loader is one slot: at most one process,     *)
(* registered after it serves and withdrawn after it is stopped.           *)
(***************************************************************************)
Slot == INSTANCE ModelSlot WITH resident <- store, running <- alive

IsOneSlot == Slot!Init /\ [][Calm' => [Slot!Next]_Slot!slotVars]_vars

(***************************************************************************)
(* Shutdowns return: a busy model, a model whose load never ends and a     *)
(* queue of other lifecycle operations delay ShutdownModel only until its  *)
(* deadline, although no inference call and no LoadModel call has to       *)
(* answer.                                                                 *)
(***************************************************************************)
ShutdownsReturn ==
    \A t \in Threads :
        pc[t] \in DeleteSteps \cup {"exclusiveWait", "escalate"} ~> pc[t] = "done"

(***************************************************************************)
(* If every LoadModel call answers, every request gets a client or an      *)
(* error: no wakeup of a coalesced load is lost, and no cycle of lock,     *)
(* health mutex and loading channel blocks.                                *)
(***************************************************************************)
RequestsReturn ==
    (\A t \in Threads : []<>(pc[t] # "loadRPC")) =>
        \A t \in Threads :
            pc[t] \in CheckSteps \cup LoadSteps \cup {"sharedWait"}
                ~> pc[t] \in {"ready", "calling", "done"}

-----------------------------------------------------------------------------
(***************************************************************************)
(* What the comments say and the code does not do.                         *)
(***************************************************************************)

(***************************************************************************)
(* "Same-model ordering is provided by modelOperationLocks": the reaping   *)
(* of a dead backend deletes the backend that was found dead, not one that *)
(* was loaded after it.                                                    *)
(***************************************************************************)
ReapsWhatItProbed ==
    \A t \in Threads :
        pc[t] \in {"reapStop", "reapDelete"} => target[t] = probed[t]

(***************************************************************************)
(* "the model usually wasn't registered yet (LoadModel failed before       *)
(* that)": the cleanup of a failed load finds nothing to shut down.        *)
(***************************************************************************)
CleanupUnloadsNothing ==
    \A t \in Requests : pc[t] = "delete" => store = NoHandle

(***************************************************************************)
(* "If still not loaded, the other goroutine failed. Retry once as part of *)
(* this burst".                                                            *)
(***************************************************************************)
RetriesOnce == \A t \in Threads : retries[t] <= 1

(***************************************************************************)
(* "ShutdownModelForce stops a backend without waiting for an in-flight    *)
(* gRPC call to finish first": it does not give up because a LoadModel     *)
(* call is in flight.                                                      *)
(***************************************************************************)
ForceIgnoresCalls ==
    [][\A t \in Threads :
          LockDeadline(t) /\ force[t] => \A u \in Threads : pc[u] # "loadRPC"]_vars

(***************************************************************************)
(* "the graceful ShutdownModel intentionally waits for active calls until  *)
(* its bounded deadline": it never stops a process with a call in flight.  *)
(***************************************************************************)
GracefulWaitsForCalls ==
    [][\A t \in Threads :
          StopProcess(t) /\ ~force[t] => InFlight(target[t]) = {}]_vars
=============================================================================
