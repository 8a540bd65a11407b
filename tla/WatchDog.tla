------------------------------ MODULE WatchDog ------------------------------
(***************************************************************************)
(* The watchdog of pkg/model: what it tracks of every backend address, the *)
(* evictions a load asks of it (concurrency groups, then the LRU limit),   *)
(* and the checks its own goroutine makes (busy, idle, memory).            *)
(*                                                                         *)
(* The watchdog knows addresses; it stops models by name, through the      *)
(* loader.  The loader appears here as what it promises: one load of a     *)
(* model at a time, and a shutdown that excludes a load of the same model  *)
(* (ModelLoader shows both).  Each section under wd.Lock is one action.    *)
(***************************************************************************)
EXTENDS SequencesExt, FiniteSetsExt, Integers

CONSTANTS
    Models,
    NoModel,
    Requests,           \* goroutines that load a model and call it once
    WD,                 \* the goroutine of Run
    MaxAddress,         \* bound: addresses that startProcess can take
    MaxUnloads,         \* bound: shutdowns by the API, and crashes
    MaxRetries,         \* lruEvictionMaxRetries
    LRULimit,           \* lruLimit; 0 is unlimited
    Groups,             \* modelGroups
    Pinned,             \* pinnedModels
    ForceEviction,      \* forceEvictionWhenBusy
    BusyCheck, IdleCheck, MemoryCheck,
    SerialLoads,        \* environment: one request loads at a time
    DeadlinesExpire     \* environment: a shutdown may run out of time

Threads == Requests \cup {WD}

Address == 1..MaxAddress

NoAddress == 0

\* A request makes at most two calls that the watchdog tracks.
Calls == Requests \X {"LoadModel", "infer"}

NoCall == <<>>

ASSUME WatchDogAssumption ==
    /\ WD \notin Requests
    /\ NoModel \notin Models
    /\ IsFiniteSet(Models)
    /\ {MaxAddress, MaxUnloads, LRULimit} \subseteq Nat
    /\ MaxRetries \in Nat \ {0}
    /\ DOMAIN Groups = Models
    /\ Pinned \subseteq Models
    /\ {ForceEviction, BusyCheck, IdleCheck, MemoryCheck, SerialLoads,
        DeadlinesExpire} \subseteq BOOLEAN

VARIABLES
    addressModelMap,    \* the model of a tracked address, or NoModel
    requestStarts,      \* the calls active on an address, oldest first
    busyTime,           \* the call whose start the busy mark holds
    idleTime,           \* no idle mark, a recent one, or one past the timeout
    lastUsed,           \* addresses with a last use, least recent first
    overdue,            \* calls that began more than the busy timeout ago
    running,            \* the loader's store: address of the model's process
    loading,            \* ml.loading: models being loaded
    addresses,          \* number of addresses taken so far
    unloads,            \* number of API shutdowns and crashes so far
    pc,                 \* pc[t]: the step t is about to take
    model,              \* model[r]: the model r asks for
    client,             \* client[r]: the address r uses
    pending,            \* pending[r]: pendingLoads of enforceLRULimit
    attempt,            \* attempt[r]: attempt of retryEnforce
    needMore,           \* needMore[r]: result of the last enforcement
    targets,            \* targets[t]: evictions t still has to shut down
    gaveUp              \* whether a retryEnforce ran out of attempts

trackVars == <<addressModelMap, requestStarts, busyTime, idleTime, lastUsed>>
loaderVars == <<running, loading, addresses, unloads>>
enforceVars == <<pending, attempt, needMore, gaveUp>>
vars == <<trackVars, overdue, loaderVars, enforceVars, pc, model, client, targets>>

-----------------------------------------------------------------------------
Target == [address : Address, model : Models, wasBusy : BOOLEAN]

\* Steps of Load before it calls backendLoader.
EnforceSteps == {"groups", "groupsStop", "count", "lru", "lruStop"}

\* Steps of backendLoader; in the last three the request leads the load.
LoadSteps == {"load", "spawned", "loadRPC", "publish"}

PC == EnforceSteps \cup LoadSteps
          \cup {"start", "hit", "ready", "calling", "done"}
          \cup {"tick", "busyStop", "idleStop", "memoryStop", "untrack"}

TypeOK ==
    /\ addressModelMap \in [Address -> Models \cup {NoModel}]
    /\ requestStarts \in [Address -> Seq(Calls)]
    /\ busyTime \in [Address -> Calls \cup {NoCall}]
    /\ idleTime \in [Address -> {"none", "recent", "long"}]
    /\ lastUsed \in Seq(Address) /\ IsInjective(lastUsed)
    /\ overdue \subseteq Calls
    /\ running \in [Models -> Address \cup {NoAddress}]
    /\ loading \subseteq Models
    /\ addresses \in 0..MaxAddress
    /\ unloads \in 0..MaxUnloads
    /\ pc \in [Threads -> PC]
    /\ model \in [Requests -> Models \cup {NoModel}]
    /\ client \in [Requests -> Address \cup {NoAddress}]
    /\ pending \in [Requests -> Nat]
    /\ attempt \in [Requests -> 0..MaxRetries - 1]
    /\ needMore \in [Requests -> BOOLEAN]
    /\ targets \in [Threads -> SUBSET Target]
    /\ gaveUp \in BOOLEAN

Init ==
    /\ addressModelMap = [a \in Address |-> NoModel]
    /\ requestStarts = [a \in Address |-> <<>>]
    /\ busyTime = [a \in Address |-> NoCall]
    /\ idleTime = [a \in Address |-> "none"]
    /\ lastUsed = <<>>
    /\ overdue = {}
    /\ running = [m \in Models |-> NoAddress]
    /\ loading = {}
    /\ addresses = 0
    /\ unloads = 0
    /\ pc = [t \in Threads |-> IF t = WD THEN "tick" ELSE "start"]
    /\ model = [r \in Requests |-> NoModel]
    /\ client = [r \in Requests |-> NoAddress]
    /\ pending = [r \in Requests |-> 0]
    /\ attempt = [r \in Requests |-> 0]
    /\ needMore = [r \in Requests |-> FALSE]
    /\ targets = [t \in Threads |-> {}]
    /\ gaveUp = FALSE

Goto(t, step) == pc' = [pc EXCEPT ![t] = step]

-----------------------------------------------------------------------------
(***************************************************************************)
(* What the watchdog keeps of an address.                                  *)
(***************************************************************************)
Tracked == {a \in Address : addressModelMap[a] # NoModel}

Busy(a) == busyTime[a] # NoCall

\* lastUsed[a] = time.Now().
Used(a) == Append(Remove(lastUsed, a), a)

\* Place of a in the LRU order: an address without a last use comes first.
Rank(a) == IF Contains(lastUsed, a) THEN CHOOSE i \in DOMAIN lastUsed : lastUsed[i] = a
                                   ELSE 0

\* untrack of every address of A.
Untrack(A) ==
    /\ addressModelMap' = [a \in Address |-> IF a \in A THEN NoModel
                                             ELSE addressModelMap[a]]
    /\ requestStarts' = [a \in Address |-> IF a \in A THEN <<>> ELSE requestStarts[a]]
    /\ busyTime' = [a \in Address |-> IF a \in A THEN NoCall ELSE busyTime[a]]
    /\ idleTime' = [a \in Address |-> IF a \in A THEN "none" ELSE idleTime[a]]
    /\ lastUsed' = SelectSeq(lastUsed, LAMBDA a : a \notin A)

\* beginRequestLocked.
BeginRequest(a, c) ==
    /\ requestStarts' = [requestStarts EXCEPT ![a] = Append(@, c)]
    /\ busyTime' = [busyTime EXCEPT ![a] = IF Busy(a) THEN @ ELSE c]
    /\ idleTime' = [idleTime EXCEPT ![a] = "none"]
    /\ lastUsed' = Used(a)
    /\ UNCHANGED addressModelMap

\* The calls active on a without c, which is there once.
Rest(a, c) ==
    RemoveAt(requestStarts[a], CHOOSE i \in DOMAIN requestStarts[a] : requestStarts[a][i] = c)

\* Wrong form: the busy mark keeps the start of the first call.
FinishKeepsBusyTime(a, c) ==
    LET rest == Rest(a, c) IN
    IF c \notin ToSet(requestStarts[a])
    THEN UNCHANGED trackVars
    ELSE /\ requestStarts' = [requestStarts EXCEPT ![a] = rest]
         /\ busyTime' = [busyTime EXCEPT ![a] = IF rest = <<>> THEN NoCall ELSE @]
         /\ idleTime' = [idleTime EXCEPT ![a] = IF rest = <<>> THEN "recent" ELSE @]
         /\ lastUsed' = Used(a)
         /\ UNCHANGED addressModelMap

\* finishRequestLocked: a call that untrack dropped is ignored.
FinishRequest(a, c) ==
    LET rest == Rest(a, c) IN
    IF c \notin ToSet(requestStarts[a])
    THEN UNCHANGED trackVars
    ELSE /\ requestStarts' = [requestStarts EXCEPT ![a] = rest]
         /\ busyTime' = [busyTime EXCEPT ![a] = IF rest = <<>> THEN NoCall ELSE Head(rest)]
         /\ idleTime' = [idleTime EXCEPT ![a] = IF rest = <<>> THEN "recent" ELSE @]
         /\ lastUsed' = Used(a)
         /\ UNCHANGED addressModelMap

\* A tracked call that begins and ends on an address without other calls: Free.
ShortRequest(a) ==
    /\ idleTime' = [idleTime EXCEPT ![a] = "recent"]
    /\ lastUsed' = Used(a)
    /\ UNCHANGED <<addressModelMap, requestStarts, busyTime>>

-----------------------------------------------------------------------------
(***************************************************************************)
(* Evictions.                                                              *)
(***************************************************************************)
Skipped(a) == addressModelMap[a] \in Pinned \/ (Busy(a) /\ ~ForceEviction)

\* The sets that collectEvictionsLocked may take from the candidates C.
Evictions(C, max) ==
    LET eligible == {a \in C : ~Skipped(a)} IN
    {E \in SUBSET eligible :
        /\ Cardinality(E) = Min({max, Cardinality(eligible)})
        /\ \A e \in E, a \in eligible \ E : Rank(e) <= Rank(a)}

TargetOf(a) == [address |-> a, model |-> addressModelMap[a], wasBusy |-> Busy(a)]

InFlight(a) == {r \in Requests : pc[r] = "calling" /\ client[r] = a}

\* ShutdownModel or ShutdownModelForce of x.model returns without a deadline.
NotFound(x) ==
    /\ x.model \notin loading
    /\ running[x.model] = NoAddress

Stoppable(x) ==
    /\ x.model \notin loading
    /\ running[x.model] # NoAddress
    /\ x.wasBusy \/ InFlight(running[x.model]) = {}

\* "waiting to shut down model", or ErrModelBusy.
OutOfTime(x) ==
    /\ DeadlinesExpire
    /\ \/ x.model \in loading
       \/ running[x.model] # NoAddress /\ ~x.wasBusy /\ InFlight(running[x.model]) # {}

\* The graceful path calls Free before it stops the process.
Stop(x) ==
    /\ running' = [running EXCEPT ![x.model] = NoAddress]
    /\ IF x.wasBusy THEN UNCHANGED trackVars ELSE ShortRequest(running[x.model])
    /\ UNCHANGED <<loading, addresses, unloads>>

StopSteps == {"groupsStop", "lruStop", "busyStop", "idleStop"}

\* shutdownEvicted, and the second halves of checkBusy and checkIdle.
ShutdownTarget(t, x) ==
    /\ pc[t] \in StopSteps
    /\ x \in targets[t]
    /\ \/ Stoppable(x) /\ Stop(x)
       \/ NotFound(x) /\ UNCHANGED <<loaderVars, trackVars>>
    /\ targets' = [targets EXCEPT ![t] = @ \ {x}]
    /\ UNCHANGED <<overdue, enforceVars, pc, model, client>>

\* The error is logged; the address is not tracked again.
ShutdownTargetFails(t, x) ==
    /\ pc[t] \in StopSteps
    /\ x \in targets[t]
    /\ OutOfTime(x)
    /\ targets' = [targets EXCEPT ![t] = @ \ {x}]
    /\ UNCHANGED <<trackVars, overdue, loaderVars, enforceVars, pc, model, client>>

-----------------------------------------------------------------------------
(***************************************************************************)
(* A request: Load, then one call.                                         *)
(***************************************************************************)
Loads(r) == pc[r] \in EnforceSteps \cup LoadSteps

\* CheckIsLoaded: the model is loaded, or the load begins.
Start(r) ==
    /\ pc[r] = "start"
    /\ \E m \in Models :
        /\ model' = [model EXCEPT ![r] = m]
        /\ client' = [client EXCEPT ![r] = running[m]]
        /\ \/ running[m] # NoAddress /\ Goto(r, "hit")
           \/ /\ running[m] = NoAddress
              /\ SerialLoads => \A u \in Requests : ~Loads(u)
              /\ Goto(r, "groups")
    /\ UNCHANGED <<trackVars, overdue, loaderVars, enforceVars, targets>>

\* updateModelLastUsed.
UpdateLastUsed(r) ==
    /\ pc[r] = "hit"
    /\ lastUsed' = Used(client[r])
    /\ Goto(r, "ready")
    /\ UNCHANGED <<addressModelMap, requestStarts, busyTime, idleTime, overdue,
                   loaderVars, enforceVars, model, client, targets>>

Conflicts(m) ==
    {a \in Tracked :
        /\ addressModelMap[a] # m
        /\ Groups[addressModelMap[a]] \cap Groups[m] # {}}

EnforceGroupExclusivity(r) ==
    /\ pc[r] = "groups"
    /\ LET C == Conflicts(model[r]) IN
       \E E \in Evictions(C, Cardinality(C)) :
        /\ targets' = [targets EXCEPT ![r] = {TargetOf(a) : a \in E}]
        /\ needMore' = [needMore EXCEPT ![r] = E # C]
        /\ Untrack(E)
    /\ Goto(r, "groupsStop")
    /\ UNCHANGED <<overdue, loaderVars, pending, attempt, gaveUp, model, client>>

\* enforceLRULimit reads GetLoadingCount once, before its attempts.
CountLoads(r) ==
    /\ pc[r] = "count"
    /\ pending' = [pending EXCEPT ![r] = Cardinality(loading)]
    /\ Goto(r, "lru")
    /\ UNCHANGED <<trackVars, overdue, loaderVars, attempt, needMore, gaveUp, model,
                   client, targets>>

\* Wrong form: the model about to be loaded is not counted.
ToEvictOneLess(r) == Cardinality(Tracked) - LRULimit + pending[r]

ToEvict(r) == Cardinality(Tracked) - LRULimit + pending[r] + 1

\* Wrong form: the oldest addresses are untracked before the pins are looked at.
EnforceLRULimitPinLate(r) ==
    /\ pc[r] = "lru"
    /\ LET max == IF LRULimit = 0 THEN 0 ELSE Max({0, ToEvict(r)}) IN
       \E E \in SUBSET Tracked :
        /\ Cardinality(E) = Min({max, Cardinality(Tracked)})
        /\ \A e \in E, a \in Tracked \ E : Rank(e) <= Rank(a)
        /\ targets' = [targets EXCEPT ![r] = {TargetOf(a) : a \in {e \in E : ~Skipped(e)}}]
        /\ Untrack(E)
    /\ Goto(r, "lruStop")
    /\ UNCHANGED <<overdue, loaderVars, enforceVars, model, client>>

EnforceLRULimit(r) ==
    /\ pc[r] = "lru"
    /\ LET max == IF LRULimit = 0 THEN 0 ELSE Max({0, ToEvict(r)}) IN
       \E E \in Evictions(Tracked, max) :
        /\ targets' = [targets EXCEPT ![r] = {TargetOf(a) : a \in E}]
        /\ needMore' = [needMore EXCEPT ![r] =
               /\ Cardinality(E) < max
               /\ \E a \in Tracked : addressModelMap[a] \notin Pinned /\ Skipped(a)]
        /\ Untrack(E)
    /\ Goto(r, "lruStop")
    /\ UNCHANGED <<overdue, loaderVars, pending, attempt, gaveUp, model, client>>

\* The step before and after the attempts of an enforcement.
Enforce(r) == IF pc[r] = "groupsStop" THEN "groups" ELSE "lru"
AfterEnforce(r) == IF pc[r] = "groupsStop" THEN "count" ELSE "load"

\* Wrong form: the shutdowns go on in the background.
EnforcedEarly(r) == pc[r] \in {"groupsStop", "lruStop"}

Enforced(r) == pc[r] \in {"groupsStop", "lruStop"} /\ targets[r] = {}

EnforceDone(r) ==
    /\ Enforced(r)
    /\ ~needMore[r]
    /\ attempt' = [attempt EXCEPT ![r] = 0]
    /\ Goto(r, AfterEnforce(r))
    /\ UNCHANGED <<trackVars, overdue, loaderVars, pending, needMore, gaveUp, model,
                   client, targets>>

\* Wrong form: the attempts are not counted.
RetryForever(r) ==
    /\ Enforced(r)
    /\ needMore[r]
    /\ Goto(r, Enforce(r))
    /\ UNCHANGED <<trackVars, overdue, loaderVars, enforceVars, model, client, targets>>

\* time.Sleep(retryInterval).
EnforceRetry(r) ==
    /\ Enforced(r)
    /\ needMore[r]
    /\ attempt[r] < MaxRetries - 1
    /\ attempt' = [attempt EXCEPT ![r] = @ + 1]
    /\ Goto(r, Enforce(r))
    /\ UNCHANGED <<trackVars, overdue, loaderVars, pending, needMore, gaveUp, model,
                   client, targets>>

\* "enforcement incomplete after max retries": the load goes on.
EnforceGivesUp(r) ==
    /\ Enforced(r)
    /\ needMore[r]
    /\ attempt[r] = MaxRetries - 1
    /\ attempt' = [attempt EXCEPT ![r] = 0]
    /\ gaveUp' = TRUE
    /\ Goto(r, AfterEnforce(r))
    /\ UNCHANGED <<trackVars, overdue, loaderVars, pending, needMore, model, client,
                   targets>>

\* loadModel finds what another request has loaded since.
LoadFound(r) ==
    /\ pc[r] = "load"
    /\ running[model[r]] # NoAddress
    /\ client' = [client EXCEPT ![r] = running[model[r]]]
    /\ Goto(r, "ready")
    /\ UNCHANGED <<trackVars, overdue, loaderVars, enforceVars, model, targets>>

\* The request leads the load: startProcess, wd.Add, wd.AddAddressModelMap.
StartProcess(r) ==
    /\ pc[r] = "load"
    /\ running[model[r]] = NoAddress
    /\ model[r] \notin loading
    /\ addresses < MaxAddress
    /\ addresses' = addresses + 1
    /\ addressModelMap' = [addressModelMap EXCEPT ![addresses + 1] = model[r]]
    /\ client' = [client EXCEPT ![r] = addresses + 1]
    /\ loading' = loading \cup {model[r]}
    /\ Goto(r, "spawned")
    /\ UNCHANGED <<requestStarts, busyTime, idleTime, lastUsed, overdue, running,
                   unloads, enforceVars, model, targets>>

\* process.Run fails: the address stays tracked.  No free address: it fails too.
StartProcessFails(r) ==
    /\ pc[r] = "load"
    /\ running[model[r]] = NoAddress
    /\ model[r] \notin loading
    /\ \/ /\ addresses < MaxAddress
          /\ addresses' = addresses + 1
          /\ addressModelMap' = [addressModelMap EXCEPT ![addresses + 1] = model[r]]
       \/ /\ addresses = MaxAddress
          /\ UNCHANGED <<addresses, addressModelMap>>
    /\ Goto(r, "done")
    /\ UNCHANGED <<requestStarts, busyTime, idleTime, lastUsed, overdue, running,
                   loading, unloads, enforceVars, model, client, targets>>

\* The LoadModel call, which the watchdog tracks like any other.
BeginLoadModel(r) ==
    /\ pc[r] = "spawned"
    /\ BeginRequest(client[r], <<r, "LoadModel">>)
    /\ Goto(r, "loadRPC")
    /\ UNCHANGED <<overdue, loaderVars, enforceVars, model, client, targets>>

EndLoadModel(r) ==
    /\ pc[r] = "loadRPC"
    /\ FinishRequest(client[r], <<r, "LoadModel">>)
    /\ Goto(r, "publish")
    /\ UNCHANGED <<overdue, loaderVars, enforceVars, model, client, targets>>

Publish(r) ==
    /\ pc[r] = "publish"
    /\ running' = [running EXCEPT ![model[r]] = client[r]]
    /\ loading' = loading \ {model[r]}
    /\ Goto(r, "ready")
    /\ UNCHANGED <<trackVars, overdue, addresses, unloads, enforceVars, model, client,
                   targets>>

\* stopLoadProcess: the address stays tracked.
LoadFails(r) ==
    /\ pc[r] = "publish"
    /\ loading' = loading \ {model[r]}
    /\ Goto(r, "done")
    /\ UNCHANGED <<trackVars, overdue, running, addresses, unloads, enforceVars, model,
                   client, targets>>

BeginCall(r) ==
    /\ pc[r] = "ready"
    /\ BeginRequest(client[r], <<r, "infer">>)
    /\ Goto(r, "calling")
    /\ UNCHANGED <<overdue, loaderVars, enforceVars, model, client, targets>>

EndCall(r) ==
    /\ pc[r] = "calling"
    /\ FinishRequest(client[r], <<r, "infer">>)
    /\ Goto(r, "done")
    /\ UNCHANGED <<overdue, loaderVars, enforceVars, model, client, targets>>

-----------------------------------------------------------------------------
(***************************************************************************)
(* The checks of Run.  A check that finds nothing changes nothing, so any  *)
(* of them may be the next one to find something.                          *)
(***************************************************************************)
CheckBusy ==
    LET A == {a \in Address : busyTime[a] \in overdue} IN
    /\ BusyCheck
    /\ pc[WD] = "tick"
    /\ A # {}
    /\ Untrack(A)
    /\ targets' = [targets EXCEPT ![WD] =
           {[address |-> a, model |-> addressModelMap[a], wasBusy |-> TRUE] :
               a \in A \cap Tracked}]
    /\ Goto(WD, "busyStop")
    /\ UNCHANGED <<overdue, loaderVars, enforceVars, model, client>>

CheckIdle ==
    LET A == {a \in Address : idleTime[a] = "long" /\ addressModelMap[a] \notin Pinned} IN
    /\ IdleCheck
    /\ pc[WD] = "tick"
    /\ A # {}
    /\ Untrack(A)
    /\ targets' = [targets EXCEPT ![WD] =
           {[address |-> a, model |-> addressModelMap[a], wasBusy |-> FALSE] :
               a \in A \cap Tracked}]
    /\ Goto(WD, "idleStop")
    /\ UNCHANGED <<overdue, loaderVars, enforceVars, model, client>>

\* Wrong form: pinned and busy models are not skipped.
EvictLRUModelAny ==
    /\ MemoryCheck
    /\ pc[WD] = "tick"
    /\ \E a \in Tracked : targets' = [targets EXCEPT ![WD] = {TargetOf(a)}]
    /\ Goto(WD, "memoryStop")
    /\ UNCHANGED <<trackVars, overdue, loaderVars, enforceVars, model, client>>

\* checkMemory above the threshold: the address is still tracked meanwhile.
EvictLRUModel ==
    /\ MemoryCheck
    /\ pc[WD] = "tick"
    /\ \E E \in Evictions(Tracked, 1) :
        /\ E # {}
        /\ targets' = [targets EXCEPT ![WD] = {TargetOf(a) : a \in E}]
    /\ Goto(WD, "memoryStop")
    /\ UNCHANGED <<trackVars, overdue, loaderVars, enforceVars, model, client>>

EvictLRUModelStops ==
    /\ pc[WD] = "memoryStop"
    /\ \E x \in targets[WD] :
        \/ Stoppable(x) /\ Stop(x)
        \/ NotFound(x) /\ UNCHANGED <<loaderVars, trackVars>>
    /\ Goto(WD, "untrack")
    /\ UNCHANGED <<overdue, enforceVars, model, client, targets>>

EvictLRUModelUntracks ==
    /\ pc[WD] = "untrack"
    /\ Untrack({x.address : x \in targets[WD]})
    /\ targets' = [targets EXCEPT ![WD] = {}]
    /\ Goto(WD, "tick")
    /\ UNCHANGED <<overdue, loaderVars, enforceVars, model, client>>

EvictLRUModelFails ==
    /\ pc[WD] = "memoryStop"
    /\ \E x \in targets[WD] : OutOfTime(x)
    /\ targets' = [targets EXCEPT ![WD] = {}]
    /\ Goto(WD, "tick")
    /\ UNCHANGED <<trackVars, overdue, loaderVars, enforceVars, model, client>>

CheckDone ==
    /\ pc[WD] \in {"busyStop", "idleStop"}
    /\ targets[WD] = {}
    /\ Goto(WD, "tick")
    /\ UNCHANGED <<trackVars, overdue, loaderVars, enforceVars, model, client, targets>>

-----------------------------------------------------------------------------
(***************************************************************************)
(* Time, and what stops a model without the watchdog: ShutdownModel of the *)
(* API, and the reaping of a process that died.                            *)
(***************************************************************************)
IdleTimeout ==
    /\ \E a \in Address :
        /\ idleTime[a] = "recent"
        /\ idleTime' = [idleTime EXCEPT ![a] = "long"]
    /\ UNCHANGED <<addressModelMap, requestStarts, busyTime, lastUsed, overdue,
                   loaderVars, enforceVars, pc, model, client, targets>>

\* A call, or the start that a busy mark remembers, passes the busy timeout.
BusyTimeout ==
    /\ \E a \in Address, c \in Calls \ overdue :
        /\ c = busyTime[a] \/ c \in ToSet(requestStarts[a])
        /\ \A i, j \in DOMAIN requestStarts[a] :
               i < j /\ requestStarts[a][j] = c => requestStarts[a][i] \in overdue
        /\ overdue' = overdue \cup {c}
    /\ UNCHANGED <<trackVars, loaderVars, enforceVars, pc, model, client, targets>>

Unload ==
    /\ unloads < MaxUnloads
    /\ unloads' = unloads + 1
    /\ \E m \in Models \ loading :
        /\ running[m] # NoAddress
        /\ running' = [running EXCEPT ![m] = NoAddress]
        /\ \/ InFlight(running[m]) = {} /\ ShortRequest(running[m])
           \/ UNCHANGED trackVars
    /\ UNCHANGED <<overdue, loading, addresses, enforceVars, pc, model, client, targets>>

-----------------------------------------------------------------------------
EnforceStep(r) ==
    \/ EnforceGroupExclusivity(r) \/ CountLoads(r) \/ EnforceLRULimit(r)
    \/ EnforceDone(r) \/ EnforceRetry(r) \/ EnforceGivesUp(r)

LoadStep(r) ==
    \/ LoadFound(r) \/ StartProcess(r) \/ StartProcessFails(r)
    \/ BeginLoadModel(r) \/ EndLoadModel(r) \/ Publish(r) \/ LoadFails(r)

EvictionStep(t) ==
    \E x \in targets[t] : ShutdownTarget(t, x) \/ ShutdownTargetFails(t, x)

CallStep(r) == Start(r) \/ UpdateLastUsed(r) \/ BeginCall(r) \/ EndCall(r)

RunStep ==
    \/ CheckBusy \/ CheckIdle \/ CheckDone
    \/ EvictLRUModel \/ EvictLRUModelStops \/ EvictLRUModelUntracks
    \/ EvictLRUModelFails

Next ==
    \/ \E r \in Requests : EnforceStep(r) \/ LoadStep(r) \/ CallStep(r)
    \/ \E t \in Threads : EvictionStep(t)
    \/ RunStep
    \/ IdleTimeout \/ BusyTimeout \/ Unload

Spec == Init /\ [][Next]_vars

(***************************************************************************)
(* Goroutines that can run do, and a shutdown that cannot go on runs out   *)
(* of time.  LoadModel calls answer; inference calls need not.             *)
(***************************************************************************)
Fairness ==
    \A r \in Requests : WF_vars(EnforceStep(r) \/ LoadStep(r) \/ EvictionStep(r))

FairSpec == Spec /\ Fairness

-----------------------------------------------------------------------------
(***************************************************************************)
(* A busy mark is the oldest call still active on the address, and only    *)
(* calls in flight are active: parallel traffic never looks stuck, and no  *)
(* finished call keeps a model busy.                                       *)
(***************************************************************************)
BusyMatchesCalls ==
    \A a \in Address :
        /\ busyTime[a] = IF requestStarts[a] = <<>> THEN NoCall ELSE Head(requestStarts[a])
        /\ \A c \in ToSet(requestStarts[a]) :
            /\ client[c[1]] = a
            /\ pc[c[1]] = IF c[2] = "infer" THEN "calling" ELSE "loadRPC"
        /\ requestStarts[a] # <<>> => idleTime[a] = "none"

(***************************************************************************)
(* Pinned models are stopped by the busy check only, and a model selected  *)
(* while busy is stopped only by the busy check or with                    *)
(* forceEvictionWhenBusy.                                                  *)
(***************************************************************************)
EvictsOnlyEligible ==
    \A t \in Threads :
        pc[t] # "busyStop" =>
            \A x \in targets[t] :
                x.model \notin Pinned /\ (x.wasBusy => ForceEviction)

(***************************************************************************)
(* As long as shutdowns finish, no loaded model escapes the watchdog: its  *)
(* address is tracked, or somebody is about to stop it.                    *)
(***************************************************************************)
NothingEscapes ==
    \A m \in Models :
        running[m] \in Tracked \cup {NoAddress}
            \/ \E t \in Threads : \E x \in targets[t] : x.model = m

Loaded == {m \in Models : running[m] # NoAddress}

(***************************************************************************)
(* --max-active-backends: more than LRULimit models are loaded only after  *)
(* an enforcement gave up on busy models.                                  *)
(***************************************************************************)
LimitKept == LRULimit > 0 => Cardinality(Loaded) <= LRULimit \/ gaveUp

(***************************************************************************)
(* "Two loaded models that share at least one group cannot coexist on this *)
(* node", unless an enforcement gave up.                                   *)
(***************************************************************************)
GroupsExclusive ==
    \A m, n \in Loaded : m # n /\ Groups[m] \cap Groups[n] # {} => gaveUp

(***************************************************************************)
(* Whatever is busy or pinned, and although no inference call has to end,  *)
(* a request gets its model or an error.                                   *)
(***************************************************************************)
LoadsFinish == \A r \in Requests : Loads(r) ~> ~Loads(r)

(***************************************************************************)
(* The idle check stops the process that was idle, not one that was loaded *)
(* under the same name since.                                              *)
(***************************************************************************)
StopsWhatWasIdle ==
    [][\A x \in targets[WD] :
          pc[WD] = "idleStop" /\ ShutdownTarget(WD, x) =>
              running[x.model] \in {x.address, NoAddress}]_vars
=============================================================================
