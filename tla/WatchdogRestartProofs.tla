------------------------ MODULE WatchdogRestartProofs ------------------------
(***************************************************************************)
(* WatchdogRestart for every number of administrators and models: its      *)
(* typing, that no channel is closed twice, and that at most one Run is    *)
(* active.                                                                 *)
(*                                                                         *)
(* Both rest on watchdogMutex: between the steps of one administrator no   *)
(* other one moves (Holding), so that the channel it has read is the       *)
(* channel it closes (Channels) and the watchdog it has read is the one    *)
(* whose Run it waits for (Replaced).  The wait is what makes a Run end    *)
(* before the next one starts (Runs).                                      *)
(***************************************************************************)
EXTENDS WatchdogRestart, FiniteSetTheorems, TLAPS

-----------------------------------------------------------------------------
(***************************************************************************)
(* The inductive invariant.                                                *)
(***************************************************************************)

\* Only the holder of watchdogMutex is inside StopWatchdog or RestartWatchdog.
Holding == \A t \in Admins : admin[t] \notin {"idle", "done"} <=> mutex = t

\* The channel of the application is open, but for the moment between the
\* close and the assignment of nil.
Channels ==
    /\ watchdogStop \in 0..created
    /\ closed \subseteq 1..created
    /\ watchdogStop \in closed => \E t \in Admins : admin[t] \in {"stopClear", "clear"}
    /\ \A t \in Admins : admin[t] \in {"stop", "stopClear", "clear"} => watchdogStop # None

\* A watchdog is that of boot or has an administrator that started it.
Starters == {t \in Admins : admin[t] \in {"restore", "done"}}
Numbered == created <= 1 + Cardinality(Starters)

\* The watchdog that a restart has read is the current one until it starts the next.
Replaced ==
    /\ current \in 0..created
    /\ \A t \in Admins :
        /\ admin[t] \in {"state", "close", "clear", "shutdown", "send", "wait"} =>
               oldWD[t] = current
        /\ admin[t] \in {"state", "shutdown", "send", "wait"} => oldWD[t] # None
        /\ admin[t] = "restore" => current # None

\* A Run other than the current one has ended, and the current one before the next starts.
Runs ==
    /\ \A w \in Watchdog :
        /\ done[w] = 1 => run[w] = "ended"
        /\ w > created => run[w] = "none"
        /\ w # current => run[w] \in {"none", "ended"}
    /\ \A t \in Admins :
        admin[t] = "start" /\ current # None => run[current] \in {"none", "ended"}

\* A load or a call knows the watchdog it is about to use.
Known == \A m \in Models : pc[m] \in {"adding", "calling"} => seen[m] # None

IInv == TypeOK /\ Holding /\ Channels /\ Numbered /\ Replaced /\ Runs /\ Known

\* At boot nobody stops or restarts the watchdog, and it is the first.
LEMMA InitHolds == Init => IInv
<1> SUFFICES ASSUME Init PROVE IInv
  OBVIOUS
<1>1. Cardinality(Admins) \in Nat /\ IsFiniteSet(Admins) /\ NoAdmin \notin Admins
  BY FS_CardinalityType, RestartAssumption DEF RestartAssumption
<1>2. 1 \in Watchdog /\ 0 \in 0..Cardinality(Watchdog) /\ 1 \in 0..Cardinality(Watchdog)
  BY <1>1, FS_Interval DEF Watchdog
<1>3. PICK boot \in Kinds \cup {"off"} :
          /\ current = IF boot = "off" THEN None ELSE 1
          /\ created = IF boot = "off" THEN 0 ELSE 1
          /\ run = [w \in Watchdog |-> IF w = 1 /\ boot = "run" THEN "select" ELSE "none"]
  BY DEF Init
<1>4. TypeOK
  BY <1>2, <1>3 DEF Init, TypeOK, None, NoState
<1>5. Holding
  BY <1>1 DEF Init, Holding
<1>6. Channels
  BY <1>3 DEF Init, Channels, None
<1>7. Numbered
  <2>1. IsFiniteSet(Starters)
    BY <1>1, FS_Subset DEF Starters
  <2>2. Cardinality(Starters) \in Nat
    BY <2>1, FS_CardinalityType
  <2> QED
    BY <1>3, <2>2 DEF Numbered
<1>8. Replaced
  BY <1>3 DEF Init, Replaced, None, TypeOK
<1>9. Runs
  BY <1>3 DEF Init, Runs, Watchdog, None
<1>10. Known
  BY DEF Init, Known
<1> QED
  BY <1>4, <1>5, <1>6, <1>7, <1>8, <1>9, <1>10 DEF IInv

\* A number of a watchdog is a number of watchdogs.
LEMMA WatchdogNumbers ==
    /\ Cardinality(Admins) \in Nat
    /\ Cardinality(Watchdog) = 1 + Cardinality(Admins)
    /\ Watchdog \subseteq 0..Cardinality(Watchdog)
<1>1. Cardinality(Admins) \in Nat
  BY FS_CardinalityType, RestartAssumption DEF RestartAssumption
<1>2. Cardinality(1..(1 + Cardinality(Admins))) = 1 + Cardinality(Admins)
  <2> DEFINE n == 1 + Cardinality(Admins)
  <2>1. n \in Int /\ 1 \in Int /\ ~(1 > n) /\ n - 1 + 1 = n
    BY <1>1
  <2> HIDE DEF n
  <2>2. Cardinality(1..n) = n
    BY <2>1, FS_Interval
  <2> QED
    BY <2>2 DEF n
<1> QED
  BY <1>1, <1>2 DEF Watchdog

\* There is a number left for the watchdog that a restart is about to start.
LEMMA NextNumber ==
    ASSUME IInv, NEW t \in Admins, admin[t] = "start"
    PROVE  created + 1 \in Watchdog
<1>1. /\ IsFiniteSet(Admins) /\ Cardinality(Admins) \in Nat
      /\ Cardinality(Admins \ {t}) = Cardinality(Admins) - 1
  BY FS_CardinalityType, FS_RemoveElement, RestartAssumption DEF RestartAssumption
<1>2. Starters \subseteq Admins \ {t} /\ IsFiniteSet(Admins \ {t})
  BY <1>1, FS_Subset DEF Starters
<1>3. Cardinality(Starters) <= Cardinality(Admins \ {t}) /\ Cardinality(Starters) \in Nat
  BY <1>2, FS_Subset, FS_CardinalityType
<1>4. created \in Int /\ created >= 0 /\ created <= 1 + Cardinality(Starters)
  BY WatchdogNumbers DEF IInv, TypeOK, Numbered
<1> QED
  BY <1>1, <1>3, <1>4 DEF Watchdog

\* Only the holder of the mutex is inside, and it is free when one comes in.
LEMMA Alone ==
    ASSUME IInv, NEW t \in Admins, NEW u \in Admins, u # t,
           admin[t] \notin {"idle", "done"} \/ mutex = NoAdmin
    PROVE  admin[u] \in {"idle", "done"}
BY RestartAssumption DEF IInv, Holding, RestartAssumption

-----------------------------------------------------------------------------
(***************************************************************************)
(* The steps of the goroutines of the watchdogs and of the models.         *)
(***************************************************************************)
LEMMA RunStepKeeps ==
    ASSUME IInv, NEW w \in Watchdog, RunStep(w)
    PROVE  IInv'
<1> USE DEF IInv
<1>1. /\ UNCHANGED <<current, created, wdLock, handler, waits, appVars, trackVars, modelVars>>
      /\ \E s \in {"tick", "select", "stopping", "ended"} : run' = [run EXCEPT ![w] = s]
      /\ run[w] \in {"tick", "select", "stopping"}
      /\ stop' \in [Watchdog -> 0..1]
      /\ \/ done' = done /\ run'[w] # "ended"
         \/ done' = [done EXCEPT ![w] = 1] /\ run'[w] = "ended"
  BY DEF RunStep, Tick, Check, ReceiveStop, RunEnds, RunGoto, wdVars, TypeOK
<1>2. TypeOK'
  <2>1. run' \in [Watchdog -> {"none", "select", "tick", "stopping", "ended"}]
    BY <1>1 DEF TypeOK
  <2>2. done' \in [Watchdog -> 0..1]
    BY <1>1 DEF TypeOK
  <2> QED
    BY <1>1, <2>1, <2>2 DEF TypeOK, appVars, trackVars, modelVars
<1>3. Holding' /\ Channels' /\ Numbered' /\ Replaced' /\ Known'
  BY <1>1 DEF Holding, Channels, Numbered, Starters, Replaced, Known, appVars, modelVars
<1>4. Runs'
  <2>1. w = current /\ w <= created
    BY <1>1, WatchdogNumbers DEF Runs, TypeOK, Watchdog
  <2>2. \A t \in Admins : admin[t] = "start" => current = None
    BY <1>1, <2>1 DEF Runs
  <2>3. ASSUME NEW v \in Watchdog
        PROVE  /\ done'[v] = 1 => run'[v] = "ended"
               /\ v > created => run'[v] = "none"
               /\ v # current => run'[v] \in {"none", "ended"}
    <3>1. CASE v = w
      <4>1. w > created => FALSE
        BY <2>1 DEF TypeOK, Watchdog
      <4>2. done[w] # 1
        BY <1>1 DEF Runs
      <4> QED
        BY <1>1, <2>1, <3>1, <4>1, <4>2 DEF TypeOK
    <3>2. CASE v # w
      BY <1>1, <3>2 DEF Runs, TypeOK
    <3> QED
      BY <3>1, <3>2
  <2> QED
    BY <1>1, <2>2, <2>3 DEF Runs, appVars
<1> QED
  BY <1>2, <1>3, <1>4

LEMMA HandlerStepKeeps ==
    ASSUME IInv, NEW w \in Watchdog, HandlerStep(w)
    PROVE  IInv'
<1> USE DEF IInv
<1>1. UNCHANGED <<current, created, done, run, appVars, trackVars, modelVars>>
  BY DEF HandlerStep, HandlerSelects, HandlerWakes, HandlerLocks, HandlerSends, wdVars
<1>2. /\ stop' \in [Watchdog -> 0..1]
      /\ wdLock' \in [Watchdog -> {"free", "handler", "admin"}]
      /\ handler' \in [Watchdog -> {"none", "select", "waiting", "shutdown", "send", "ended"}]
      /\ waits' \in [Watchdog -> Watchdog \cup {None}]
  BY DEF HandlerStep, HandlerSelects, HandlerWakes, HandlerLocks, HandlerSends, wdVars,
         HandlerGoto, TypeOK
<1>3. TypeOK'
  BY <1>1, <1>2 DEF TypeOK, appVars, trackVars, modelVars
<1>4. Holding' /\ Channels' /\ Numbered' /\ Replaced' /\ Runs' /\ Known'
  BY <1>1 DEF Holding, Channels, Numbered, Starters, Replaced, Runs, Known, appVars, modelVars
<1> QED
  BY <1>3, <1>4

LEMMA ModelStepKeeps ==
    ASSUME IInv, NEW m \in Models, ModelStep(m)
    PROVE  IInv'
<1> USE DEF IInv
<1>1. UNCHANGED <<wdVars, goVars, appVars>>
  BY DEF ModelStep, LoadReadsWatchDog, LoadAdds, BeginCall, EndCall
<1>2. /\ tracked' \in [Watchdog -> SUBSET Models]
      /\ busy' \in [Watchdog -> SUBSET Models]
  BY DEF ModelStep, LoadReadsWatchDog, LoadAdds, BeginCall, EndCall, trackVars, TypeOK, Known
<1>3. /\ pc' \in [Models -> {"unloaded", "adding", "loaded", "calling", "idle"}]
      /\ seen' \in [Models -> Watchdog \cup {None}]
  BY DEF ModelStep, LoadReadsWatchDog, LoadAdds, BeginCall, EndCall, TypeOK
<1>4. TypeOK'
  BY <1>1, <1>2, <1>3 DEF TypeOK, wdVars, goVars, appVars
<1>5. Holding' /\ Channels' /\ Numbered' /\ Replaced' /\ Runs'
  BY <1>1 DEF Holding, Channels, Numbered, Starters, Replaced, Runs, wdVars, goVars, appVars
<1>6. Known'
  BY DEF ModelStep, LoadReadsWatchDog, LoadAdds, BeginCall, EndCall, Known, TypeOK
<1> QED
  BY <1>4, <1>5, <1>6

-----------------------------------------------------------------------------
(***************************************************************************)
(* The steps of an administrator.                                          *)
(***************************************************************************)
Acts(t) == StopWatchdog(t) \/ RestartWatchdog(t) \/ StopStep(t) \/ RestartStep(t)

\* A function keeps its set when a value changes within its range.
LEMMA Changed ==
    ASSUME NEW S, NEW T, NEW f \in [S -> T], NEW x, NEW v \in T
    PROVE  [f EXCEPT ![x] = v] \in [S -> T]
OBVIOUS

\* What an administrator does keeps the types.
LEMMA AdminTyped ==
    ASSUME IInv, NEW t \in Admins, Acts(t)
    PROVE  TypeOK'
<1> USE DEF IInv
<1> USE DEF AdminGoto, wdVars, goVars, trackVars, modelVars
<1>1. CASE StopWatchdog(t)
  BY <1>1 DEF StopWatchdog, TypeOK
<1>2. CASE RestartWatchdog(t)
  BY <1>2 DEF RestartWatchdog, TypeOK
<1>3. CASE StopCloses(t)
  BY <1>3 DEF StopCloses, TypeOK, Channels
<1>4. CASE StopClears(t)
  BY <1>4 DEF StopClears, TypeOK
<1>5. CASE GetState(t)
  BY <1>5 DEF GetState, TypeOK, Replaced
<1>6. CASE RestartCloses(t)
  <2>1. closed' \subseteq Watchdog
    BY <1>6 DEF RestartCloses, TypeOK
  <2>2. admin' = [admin EXCEPT ![t] = admin'[t]] /\ admin'[t] \in {"start", "shutdown", "clear"}
    BY <1>6 DEF RestartCloses, AfterClose, TypeOK
  <2> QED
    BY <1>6, <2>1, <2>2 DEF RestartCloses, TypeOK
<1>7. CASE RestartClears(t)
  BY <1>7 DEF RestartClears, AfterClose, TypeOK
<1>8. CASE RestartLocks(t)
  BY <1>8 DEF RestartLocks, TypeOK
<1>9. CASE RestartSends(t)
  <2>1. stop' \in [Watchdog -> 0..1]
    <3>1. stop' = [stop EXCEPT ![oldWD[t]] = 1] /\ stop \in [Watchdog -> 0..1]
      BY <1>9 DEF RestartSends, TypeOK
    <3>2. 1 \in 0..1
      OBVIOUS
    <3> QED
      BY <3>1, <3>2, Changed
  <2> QED
    BY <1>9, <2>1 DEF RestartSends, TypeOK
<1>10. CASE WaitDone(t)
  <2>1. done' \in [Watchdog -> 0..1]
    <3>1. done' = [done EXCEPT ![oldWD[t]] = 0] /\ done \in [Watchdog -> 0..1]
      BY <1>10 DEF WaitDone, TypeOK
    <3>2. 0 \in 0..1
      OBVIOUS
    <3> QED
      BY <3>1, <3>2, Changed
  <2> QED
    BY <1>10, <2>1 DEF WaitDone, TypeOK
<1>11. CASE StartWatchdog(t)
  <2>1. created + 1 \in Watchdog /\ created + 1 \in 0..Cardinality(Watchdog)
    BY <1>11, NextNumber, WatchdogNumbers DEF StartWatchdog
  <2>2. run' \in [Watchdog -> {"none", "select", "tick", "stopping", "ended"}]
    BY <1>11 DEF StartWatchdog, RunGoto, TypeOK
  <2>3. handler' \in [Watchdog -> {"none", "select", "waiting", "shutdown", "send", "ended"}]
    BY <1>11 DEF StartWatchdog, HandlerGoto, TypeOK
  <2> QED
    BY <1>11, <2>1, <2>2, <2>3 DEF StartWatchdog, TypeOK
<1>12. CASE RestoreState(t)
  BY <1>12 DEF RestoreState, TypeOK, Replaced
<1> QED
  BY <1>1, <1>2, <1>3, <1>4, <1>5, <1>6, <1>7, <1>8, <1>9, <1>10, <1>11, <1>12
  DEF Acts, StopStep, RestartStep

LEMMA AdminHolding ==
    ASSUME IInv, NEW t \in Admins, Acts(t)
    PROVE  Holding'
BY RestartAssumption
DEF IInv, TypeOK, Holding, RestartAssumption, Acts, StopStep, RestartStep, AdminGoto,
    StopWatchdog, RestartWatchdog, StopCloses, StopClears, GetState, RestartCloses,
    RestartClears, RestartLocks, RestartSends, WaitDone, StartWatchdog, RestoreState,
    AfterClose

\* The others are outside while one acts.
LEMMA OthersRest ==
    ASSUME IInv, NEW t \in Admins, Acts(t)
    PROVE  \A u \in Admins : u # t => admin[u] \in {"idle", "done"} /\ admin'[u] = admin[u]
<1> USE DEF IInv, AdminGoto
<1>1. admin[t] \notin {"idle", "done"} \/ mutex = NoAdmin
  BY DEF Acts, StopStep, RestartStep, StopWatchdog, RestartWatchdog, StopCloses, StopClears,
         GetState, RestartCloses, RestartClears, RestartLocks, RestartSends, WaitDone,
         StartWatchdog, RestoreState
<1>2. \A u \in Admins : u # t => admin'[u] = admin[u]
  BY DEF Acts, StopStep, RestartStep, StopWatchdog, RestartWatchdog, StopCloses, StopClears,
         GetState, RestartCloses, RestartClears, RestartLocks, RestartSends, WaitDone,
         StartWatchdog, RestoreState, TypeOK
<1> QED
  BY <1>1, <1>2, Alone

LEMMA AdminChannels ==
    ASSUME IInv, NEW t \in Admins, Acts(t)
    PROVE  Channels'
<1> USE DEF IInv, AdminGoto, wdVars
<1>1. \A u \in Admins : u # t => admin[u] \in {"idle", "done"} /\ admin'[u] = admin[u]
  BY OthersRest
<1>2. created \in Nat
  BY WatchdogNumbers DEF TypeOK
<1>3. watchdogStop \in closed => admin[t] \in {"stopClear", "clear"}
  BY <1>1 DEF Channels
<1>4. CASE StopWatchdog(t)
  BY <1>1, <1>2, <1>3, <1>4 DEF StopWatchdog, Channels, TypeOK
<1>5. CASE RestartWatchdog(t)
  BY <1>1, <1>2, <1>3, <1>5 DEF RestartWatchdog, Channels, TypeOK
<1>6. CASE StopCloses(t)
  BY <1>1, <1>2, <1>3, <1>6 DEF StopCloses, Channels, None, TypeOK
<1>7. CASE StopClears(t)
  BY <1>1, <1>2, <1>3, <1>7 DEF StopClears, Channels, None, TypeOK
<1>8. CASE RestartCloses(t)
  <2>1. /\ UNCHANGED <<watchdogStop, created>>
        /\ \/ watchdogStop = None /\ closed' = closed /\ admin'[t] \in {"start", "shutdown"}
           \/ /\ watchdogStop # None /\ closed' = closed \cup {watchdogStop}
              /\ admin'[t] = "clear"
    BY <1>8 DEF RestartCloses, AfterClose, TypeOK
  <2>2. closed' \subseteq 1..created'
    <3>1. watchdogStop # None => watchdogStop \in 1..created
      BY <1>2 DEF Channels, None
    <3> QED
      BY <2>1, <3>1 DEF Channels
  <2>3. watchdogStop' \in closed' => admin'[t] \in {"stopClear", "clear"}
    BY <1>3, <1>8, <2>1 DEF RestartCloses
  <2>4. \A u \in Admins :
            admin'[u] \in {"stop", "stopClear", "clear"} => watchdogStop' # None
    BY <1>1, <2>1
  <2> QED
    BY <2>1, <2>2, <2>3, <2>4 DEF Channels
<1>9. CASE RestartClears(t)
  BY <1>1, <1>2, <1>3, <1>9 DEF RestartClears, AfterClose, Channels, None, TypeOK
<1>10. CASE StartWatchdog(t)
  <2>1. /\ created' = created + 1 /\ watchdogStop' = created + 1 /\ closed' = closed
        /\ admin'[t] = "restore"
    BY <1>10 DEF StartWatchdog, TypeOK
  <2>2. closed \subseteq 1..created /\ created + 1 \notin closed
    BY <1>2 DEF Channels
  <2> QED
    BY <1>1, <1>2, <2>1, <2>2 DEF Channels, None
<1>11. CASE GetState(t) \/ RestartLocks(t) \/ RestartSends(t) \/ WaitDone(t) \/ RestoreState(t)
  <2>1. /\ UNCHANGED <<watchdogStop, created, closed>>
        /\ admin[t] \notin {"stopClear", "clear"}
        /\ admin'[t] \in {"close", "send", "wait", "start", "done"}
    BY <1>11 DEF GetState, RestartLocks, RestartSends, WaitDone, RestoreState, TypeOK
  <2> QED
    BY <1>1, <1>2, <1>3, <2>1 DEF Channels
<1> QED
  BY <1>4, <1>5, <1>6, <1>7, <1>8, <1>9, <1>10, <1>11 DEF Acts, StopStep, RestartStep

LEMMA AdminNumbered ==
    ASSUME IInv, NEW t \in Admins, Acts(t)
    PROVE  Numbered'
<1> USE DEF IInv, AdminGoto, wdVars
<1>1. IsFiniteSet(Admins) /\ created \in Nat
  BY WatchdogNumbers, RestartAssumption DEF RestartAssumption, TypeOK
<1>2. Starters \subseteq Admins /\ Starters' \subseteq Admins
  BY DEF Starters
<1>3. IsFiniteSet(Starters) /\ IsFiniteSet(Starters')
  BY <1>1, <1>2, FS_Subset
<1>4. Cardinality(Starters) \in Nat /\ Cardinality(Starters') \in Nat
  BY <1>3, FS_CardinalityType
<1>5. CASE StartWatchdog(t)
  <2>1. t \notin Starters /\ Starters' = Starters \cup {t} /\ created' = created + 1
    BY <1>5 DEF StartWatchdog, Starters, TypeOK
  <2>2. Cardinality(Starters') = Cardinality(Starters) + 1
    BY <1>3, <2>1, FS_AddElement
  <2> QED
    BY <1>1, <1>4, <2>1, <2>2 DEF Numbered
<1>6. CASE ~StartWatchdog(t)
  <2>1. created' = created /\ Starters \subseteq Starters'
    BY <1>6
    DEF Starters, TypeOK, Acts, StopStep, RestartStep, StopWatchdog, RestartWatchdog,
        StopCloses, StopClears, GetState, RestartCloses, RestartClears, RestartLocks,
        RestartSends, WaitDone, RestoreState
  <2>2. Cardinality(Starters) <= Cardinality(Starters')
    BY <1>3, <2>1, FS_Subset
  <2> QED
    BY <1>1, <1>4, <2>1, <2>2 DEF Numbered
<1> QED
  BY <1>5, <1>6

LEMMA AdminReplaced ==
    ASSUME IInv, NEW t \in Admins, Acts(t)
    PROVE  Replaced'
<1> USE DEF IInv, AdminGoto, wdVars
<1>1. \A u \in Admins : u # t => admin'[u] \in {"idle", "done"}
  BY OthersRest
<1>2. created \in Nat
  BY WatchdogNumbers DEF TypeOK
<1>3. CASE StopWatchdog(t)
  <2>1. admin'[t] \in {"stop", "done"} /\ UNCHANGED <<current, created, oldWD>>
    BY <1>3 DEF StopWatchdog, TypeOK
  <2> QED
    BY <1>1, <2>1 DEF Replaced
<1>4. CASE StopStep(t)
  <2>1. admin'[t] \in {"stopClear", "done"} /\ UNCHANGED <<current, created, oldWD>>
    BY <1>4 DEF StopStep, StopCloses, StopClears, TypeOK
  <2> QED
    BY <1>1, <2>1 DEF Replaced
<1>5. CASE RestartWatchdog(t)
  BY <1>1, <1>2, <1>5 DEF RestartWatchdog, Replaced, None, TypeOK
<1>6. CASE RestartCloses(t) \/ RestartClears(t)
  BY <1>1, <1>2, <1>6 DEF RestartCloses, RestartClears, AfterClose, Replaced, None, TypeOK
<1>7. CASE StartWatchdog(t)
  BY <1>1, <1>2, <1>7 DEF StartWatchdog, Replaced, None, TypeOK
<1>8. CASE GetState(t) \/ RestartLocks(t) \/ RestartSends(t) \/ WaitDone(t) \/ RestoreState(t)
  <2>1. /\ admin[t] \in {"state", "shutdown", "send"} => oldWD[t] = current /\ oldWD[t] # None
        /\ admin[t] \in {"state", "shutdown", "send"} \/ admin'[t] \in {"start", "done"}
        /\ admin'[t] \in {"close", "send", "wait", "start", "done"}
        /\ UNCHANGED <<current, created, oldWD>>
    BY <1>8 DEF GetState, RestartLocks, RestartSends, WaitDone, RestoreState, Replaced, TypeOK
  <2> QED
    BY <1>1, <2>1 DEF Replaced
<1> QED
  BY <1>3, <1>4, <1>5, <1>6, <1>7, <1>8 DEF Acts, RestartStep

LEMMA AdminRuns ==
    ASSUME IInv, NEW t \in Admins, Acts(t)
    PROVE  Runs'
<1> USE DEF IInv, AdminGoto, wdVars, goVars
<1>1. \A u \in Admins : u # t => admin'[u] # "start"
  BY OthersRest
<1>2. created \in Nat /\ Watchdog \subseteq Nat
  BY WatchdogNumbers DEF TypeOK
<1>4. CASE StartWatchdog(t)
  <2>1. PICK s \in {"select", "none"} : run' = [run EXCEPT ![created + 1] = s]
    BY <1>4 DEF StartWatchdog, RunGoto
  <2>2. /\ created' = created + 1 /\ current' = created + 1 /\ done' = done
        /\ admin'[t] = "restore"
    BY <1>4 DEF StartWatchdog, TypeOK
  <2>3. ASSUME NEW w \in Watchdog
        PROVE  /\ done'[w] = 1 => run'[w] = "ended"
               /\ w > created' => run'[w] = "none"
               /\ w # current' => run'[w] \in {"none", "ended"}
    <3>1. CASE w = created + 1
      <4>1. done[w] # 1
        BY <1>2, <3>1 DEF Runs
      <4> QED
        BY <1>2, <2>2, <3>1, <4>1
    <3>2. CASE w # created + 1
      <4>1. run'[w] = run[w] /\ (w > created + 1 => w > created)
        BY <1>2, <2>1, <3>2 DEF TypeOK
      <4>2. w # current => run[w] \in {"none", "ended"}
        BY DEF Runs
      <4>3. w = current => run[w] \in {"none", "ended"}
        <5>1. w = current => current # None
          BY DEF Watchdog, None
        <5> QED
          BY <1>4, <5>1 DEF Runs, StartWatchdog
      <4> QED
        BY <2>2, <4>1, <4>2, <4>3 DEF Runs
    <3> QED
      BY <3>1, <3>2
  <2> QED
    BY <1>1, <2>2, <2>3 DEF Runs
<1>5. CASE WaitDone(t)
  <2>1. oldWD[t] = current /\ current # None /\ current \in Watchdog
    BY <1>5 DEF WaitDone, Replaced, TypeOK
  <2>2. run' = run /\ run[current] = "ended"
    BY <1>5, <2>1 DEF WaitDone, Runs
  <2> QED
    BY <1>1, <1>5, <2>1, <2>2 DEF WaitDone, Runs, TypeOK
<1>6. CASE RestartCloses(t) \/ RestartClears(t)
  <2>1. oldWD[t] = current
    BY <1>6 DEF RestartCloses, RestartClears, Replaced
  <2> QED
    BY <1>1, <1>6, <2>1 DEF RestartCloses, RestartClears, AfterClose, Runs, TypeOK
<1>7. CASE \/ StopWatchdog(t) \/ RestartWatchdog(t) \/ StopStep(t)
           \/ GetState(t) \/ RestartLocks(t) \/ RestartSends(t) \/ RestoreState(t)
  BY <1>1, <1>7
  DEF StopWatchdog, RestartWatchdog, StopStep, StopCloses, StopClears, GetState,
      RestartLocks, RestartSends, RestoreState, Runs, TypeOK
<1> QED
  BY <1>4, <1>5, <1>6, <1>7 DEF Acts, RestartStep

LEMMA AdminKeeps ==
    ASSUME IInv, NEW t \in Admins, Acts(t)
    PROVE  IInv'
<1>1. UNCHANGED <<pc, seen>>
  BY DEF Acts, StopStep, RestartStep, StopWatchdog, RestartWatchdog, StopCloses, StopClears,
         GetState, RestartCloses, RestartClears, RestartLocks, RestartSends, WaitDone,
         StartWatchdog, RestoreState, modelVars
<1>2. Known'
  BY <1>1 DEF IInv, Known
<1> QED
  BY <1>2, AdminTyped, AdminHolding, AdminChannels, AdminNumbered, AdminReplaced, AdminRuns
  DEF IInv

-----------------------------------------------------------------------------
(***************************************************************************)
(* The theorems.                                                           *)
(***************************************************************************)
LEMMA Invariance == Spec => []IInv
<1>1. IInv /\ [Next]_vars => IInv'
  <2> SUFFICES ASSUME IInv, [Next]_vars PROVE IInv'
    OBVIOUS
  <2>1. CASE Next
    BY <2>1, RunStepKeeps, HandlerStepKeeps, ModelStepKeeps, AdminKeeps DEF Next, Acts
  <2>2. CASE UNCHANGED vars
    BY <2>2
    DEF vars, wdVars, goVars, appVars, trackVars, modelVars, IInv, TypeOK, Holding, Channels,
        Numbered, Starters, Replaced, Runs, Known
  <2> QED
    BY <2>1, <2>2
<1> QED
  BY InitHolds, <1>1, PTL DEF Spec

(***************************************************************************)
(* Every variable keeps its type; in particular, a restart never runs out  *)
(* of numbers for its watchdogs.                                           *)
(***************************************************************************)
THEOREM TypeCorrect == Spec => []TypeOK
BY Invariance, PTL DEF IInv

(***************************************************************************)
(* Whatever stops and restarts overlap, nobody closes a closed or nil      *)
(* a.watchdogStop (which would panic): the closer holds watchdogMutex from *)
(* its look at the channel to the assignment of nil.                       *)
(***************************************************************************)
THEOREM NoChannelIsClosedTwice == Spec => []NoDoubleClose
<1>1. IInv => NoDoubleClose
  <2> SUFFICES ASSUME IInv, NEW t \in Admins,
                      admin[t] = "stop" \/ (admin[t] = "close" /\ watchdogStop # None)
               PROVE  watchdogStop \in Watchdog \ closed
    BY DEF NoDoubleClose
  <2>1. watchdogStop \in Watchdog
    BY DEF IInv, TypeOK, Channels
  <2>2. \A u \in Admins : admin[u] \notin {"stopClear", "clear"}
    BY Alone DEF IInv
  <2> QED
    BY <2>1, <2>2 DEF IInv, Channels
<1> QED
  BY Invariance, <1>1, PTL

(***************************************************************************)
(* At most one Run goroutine is active: a restart starts the next one only *)
(* after it has received the old one's done signal.                        *)
(***************************************************************************)
THEOREM OneRunIsActive == Spec => []OneRun
<1>1. IInv => OneRun
  BY DEF IInv, Runs, OneRun
<1> QED
  BY Invariance, <1>1, PTL
=============================================================================
