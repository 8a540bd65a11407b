------------------------- MODULE ModelLoaderProofs -------------------------
(***************************************************************************)
(* Theorems about ModelLoader for every set of goroutines and every bound, *)
(* with crashes and failing stops: its typing, the single flight of loads, *)
(* the exclusion of shutdowns, and the ownership of the empty slot; and,   *)
(* while nothing crashes and no stop fails, that no process is lost and    *)
(* that the loader is a ModelSlot.                                         *)
(*                                                                         *)
(* The three about goroutines hold together only: a shutdown is alone      *)
(* because the program counter says which mode of the lock a goroutine     *)
(* holds, and it says so because every waiter of the queue is at the step  *)
(* that its grant continues.  IInv states these facts, and Served which    *)
(* processes a loader without faults has.                                  *)
(*                                                                         *)
(* The last part is about OperationLocks, the lock that ModelLoader takes  *)
(* for granted: for the same goroutines, it is a WeightedLock.             *)
(***************************************************************************)
EXTENDS ModelLoader, SequenceTheorems, FiniteSetTheorems, TLAPS

\* Nobody is queued twice.
EachOnce(q) == \A i, j \in 1..Len(q) : q[i].thread = q[j].thread => i = j

LockExclusive ==
    \A t, u \in Threads : t # u /\ held[t] = "exclusive" => held[u] = "none"

\* The step a goroutine is at tells the mode in which it holds the lock.
LockMatchesPC ==
    \A t \in Threads :
        /\ held[t] = "shared" <=> pc[t] \in CheckSteps \cup LoadSteps
        /\ held[t] = "exclusive" <=> pc[t] \in DeleteSteps

Waits == {"sharedWait", "exclusiveWait"}

WaitFor(mode) == IF mode = "shared" THEN "sharedWait" ELSE "exclusiveWait"

\* Every queued goroutine is at the step that its grant continues.
QueueMatchesPC ==
    /\ EachOnce(queue)
    /\ \A i \in 1..Len(queue) : pc[queue[i].thread] = WaitFor(queue[i].mode)

Queued == LockExclusive /\ QueueMatchesPC

Control == LockMatchesPC /\ SingleFlight /\ LeaderOwnsEmptySlot

IInv == TypeOK /\ Queued /\ Control

-----------------------------------------------------------------------------
(***************************************************************************)
(* RemoveAt(s, i) is s without its i-th element: one shorter, the elements *)
(* before i where they were and the elements after it one place earlier.   *)
(***************************************************************************)
LEMMA RemoveAtProperties ==
    ASSUME NEW S, NEW s \in Seq(S), NEW i \in 1..Len(s)
    PROVE  /\ RemoveAt(s, i) \in Seq(S)
           /\ Len(RemoveAt(s, i)) = Len(s) - 1
           /\ \A j \in 1..(Len(s) - 1) :
                  RemoveAt(s, i)[j] = IF j < i THEN s[j] ELSE s[j + 1]
<1> DEFINE before == SubSeq(s, 1, i - 1)
           after == SubSeq(s, i + 1, Len(s))
<1>1. /\ before \in Seq(S)
      /\ Len(before) = i - 1
      /\ \A j \in 1..(i - 1) : before[j] = s[j]
  OBVIOUS
<1>2. /\ after \in Seq(S)
      /\ Len(after) = Len(s) - i
      /\ \A j \in 1..(Len(s) - i) : after[j] = s[i + j]
  OBVIOUS
<1> HIDE DEF before, after
<1>3. /\ before \o after \in Seq(S)
      /\ Len(before \o after) = Len(s) - 1
      /\ \A j \in 1..(Len(s) - 1) :
             (before \o after)[j] = IF j <= i - 1 THEN before[j] ELSE after[j - (i - 1)]
  <2>1. /\ before \o after \in Seq(S)
        /\ Len(before \o after) = Len(before) + Len(after)
        /\ \A j \in 1..(Len(before) + Len(after)) :
               (before \o after)[j] =
                   IF j <= Len(before) THEN before[j] ELSE after[j - Len(before)]
    BY <1>1, <1>2, ConcatProperties
  <2>2. Len(before) + Len(after) = Len(s) - 1
    BY <1>1, <1>2
  <2>3. QED
    BY <1>1, <2>1, <2>2
<1>4. ASSUME NEW j \in 1..(Len(s) - 1)
      PROVE  (before \o after)[j] = IF j < i THEN s[j] ELSE s[j + 1]
  <2>1. CASE j < i
    <3>1. j \in 1..(i - 1) /\ j <= i - 1
      BY <2>1
    <3>2. QED
      BY <1>1, <1>3, <2>1, <3>1
  <2>2. CASE ~(j < i)
    <3>1. j - (i - 1) \in 1..(Len(s) - i) /\ i + (j - (i - 1)) = j + 1 /\ ~(j <= i - 1)
      BY <2>2
    <3>2. QED
      BY <1>2, <1>3, <2>2, <3>1
  <2>3. QED
    BY <2>1, <2>2
<1>5. RemoveAt(s, i) = before \o after
  BY DEF RemoveAt, before, after
<1>6. QED
  BY <1>3, <1>4, <1>5

-----------------------------------------------------------------------------
(***************************************************************************)
(* Typing.                                                                 *)
(***************************************************************************)

\* Every operation of the semaphore keeps its state well typed.
LEMMA LockTyped ==
    ASSUME Lock!TypeOK, NEW t \in Threads, NEW mode \in {"shared", "exclusive"},
           \/ Lock!Request(t, mode)
           \/ Lock!Grant(t)
           \/ Lock!Cancel(t)
           \/ Lock!Release(t)
    PROVE  Lock!TypeOK'
<1> USE DEF Lock!TypeOK, Lock!Modes
<1>1. CASE Lock!Request(t, mode)
  <2>1. [thread |-> t, mode |-> mode] \in Lock!Waiter
    BY DEF Lock!Waiter
  <2>2. QED
    BY <1>1, <2>1 DEF Lock!Request
<1>2. CASE Lock!Grant(t)
  <2>1. Head(queue) \in Lock!Waiter /\ Tail(queue) \in Seq(Lock!Waiter)
    BY <1>2, HeadTailProperties DEF Lock!Grant
  <2>2. Head(queue).mode \in Lock!Modes
    BY <2>1 DEF Lock!Waiter
  <2>3. QED
    BY <1>2, <2>1, <2>2 DEF Lock!Grant
<1>3. CASE Lock!Cancel(t)
  <2>1. PICK i \in DOMAIN queue : queue' = RemoveAt(queue, i) /\ UNCHANGED held
    BY <1>3 DEF Lock!Cancel, Lock!RemoveAt, RemoveAt
  <2>2. i \in 1..Len(queue)
    OBVIOUS
  <2>3. queue' \in Seq(Lock!Waiter)
    BY <2>1, <2>2, RemoveAtProperties
  <2>4. QED
    BY <2>1, <2>3
<1>4. CASE Lock!Release(t)
  BY <1>4 DEF Lock!Release
<1>5. QED
  BY <1>1, <1>2, <1>3, <1>4


\* A failed process.Stop only counts.
LEMMA StopErrsTyped ==
    ASSUME TypeOK, NEW h, StopErrs(h)
    PROVE  /\ alive' = alive /\ started' = started /\ crashes' = crashes
           /\ stopFailures' \in 0..MaxStopFailures
BY LoaderAssumption DEF StopErrs, TypeOK

\* So does a return from checkIsLoaded, whichever call it ends.
LEMMA CheckReturnsTyped ==
    ASSUME TypeOK, NEW t \in Threads, NEW m \in Handle \cup {NoHandle},
           CheckReturns(t, m)
    PROVE  /\ Lock!TypeOK'
           /\ pc' \in [Threads -> PC]
           /\ why' \in [Threads -> {"fast", "load", "woken", "post"}]
           /\ retries' \in [Threads -> Nat]
           /\ probed' \in [Threads -> Handle \cup {NoHandle}]
           /\ client' \in [Threads -> Handle \cup {NoHandle}]
<1>1. Lock!TypeOK'
  <2>1. CASE Lock!Release(t)
    BY <2>1, LockTyped DEF TypeOK
  <2>2. CASE UNCHANGED lockVars
    BY <2>2 DEF TypeOK, lockVars, Lock!TypeOK
  <2>3. QED
    BY <2>1, <2>2 DEF CheckReturns
<1>2. pc' \in [Threads -> PC]
  BY DEF CheckReturns, TypeOK, Goto, PC, CheckSteps, LoadSteps, FreeSteps
<1>3. /\ why' \in [Threads -> {"fast", "load", "woken", "post"}]
      /\ retries' \in [Threads -> Nat]
  BY DEF CheckReturns, TypeOK
<1>4. /\ probed' \in [Threads -> Handle \cup {NoHandle}]
      /\ client' \in [Threads -> Handle \cup {NoHandle}]
  BY DEF CheckReturns, TypeOK
<1>5. QED
  BY <1>1, <1>2, <1>3, <1>4
\* Every step of the loader keeps the types of its state.
LEMMA TypeInductive ==
    ASSUME TypeOK, [Next]_vars
    PROVE  TypeOK'
<1> USE LoaderAssumption
    DEF TypeOK, Threads, Handle, NoHandle, PC, CheckSteps, LoadSteps, DeleteSteps,
        FreeSteps, loadVars, processVars, healthVars, localVars, Goto
<1>0. CASE UNCHANGED vars
  BY <1>0 DEF vars, lockVars, Lock!TypeOK
<1>1. ASSUME NEW t \in Threads, AcquireShared(t) PROVE TypeOK'
  <2>1. Lock!TypeOK'
    BY <1>1, LockTyped DEF AcquireShared
  <2>2. QED
    BY <1>1, <2>1 DEF AcquireShared
<1>2. ASSUME NEW t \in Threads, Granted(t) PROVE TypeOK'
  <2>1. Lock!TypeOK'
    BY <1>2, LockTyped DEF Granted
  <2>2. QED
    BY <1>2, <2>1 DEF Granted
<1>3. ASSUME NEW t \in Threads, CheckMisses(t) PROVE TypeOK'
  <2>1. CheckReturns(t, NoHandle)
    BY <1>3 DEF CheckMisses
  <2>2. NoHandle \in Handle \cup {NoHandle}
    OBVIOUS
  <2>3. QED
    BY <1>3, <2>1, <2>2, CheckReturnsTyped DEF CheckMisses
<1>4. ASSUME NEW t \in Threads, CheckHits(t) PROVE TypeOK'
  BY <1>4 DEF CheckHits, lockVars, Lock!TypeOK
<1>5. ASSUME NEW t \in Threads, CachedHealth(t) PROVE TypeOK'
  <2>1. CheckReturns(t, probed[t])
    BY <1>5 DEF CachedHealth
  <2>2. probed[t] \in Handle \cup {NoHandle}
    OBVIOUS
  <2>3. QED
    BY <1>5, <2>1, <2>2, CheckReturnsTyped DEF CachedHealth
<1>6. ASSUME NEW t \in Threads, LockHealth(t) PROVE TypeOK'
  BY <1>6 DEF LockHealth, lockVars, Lock!TypeOK
<1>7. ASSUME NEW t \in Threads, HealthOK(t) PROVE TypeOK'
  <2>1. CheckReturns(t, probed[t])
    BY <1>7 DEF HealthOK
  <2>2. probed[t] \in Handle \cup {NoHandle}
    OBVIOUS
  <2>3. QED
    BY <1>7, <2>1, <2>2, CheckReturnsTyped DEF HealthOK
<1>8. ASSUME NEW t \in Threads, HealthDead(t) PROVE TypeOK'
  BY <1>8 DEF HealthDead, lockVars, Lock!TypeOK
<1>9. ASSUME NEW t \in Threads, ReapLookup(t) PROVE TypeOK'
  BY <1>9 DEF ReapLookup, lockVars, Lock!TypeOK
<1>10. ASSUME NEW t \in Threads, ReapNotFound(t) PROVE TypeOK'
  <2>1. CheckReturns(t, NoHandle)
    BY <1>10 DEF ReapNotFound, ReapReturns
  <2>2. NoHandle \in Handle \cup {NoHandle}
    OBVIOUS
  <2>3. QED
    BY <1>10, <2>1, <2>2, CheckReturnsTyped DEF ReapNotFound, ReapReturns
<1>11. ASSUME NEW t \in Threads, ReapStop(t) PROVE TypeOK'
  BY <1>11 DEF ReapStop, lockVars, Lock!TypeOK
<1>12. ASSUME NEW t \in Threads, ReapStopFails(t) PROVE TypeOK'
  <2>1. CheckReturns(t, NoHandle)
    BY <1>12 DEF ReapStopFails, ReapReturns
  <2>2. NoHandle \in Handle \cup {NoHandle}
    OBVIOUS
  <2>3. QED
    BY <1>12, <2>1, <2>2, CheckReturnsTyped, StopErrsTyped DEF ReapStopFails,
       ReapReturns
<1>13. ASSUME NEW t \in Threads, ReapDelete(t) PROVE TypeOK'
  <2>1. CheckReturns(t, NoHandle)
    BY <1>13 DEF ReapDelete, ReapReturns
  <2>2. NoHandle \in Handle \cup {NoHandle}
    OBVIOUS
  <2>3. QED
    BY <1>13, <2>1, <2>2, CheckReturnsTyped DEF ReapDelete, ReapReturns
<1>14. ASSUME NEW t \in Threads, FindPublished(t) PROVE TypeOK'
  BY <1>14 DEF FindPublished, lockVars, Lock!TypeOK
<1>15. ASSUME NEW t \in Threads, RefuseInCooldown(t) PROVE TypeOK'
  BY <1>15 DEF RefuseInCooldown, lockVars, Lock!TypeOK
<1>16. ASSUME NEW t \in Threads, WaitForLeader(t) PROVE TypeOK'
  BY <1>16 DEF WaitForLeader, lockVars, Lock!TypeOK
<1>17. ASSUME NEW t \in Threads, BecomeLeader(t) PROVE TypeOK'
  BY <1>17 DEF BecomeLeader, lockVars, Lock!TypeOK
<1>18. ASSUME NEW t \in Threads, Spawn(t) PROVE TypeOK'
  BY <1>18 DEF Spawn, lockVars, Lock!TypeOK
<1>19. ASSUME NEW t \in Threads, SpawnFails(t) PROVE TypeOK'
  BY <1>19 DEF SpawnFails, lockVars, Lock!TypeOK
<1>20. ASSUME NEW t \in Threads, LoadRPCSucceeds(t) PROVE TypeOK'
  BY <1>20 DEF LoadRPCSucceeds, lockVars, Lock!TypeOK
<1>21. ASSUME NEW t \in Threads, LoadRPCFails(t) PROVE TypeOK'
  BY <1>21, StopErrsTyped DEF LoadRPCFails, lockVars, Lock!TypeOK
<1>22. ASSUME NEW t \in Threads, Publish(t) PROVE TypeOK'
  BY <1>22 DEF Publish, lockVars, Lock!TypeOK
<1>23. ASSUME NEW t \in Threads, RecordFailure(t) PROVE TypeOK'
  BY <1>23 DEF RecordFailure, lockVars, Lock!TypeOK
<1>24. ASSUME NEW t \in Threads, Finish(t) PROVE TypeOK'
  BY <1>24 DEF Finish, lockVars, Lock!TypeOK
<1>25. ASSUME NEW t \in Threads, LoadReturns(t) PROVE TypeOK'
  <2>1. Lock!TypeOK'
    BY <1>25, LockTyped DEF LoadReturns
  <2>2. QED
    BY <1>25, <2>1 DEF LoadReturns
<1>26. ASSUME NEW t \in Threads, StartShutdown(t) PROVE TypeOK'
  <2>1. Lock!TypeOK'
    BY <1>26, LockTyped DEF StartShutdown
  <2>2. QED
    BY <1>26, <2>1 DEF StartShutdown
<1>27. ASSUME NEW t \in Threads, CleanupStops(t) PROVE TypeOK'
  <2>1. Lock!TypeOK'
    BY <1>27, LockTyped DEF CleanupStops
  <2>2. QED
    BY <1>27, <2>1 DEF CleanupStops
<1>28. ASSUME NEW t \in Threads, CleanupFindsNothing(t) PROVE TypeOK'
  BY <1>28 DEF CleanupFindsNothing, lockVars, Lock!TypeOK
<1>29. ASSUME NEW t \in Threads, LockDeadline(t) PROVE TypeOK'
  <2>1. Lock!TypeOK'
    BY <1>29, LockTyped DEF LockDeadline
  <2>2. QED
    BY <1>29, <2>1 DEF LockDeadline
<1>30. ASSUME NEW t \in Threads, DeleteNotFound(t) PROVE TypeOK'
  <2>1. Lock!TypeOK'
    BY <1>30, LockTyped DEF DeleteNotFound, DeleteReturns
  <2>2. QED
    BY <1>30, <2>1 DEF DeleteNotFound, DeleteReturns
<1>31. ASSUME NEW t \in Threads, DeleteLookup(t) PROVE TypeOK'
  BY <1>31 DEF DeleteLookup, lockVars, Lock!TypeOK
<1>32. ASSUME NEW t \in Threads, BusyWaitEnds(t) PROVE TypeOK'
  BY <1>32 DEF BusyWaitEnds, lockVars, Lock!TypeOK
<1>33. ASSUME NEW t \in Threads, BusyDeadline(t) PROVE TypeOK'
  <2>1. Lock!TypeOK'
    BY <1>33, LockTyped DEF BusyDeadline
  <2>2. QED
    BY <1>33, <2>1 DEF BusyDeadline
<1>34. ASSUME NEW t \in Threads, ForceAfterBusy(t) PROVE TypeOK'
  <2>1. Lock!TypeOK'
    BY <1>34, LockTyped DEF ForceAfterBusy
  <2>2. QED
    BY <1>34, <2>1 DEF ForceAfterBusy
<1>35. ASSUME NEW t \in Threads, StopProcess(t) PROVE TypeOK'
  BY <1>35 DEF StopProcess, lockVars, Lock!TypeOK
<1>36. ASSUME NEW t \in Threads, StopFails(t) PROVE TypeOK'
  <2>1. Lock!TypeOK'
    BY <1>36, LockTyped DEF StopFails, DeleteReturns
  <2>2. QED
    BY <1>36, <2>1, StopErrsTyped DEF StopFails, DeleteReturns
<1>37. ASSUME NEW t \in Threads, Forget(t) PROVE TypeOK'
  <2>1. Lock!TypeOK'
    BY <1>37, LockTyped DEF Forget, DeleteReturns
  <2>2. QED
    BY <1>37, <2>1 DEF Forget, DeleteReturns
<1>38. ASSUME NEW t \in Threads, StartCall(t) PROVE TypeOK'
  BY <1>38 DEF StartCall, lockVars, Lock!TypeOK
<1>39. ASSUME NEW t \in Threads, EndCall(t) PROVE TypeOK'
  BY <1>39 DEF EndCall, lockVars, Lock!TypeOK
<1>40. CASE Crash
  BY <1>40 DEF Crash, lockVars, Lock!TypeOK
<1>41. CASE HealthExpires
  BY <1>41 DEF HealthExpires, lockVars, Lock!TypeOK
<1>42. CASE CooldownExpires
  BY <1>42 DEF CooldownExpires, lockVars, Lock!TypeOK
<1>43. QED
  BY <1>0, <1>1, <1>2, <1>3, <1>4, <1>5, <1>6, <1>7, <1>8, <1>9, <1>10,
     <1>11, <1>12, <1>13, <1>14, <1>15, <1>16, <1>17, <1>18, <1>19, <1>20,
     <1>21, <1>22, <1>23, <1>24, <1>25, <1>26, <1>27, <1>28, <1>29, <1>30,
     <1>31, <1>32, <1>33, <1>34, <1>35, <1>36, <1>37, <1>38, <1>39,
     <1>40, <1>41, <1>42
  DEF Next, Check, LoadRPC, Load, Deadline, Shutdown

-----------------------------------------------------------------------------
(***************************************************************************)
(* The queue and the holders of the lock.                                  *)
(***************************************************************************)

\* What a return from checkIsLoaded does to the lock and to the control.
LEMMA CheckReturnsMoves ==
    ASSUME TypeOK, NEW t \in Threads, NEW m, CheckReturns(t, m)
    PROVE  \/ /\ \E s \in {"miss", "ready"} : pc' = [pc EXCEPT ![t] = s]
              /\ Lock!Release(t)
           \/ /\ \E s \in {"decide", "loaded", "check"} : pc' = [pc EXCEPT ![t] = s]
              /\ UNCHANGED lockVars
BY DEF CheckReturns, Goto

\* A step of t that leaves the queue alone and nobody's place in it.
Keeps(t) ==
    /\ queue' = queue
    /\ held' \in {held, [held EXCEPT ![t] = "none"]}
    /\ \A u \in Threads : pc[u] \in Waits => pc'[u] = pc[u]

\* A step by which t joins the queue.
Joins(t) ==
    /\ pc[t] \notin Waits
    /\ \E mode \in {"shared", "exclusive"} :
           Lock!Request(t, mode) /\ pc' = [pc EXCEPT ![t] = WaitFor(mode)]

\* A step by which t leaves the queue without the lock.
GivesUp(t) == Lock!Cancel(t) /\ \A u \in Threads \ {t} : pc'[u] = pc[u]

\* Every step of a goroutine is one of these, or takes the lock.
LEMMA LockSteps ==
    ASSUME TypeOK, NEW t \in Threads,
           \/ AcquireShared(t) \/ Check(t) \/ LoadRPC(t) \/ Load(t)
           \/ StartShutdown(t) \/ Deadline(t) \/ Shutdown(t)
           \/ StartCall(t) \/ EndCall(t)
    PROVE  Keeps(t) \/ Joins(t) \/ GivesUp(t)
<1> USE DEF Waits, WaitFor, Keeps, Joins, GivesUp, TypeOK, lockVars, Goto,
            ReapReturns, DeleteReturns, Lock!Release, Lock!TypeOK, Lock!Modes
<1>1. CASE AcquireShared(t)
  BY <1>1 DEF AcquireShared
<1>2. CASE Check(t)
  BY <1>2, CheckReturnsMoves DEF Check, CheckMisses, CheckHits,
     CachedHealth, LockHealth, HealthOK, HealthDead, ReapLookup,
     ReapNotFound, ReapStop, ReapStopFails, ReapDelete
<1>3. CASE LoadRPC(t)
  BY <1>3 DEF LoadRPC, LoadRPCSucceeds, LoadRPCFails
<1>4. CASE Load(t)
  BY <1>4 DEF Load, FindPublished, RefuseInCooldown, WaitForLeader,
     BecomeLeader, Spawn, SpawnFails, Publish, RecordFailure, Finish,
     LoadReturns, CleanupStops, CleanupFindsNothing
<1>5. CASE StartShutdown(t)
  BY <1>5 DEF StartShutdown
<1>6. CASE Deadline(t)
  BY <1>6 DEF Deadline, LockDeadline, BusyDeadline
<1>7. CASE Shutdown(t)
  BY <1>7 DEF Shutdown, DeleteNotFound, DeleteLookup, BusyWaitEnds,
     ForceAfterBusy, StopProcess, StopFails, Forget
<1>8. CASE StartCall(t)
  BY <1>8 DEF StartCall
<1>9. CASE EndCall(t)
  BY <1>9 DEF EndCall
<1>10. QED
  BY <1>1, <1>2, <1>3, <1>4, <1>5, <1>6, <1>7, <1>8, <1>9

\* Taking the head of a queue in which everyone is once leaves such a queue.
LEMMA QueuedInductive ==
    ASSUME IInv, [Next]_vars
    PROVE  Queued'
<1> USE DEF Queued, LockExclusive, QueueMatchesPC, EachOnce
<1>1. /\ queue \in Seq(Lock!Waiter)
      /\ held \in [Threads -> {"shared", "exclusive", "none"}]
      /\ pc \in [Threads -> PC]
      /\ Len(queue) \in Nat
  BY DEF IInv, TypeOK, Lock!TypeOK, Lock!Modes
<1>2. \A i \in 1..Len(queue) :
          /\ queue[i].thread \in Threads
          /\ queue[i].mode \in {"shared", "exclusive"}
  <2>1. \A i \in 1..Len(queue) : queue[i] \in Lock!Waiter
    BY <1>1, ElementOfSeq
  <2>2. QED
    BY <2>1 DEF Lock!Waiter, Lock!Modes
<1>3. /\ EachOnce(queue)
      /\ \A i \in 1..Len(queue) : pc[queue[i].thread] = WaitFor(queue[i].mode)
      /\ LockExclusive
  BY DEF IInv
<1>4. \A i \in 1..Len(queue) : pc[queue[i].thread] \in Waits
  BY <1>2, <1>3 DEF WaitFor, Waits
<1>5. ASSUME NEW t \in Threads, Keeps(t) PROVE Queued'
  <2>1. LockExclusive'
    BY <1>1, <1>3, <1>5 DEF Keeps
  <2>2. QueueMatchesPC'
    BY <1>2, <1>3, <1>4, <1>5 DEF Keeps
  <2>3. QED
    BY <2>1, <2>2
<1>6. ASSUME NEW t \in Threads, Joins(t) PROVE Queued'
  <2>1. PICK mode \in {"shared", "exclusive"} :
            Lock!Request(t, mode) /\ pc' = [pc EXCEPT ![t] = WaitFor(mode)]
    BY <1>6 DEF Joins
  <2> DEFINE w == [thread |-> t, mode |-> mode]
  <2>2. queue' = Append(queue, w) /\ held' = held /\ w \in Lock!Waiter
    BY <2>1 DEF Lock!Request, Lock!Waiter, Lock!Modes
  <2>3. /\ Len(queue') = Len(queue) + 1
        /\ \A i \in 1..Len(queue) : queue'[i] = queue[i]
        /\ queue'[Len(queue) + 1] = w
    BY <1>1, <2>2, AppendProperties
  <2>4. \A i \in 1..Len(queue) : queue[i].thread # t
    BY <1>4, <1>6 DEF Joins
  <2>5. w.thread = t /\ w.mode = mode
    OBVIOUS
  <2> HIDE DEF w
  <2>6. \A i \in 1..Len(queue') : i \in 1..Len(queue) \/ i = Len(queue) + 1
    BY <1>1, <2>3
  <2>7. EachOnce(queue)'
    BY <1>3, <2>3, <2>4, <2>5, <2>6
  <2>8. \A i \in 1..Len(queue') : pc'[queue'[i].thread] = WaitFor(queue'[i].mode)
    BY <1>1, <1>2, <1>3, <2>1, <2>3, <2>4, <2>5, <2>6
  <2>9. QED
    BY <1>3, <2>2, <2>7, <2>8
<1>7. ASSUME NEW t \in Threads, GivesUp(t) PROVE Queued'
  <2>1. PICK i \in 1..Len(queue) :
            queue[i].thread = t /\ queue' = RemoveAt(queue, i) /\ held' = held
    BY <1>1, <1>7, LenProperties DEF GivesUp, Lock!Cancel, Lock!RemoveAt, RemoveAt
  <2>2. /\ Len(queue') = Len(queue) - 1
        /\ \A j \in 1..(Len(queue) - 1) :
               queue'[j] = IF j < i THEN queue[j] ELSE queue[j + 1]
    BY <1>1, <2>1, RemoveAtProperties
  <2>3. ASSUME NEW j \in 1..Len(queue')
        PROVE  \E k \in 1..Len(queue) :
                   /\ queue'[j] = queue[k]
                   /\ k # i
                   /\ k = IF j < i THEN j ELSE j + 1
    BY <1>1, <2>2
  <2>4. EachOnce(queue)'
    BY <1>1, <1>3, <2>1, <2>3
  <2>5. \A j \in 1..Len(queue') : pc'[queue'[j].thread] = WaitFor(queue'[j].mode)
    BY <1>2, <1>3, <1>7, <2>1, <2>3 DEF GivesUp
  <2>6. QED
    BY <1>3, <2>1, <2>4, <2>5
<1>8. ASSUME NEW t \in Threads, Granted(t) PROVE Queued'
  <2>1. /\ queue # << >>
        /\ Head(queue).thread = t
        /\ Lock!Fits(Head(queue).mode)
        /\ held' = [held EXCEPT ![t] = Head(queue).mode]
        /\ queue' = Tail(queue)
    BY <1>8 DEF Granted, Lock!Grant
  <2>2. /\ Len(queue) >= 1 /\ queue[1] = Head(queue)
        /\ Len(queue') = Len(queue) - 1
        /\ \A i \in 1..Len(queue') : queue'[i] = queue[i + 1]
    BY <1>1, <2>1, HeadTailProperties, EmptySeq
  <2>3. \A u \in Threads \ {t} : pc'[u] = pc[u]
    <3>1. \E s \in {"check", "delete"} : pc' = [pc EXCEPT ![t] = s]
      BY <1>8 DEF Granted, Goto
    <3>2. QED
      BY <1>1, <3>1
  <2>4. ASSUME NEW i \in 1..Len(queue')
        PROVE  i + 1 \in 1..Len(queue) /\ i + 1 # 1 /\ 1 \in 1..Len(queue)
    BY <1>1, <2>2
  <2>5. \A i \in 1..Len(queue') : queue'[i].thread # t
    BY <1>3, <2>1, <2>2, <2>4
  <2>6. EachOnce(queue)'
    BY <1>3, <2>2, <2>4
  <2>7. \A i \in 1..Len(queue') : pc'[queue'[i].thread] = WaitFor(queue'[i].mode)
    BY <1>2, <1>3, <2>2, <2>3, <2>4, <2>5
  <2>8. LockExclusive'
    <3>1. Head(queue).mode \in {"shared", "exclusive"}
      BY <1>1, <1>2, <2>2
    <3>2. QED
      BY <1>1, <1>3, <2>1, <3>1 DEF Lock!Fits
  <2>9. QED
    BY <2>6, <2>7, <2>8
<1>9. CASE UNCHANGED <<queue, held, pc>>
  BY <1>3, <1>9
<1>10. QED
  BY <1>5, <1>6, <1>7, <1>8, <1>9, LockSteps
  DEF IInv, Next, Crash, HealthExpires, CooldownExpires, vars, lockVars

-----------------------------------------------------------------------------
(***************************************************************************)
(* The steps of the goroutines against each other.                         *)
(***************************************************************************)

\* The oldest waiter is at the step that its grant continues.
LEMMA HeadIsWaiter ==
    ASSUME IInv, queue # << >>
    PROVE  /\ Head(queue).mode \in {"shared", "exclusive"}
           /\ pc[Head(queue).thread] = WaitFor(Head(queue).mode)
<1>1. queue \in Seq(Lock!Waiter)
  BY DEF IInv, TypeOK, Lock!TypeOK
<1>2. Head(queue) \in Lock!Waiter /\ Head(queue) = queue[1] /\ 1 \in 1..Len(queue)
  BY <1>1, HeadTailProperties, EmptySeq, LenProperties
<1>3. QED
  BY <1>2 DEF IInv, Queued, QueueMatchesPC, Lock!Waiter, Lock!Modes

\* A return from checkIsLoaded neither starts nor ends a load.
LEMMA CheckReturnsControl ==
    ASSUME IInv, NEW t \in Threads, NEW m, CheckReturns(t, m), pc[t] \in CheckSteps,
           loading' = loading, store' \in {store, NoHandle}
    PROVE  Control'
<1> USE DEF IInv, Control, LockMatchesPC, SingleFlight, LeaderOwnsEmptySlot, TypeOK,
            Lock!TypeOK, Lock!Modes, CheckSteps, LoadSteps, LeaderSteps, DeleteSteps,
            lockVars
<1>1. CASE Lock!Release(t)
  <2>1. \E s \in {"miss", "ready"} : pc' = [pc EXCEPT ![t] = s]
    BY <1>1, CheckReturnsMoves DEF Lock!Release
  <2>2. QED
    BY <1>1, <2>1 DEF Lock!Release
<1>2. CASE /\ \E s \in {"decide", "loaded", "check"} : pc' = [pc EXCEPT ![t] = s]
           /\ UNCHANGED lockVars
  BY <1>2
<1>3. QED
  BY <1>1, <1>2, CheckReturnsMoves

\* Every step keeps the lock modes, the single flight and the empty slot.
LEMMA ControlInductive ==
    ASSUME IInv, TypeOK', [Next]_vars
    PROVE  Control'
<1> USE DEF IInv, Control, LockMatchesPC, SingleFlight, LeaderOwnsEmptySlot, TypeOK,
            Lock!TypeOK, Lock!Modes, CheckSteps, LoadSteps, LeaderSteps, DeleteSteps,
            loadVars, lockVars, Goto
<1>0. CASE UNCHANGED vars
  BY <1>0 DEF vars
<1>1. ASSUME NEW t \in Threads, AcquireShared(t) PROVE Control'
  BY <1>1 DEF AcquireShared, Lock!Request
<1>2. ASSUME NEW t \in Threads, Granted(t) PROVE Control'
  <2>1. /\ Head(queue).mode \in {"shared", "exclusive"}
        /\ pc[t] = WaitFor(Head(queue).mode)
    BY <1>2, HeadIsWaiter DEF Granted, Lock!Grant
  <2>2. held' = [held EXCEPT ![t] = Head(queue).mode]
    BY <1>2 DEF Granted, Lock!Grant
  <2>3. UNCHANGED loadVars
    BY <1>2 DEF Granted
  <2>4. CASE pc[t] = "sharedWait" /\ Goto(t, "check")
    <3>1. held' = [held EXCEPT ![t] = "shared"]
      BY <2>1, <2>2, <2>4 DEF WaitFor
    <3>2. LockMatchesPC'
      BY <2>4, <3>1
    <3>3. SingleFlight' /\ LeaderOwnsEmptySlot'
      BY <2>3, <2>4
    <3>4. QED
      BY <3>2, <3>3
  <2>5. CASE pc[t] = "exclusiveWait" /\ Goto(t, "delete")
    <3>1. held' = [held EXCEPT ![t] = "exclusive"]
      BY <2>1, <2>2, <2>5 DEF WaitFor
    <3>2. LockMatchesPC'
      BY <2>5, <3>1
    <3>3. SingleFlight' /\ LeaderOwnsEmptySlot'
      BY <2>3, <2>5
    <3>4. QED
      BY <3>2, <3>3
  <2>6. QED
    BY <1>2, <2>4, <2>5 DEF Granted
<1>3. ASSUME NEW t \in Threads, CheckMisses(t) PROVE Control'
  BY <1>3, CheckReturnsControl DEF CheckMisses
<1>4. ASSUME NEW t \in Threads, CheckHits(t) PROVE Control'
  BY <1>4 DEF CheckHits
<1>5. ASSUME NEW t \in Threads, CachedHealth(t) PROVE Control'
  BY <1>5, CheckReturnsControl DEF CachedHealth
<1>6. ASSUME NEW t \in Threads, LockHealth(t) PROVE Control'
  BY <1>6 DEF LockHealth
<1>7. ASSUME NEW t \in Threads, HealthOK(t) PROVE Control'
  BY <1>7, CheckReturnsControl DEF HealthOK
<1>8. ASSUME NEW t \in Threads, HealthDead(t) PROVE Control'
  BY <1>8 DEF HealthDead
<1>9. ASSUME NEW t \in Threads, ReapLookup(t) PROVE Control'
  BY <1>9 DEF ReapLookup
<1>10. ASSUME NEW t \in Threads, ReapNotFound(t) PROVE Control'
  BY <1>10, CheckReturnsControl DEF ReapNotFound, ReapReturns
<1>11. ASSUME NEW t \in Threads, ReapStop(t) PROVE Control'
  BY <1>11 DEF ReapStop
<1>12. ASSUME NEW t \in Threads, ReapStopFails(t) PROVE Control'
  BY <1>12, CheckReturnsControl DEF ReapStopFails, ReapReturns
<1>13. ASSUME NEW t \in Threads, ReapDelete(t) PROVE Control'
  BY <1>13, CheckReturnsControl DEF ReapDelete, ReapReturns
<1>14. ASSUME NEW t \in Threads, FindPublished(t) PROVE Control'
  BY <1>14 DEF FindPublished
<1>15. ASSUME NEW t \in Threads, RefuseInCooldown(t) PROVE Control'
  BY <1>15 DEF RefuseInCooldown
<1>16. ASSUME NEW t \in Threads, WaitForLeader(t) PROVE Control'
  BY <1>16 DEF WaitForLeader
<1>17. ASSUME NEW t \in Threads, BecomeLeader(t) PROVE Control'
  BY <1>17 DEF BecomeLeader
<1>18. ASSUME NEW t \in Threads, Spawn(t) PROVE Control'
  BY <1>18 DEF Spawn
<1>19. ASSUME NEW t \in Threads, SpawnFails(t) PROVE Control'
  BY <1>19 DEF SpawnFails
<1>20. ASSUME NEW t \in Threads, LoadRPCSucceeds(t) PROVE Control'
  BY <1>20 DEF LoadRPCSucceeds
<1>21. ASSUME NEW t \in Threads, LoadRPCFails(t) PROVE Control'
  BY <1>21 DEF LoadRPCFails
<1>22. ASSUME NEW t \in Threads, Publish(t) PROVE Control'
  BY <1>22 DEF Publish
<1>23. ASSUME NEW t \in Threads, RecordFailure(t) PROVE Control'
  BY <1>23 DEF RecordFailure
<1>24. ASSUME NEW t \in Threads, Finish(t) PROVE Control'
  BY <1>24 DEF Finish
<1>25. ASSUME NEW t \in Threads, LoadReturns(t) PROVE Control'
  BY <1>25 DEF LoadReturns, Lock!Release
<1>26. ASSUME NEW t \in Threads, StartShutdown(t) PROVE Control'
  BY <1>26 DEF StartShutdown, Lock!Request
<1>27. ASSUME NEW t \in Threads, CleanupStops(t) PROVE Control'
  BY <1>27 DEF CleanupStops, Lock!Request
<1>28. ASSUME NEW t \in Threads, CleanupFindsNothing(t) PROVE Control'
  BY <1>28 DEF CleanupFindsNothing
<1>29. ASSUME NEW t \in Threads, LockDeadline(t) PROVE Control'
  BY <1>29 DEF LockDeadline, Lock!Cancel
<1>30. ASSUME NEW t \in Threads, DeleteNotFound(t) PROVE Control'
  BY <1>30 DEF DeleteNotFound, Lock!Release, DeleteReturns
<1>31. ASSUME NEW t \in Threads, DeleteLookup(t) PROVE Control'
  BY <1>31 DEF DeleteLookup
<1>32. ASSUME NEW t \in Threads, BusyWaitEnds(t) PROVE Control'
  BY <1>32 DEF BusyWaitEnds
<1>33. ASSUME NEW t \in Threads, BusyDeadline(t) PROVE Control'
  BY <1>33 DEF BusyDeadline, Lock!Release
<1>34. ASSUME NEW t \in Threads, ForceAfterBusy(t) PROVE Control'
  BY <1>34 DEF ForceAfterBusy, Lock!Request
<1>35. ASSUME NEW t \in Threads, StopProcess(t) PROVE Control'
  BY <1>35 DEF StopProcess
<1>36. ASSUME NEW t \in Threads, StopFails(t) PROVE Control'
  BY <1>36 DEF StopFails, Lock!Release, DeleteReturns
<1>37. ASSUME NEW t \in Threads, Forget(t) PROVE Control'
  BY <1>37 DEF Forget, Lock!Release, DeleteReturns
<1>38. ASSUME NEW t \in Threads, StartCall(t) PROVE Control'
  BY <1>38 DEF StartCall
<1>39. ASSUME NEW t \in Threads, EndCall(t) PROVE Control'
  BY <1>39 DEF EndCall
<1>40. CASE Crash
  BY <1>40 DEF Crash
<1>41. CASE HealthExpires
  BY <1>41 DEF HealthExpires
<1>42. CASE CooldownExpires
  BY <1>42 DEF CooldownExpires
<1>43. QED
  BY <1>0, <1>1, <1>2, <1>3, <1>4, <1>5, <1>6, <1>7, <1>8, <1>9, <1>10,
     <1>11, <1>12, <1>13, <1>14, <1>15, <1>16, <1>17, <1>18, <1>19, <1>20,
     <1>21, <1>22, <1>23, <1>24, <1>25, <1>26, <1>27, <1>28, <1>29, <1>30,
     <1>31, <1>32, <1>33, <1>34, <1>35, <1>36, <1>37, <1>38, <1>39,
     <1>40, <1>41, <1>42
  DEF Next, Check, LoadRPC, Load, Deadline, Shutdown

-----------------------------------------------------------------------------
(***************************************************************************)
(* The theorems.                                                           *)
(***************************************************************************)

LEMMA InitIInv == Init => IInv
<1> SUFFICES ASSUME Init PROVE IInv
  OBVIOUS
<1> USE LoaderAssumption DEF Init, Lock!Init
<1>1. TypeOK
  <2>1. Lock!TypeOK
    BY EmptySeq DEF Lock!TypeOK, Lock!Modes
  <2>2. "start" \in PC
    BY DEF PC, FreeSteps
  <2>3. /\ started \in 0..MaxHandle /\ crashes \in 0..MaxCrashes
        /\ stopFailures \in 0..MaxStopFailures
    OBVIOUS
  <2>4. /\ pc \in [Threads -> PC]
        /\ prober \in [Handle -> Threads \cup {NoThread}]
        /\ why \in [Threads -> {"fast", "load", "woken", "post"}]
        /\ retries \in [Threads -> Nat]
        /\ force \in [Threads -> BOOLEAN]
    BY <2>2
  <2>5. /\ probed \in [Threads -> Handle \cup {NoHandle}]
        /\ target \in [Threads -> Handle \cup {NoHandle}]
        /\ client \in [Threads -> Handle \cup {NoHandle}]
    OBVIOUS
  <2>6. QED
    BY <2>1, <2>3, <2>4, <2>5 DEF TypeOK
<1>2. Queued
  BY DEF Queued, LockExclusive, QueueMatchesPC, EachOnce
<1>3. Control
  BY DEF Control, LockMatchesPC, SingleFlight, LeaderOwnsEmptySlot, CheckSteps,
         LoadSteps, LeaderSteps, DeleteSteps
<1>4. QED
  BY <1>1, <1>2, <1>3 DEF IInv

\* The inductive invariant holds throughout.
THEOREM Invariance == Spec => []IInv
<1>1. Init => IInv
  BY InitIInv
<1>2. IInv /\ [Next]_vars => IInv'
  BY TypeInductive, QueuedInductive, ControlInductive DEF IInv
<1>3. QED
  BY <1>1, <1>2, PTL DEF Spec

\* The state of the loader is well typed (ModelLoader.TypeOK).
THEOREM Typing == Spec => []TypeOK
<1>1. IInv => TypeOK
  BY DEF IInv
<1>2. QED
  BY <1>1, Invariance, PTL

(***************************************************************************)
(* However many requests arrive, whatever crashes, at most one of them     *)
(* loads the model, and who waits for a load waits for one under way.      *)
(***************************************************************************)
THEOREM LoadsAreCoalesced == Spec => []SingleFlight
<1>1. IInv => SingleFlight
  BY DEF IInv, Control
<1>2. QED
  BY <1>1, Invariance, PTL

(***************************************************************************)
(* shutdownModel never deletes a model that somebody probes or loads.      *)
(***************************************************************************)
THEOREM ShutdownExcludesLoads == Spec => []ShutdownIsAlone
<1>1. IInv => ShutdownIsAlone
  BY DEF IInv, Queued, Control, LockExclusive, LockMatchesPC, ShutdownIsAlone,
         CheckSteps, LoadSteps, DeleteSteps
<1>2. QED
  BY <1>1, Invariance, PTL

(***************************************************************************)
(* A leader publishes into an empty slot: no loaded model is overwritten.  *)
(***************************************************************************)
THEOREM NothingIsOverwritten == Spec => []LeaderOwnsEmptySlot
<1>1. IInv => LeaderOwnsEmptySlot
  BY DEF IInv, Control
<1>2. QED
  BY <1>1, Invariance, PTL

-----------------------------------------------------------------------------
(***************************************************************************)
(* The processes.                                                          *)
(***************************************************************************)

(***************************************************************************)
(* While nothing crashed and no stop failed: every process is the stored   *)
(* one or that of a leader, nobody reaps, a probe is of the stored model,  *)
(* and a shutdown stops and then forgets the stored model.                 *)
(***************************************************************************)
Served ==
    /\ \A h \in alive :
        h = store \/ \E t \in Threads : pc[t] \in {"loadRPC", "publish"} /\ client[t] = h
    /\ store # NoHandle => store \in alive \/ \E t \in Threads : pc[t] = "forget"
    /\ \A t \in Threads :
        /\ pc[t] \in {"loadRPC", "publish"} => client[t] \in alive
        /\ pc[t] \notin {"reap", "reapStop", "reapDelete"}
        /\ pc[t] \in {"probe", "health"} => probed[t] = store /\ store # NoHandle
        /\ pc[t] \in {"busyWait", "stop", "forget"} => target[t] = store /\ store # NoHandle
        /\ pc[t] = "forget" => store \notin alive

\* The faults so far are counted, and none is forgotten.
LEMMA CalmBefore ==
    ASSUME TypeOK, [Next]_vars, Calm'
    PROVE  Calm
<1>1. crashes \in Nat /\ stopFailures \in Nat
  BY LoaderAssumption DEF TypeOK
<1>2. UNCHANGED <<crashes, stopFailures>> \/ (Crash /\ crashes' = crashes + 1)
          \/ \E h : StopErrs(h) /\ stopFailures' = stopFailures + 1 /\ crashes' = crashes
  BY DEF Next, vars, processVars, AcquireShared, Granted, Check, CheckMisses, CheckHits,
     CachedHealth, LockHealth, HealthOK, HealthDead, ReapLookup, ReapNotFound, ReapStop,
     ReapStopFails, ReapDelete, LoadRPC, LoadRPCSucceeds, LoadRPCFails, Load, FindPublished,
     RefuseInCooldown, WaitForLeader, BecomeLeader, Spawn, SpawnFails, Publish, RecordFailure,
     Finish, LoadReturns, CleanupStops, CleanupFindsNothing, StartShutdown, Deadline,
     LockDeadline, BusyDeadline, Shutdown, DeleteNotFound, DeleteLookup, BusyWaitEnds,
     ForceAfterBusy, StopProcess, StopFails, Forget, StartCall, EndCall, Crash,
     HealthExpires, CooldownExpires, StopErrs
<1>3. QED
  BY <1>1, <1>2 DEF Calm

\* No process has failed to stop.
LEMMA CalmStops ==
    ASSUME TypeOK, Calm', NEW h
    PROVE  ~StopErrs(h)
BY LoaderAssumption DEF Calm, StopErrs, TypeOK

\* The operation lock keeps a shutdown and everybody else apart.
LEMMA Apart ==
    ASSUME IInv, NEW t \in Threads, NEW u \in Threads, t # u, pc[t] \in DeleteSteps
    PROVE  pc[u] \notin CheckSteps \cup LoadSteps \cup DeleteSteps
BY DEF IInv, Queued, Control, LockExclusive, LockMatchesPC, CheckSteps, LoadSteps, DeleteSteps

\* A return from checkIsLoaded concerns no process.
LEMMA CheckReturnsServed ==
    ASSUME IInv, Served, NEW t \in Threads, NEW m, CheckReturns(t, m), pc[t] \in CheckSteps,
           UNCHANGED <<store, alive, target>>
    PROVE  Served'
<1>1. \E s \in {"miss", "ready", "decide", "loaded", "check"} : pc' = [pc EXCEPT ![t] = s]
  BY CheckReturnsMoves DEF IInv
<1>2. \A u \in Threads : u # t => client'[u] = client[u] /\ probed'[u] = probed[u]
  BY DEF CheckReturns, IInv, TypeOK
<1>3. QED
  BY <1>1, <1>2 DEF Served, IInv, TypeOK, CheckSteps

\* Every step keeps the processes of a calm loader.
LEMMA ServedInductive ==
    ASSUME IInv, Served, Calm, [Next]_vars, Calm'
    PROVE  Served'
<1> USE DEF Served, IInv, TypeOK, loadVars, processVars, healthVars, localVars, Goto
<1>0. CASE UNCHANGED vars
  BY <1>0 DEF vars
<1>1. ASSUME NEW t \in Threads, AcquireShared(t) PROVE Served'
  BY <1>1 DEF AcquireShared, Lock!Request
<1>2. ASSUME NEW t \in Threads, Granted(t) PROVE Served'
  <2>1. \E s \in {"check", "delete"} : pc' = [pc EXCEPT ![t] = s]
    BY <1>2 DEF Granted
  <2>2. pc[t] \in {"sharedWait", "exclusiveWait"} /\ UNCHANGED <<loadVars, processVars, localVars>>
    BY <1>2 DEF Granted
  <2>3. QED
    BY <2>1, <2>2
<1>3. ASSUME NEW t \in Threads, CheckHits(t) PROVE Served'
  BY <1>3 DEF CheckHits
<1>4. ASSUME NEW t \in Threads, LockHealth(t) PROVE Served'
  BY <1>4 DEF LockHealth
<1>5. ASSUME NEW t \in Threads, FindPublished(t) PROVE Served'
  BY <1>5 DEF FindPublished
<1>6. ASSUME NEW t \in Threads, RefuseInCooldown(t) PROVE Served'
  BY <1>6 DEF RefuseInCooldown
<1>7. ASSUME NEW t \in Threads, WaitForLeader(t) PROVE Served'
  BY <1>7 DEF WaitForLeader
<1>8. ASSUME NEW t \in Threads, BecomeLeader(t) PROVE Served'
  BY <1>8 DEF BecomeLeader
<1>9. ASSUME NEW t \in Threads, Spawn(t) PROVE Served'
  <2>1. store = NoHandle
    BY <1>9 DEF Spawn, Control, LeaderOwnsEmptySlot, LeaderSteps
  <2>2. \A u \in Threads : pc[u] \notin {"loadRPC", "publish"}
    BY <1>9 DEF Spawn, Control, SingleFlight, LeaderSteps
  <2>3. alive = {}
    <3> SUFFICES ASSUME NEW h \in alive PROVE FALSE
      OBVIOUS
    <3>1. h = NoHandle
      BY <2>1, <2>2
    <3>2. NoHandle \notin Handle
      BY LoaderAssumption DEF Handle, NoHandle
    <3>3. QED
      BY <3>1, <3>2
  <2>4. /\ pc[t] = "spawn" /\ pc' = [pc EXCEPT ![t] = "loadRPC"]
        /\ client' = [client EXCEPT ![t] = started + 1] /\ alive' = alive \cup {started + 1}
        /\ UNCHANGED <<store, probed, target>>
    BY <1>9 DEF Spawn
  <2>5. client'[t] = started + 1 /\ pc'[t] = "loadRPC" /\ alive' = {started + 1} /\ store' = NoHandle
    BY <2>1, <2>3, <2>4
  <2>6. \A u \in Threads : u # t => pc'[u] = pc[u] /\ client'[u] = client[u]
    BY <2>4
  <2>7. QED
    BY <2>1, <2>2, <2>4, <2>5, <2>6
<1>10. ASSUME NEW t \in Threads, SpawnFails(t) PROVE Served'
  BY <1>10 DEF SpawnFails
<1>11. ASSUME NEW t \in Threads, LoadRPCSucceeds(t) PROVE Served'
  BY <1>11 DEF LoadRPCSucceeds
<1>12. ASSUME NEW t \in Threads, RecordFailure(t) PROVE Served'
  BY <1>12 DEF RecordFailure
<1>13. ASSUME NEW t \in Threads, Finish(t) PROVE Served'
  BY <1>13 DEF Finish
<1>14. ASSUME NEW t \in Threads, LoadReturns(t) PROVE Served'
  BY <1>14 DEF LoadReturns
<1>15. ASSUME NEW t \in Threads, StartShutdown(t) PROVE Served'
  BY <1>15 DEF StartShutdown
<1>16. ASSUME NEW t \in Threads, CleanupStops(t) PROVE Served'
  BY <1>16 DEF CleanupStops
<1>17. ASSUME NEW t \in Threads, CleanupFindsNothing(t) PROVE Served'
  BY <1>17 DEF CleanupFindsNothing
<1>18. ASSUME NEW t \in Threads, LockDeadline(t) PROVE Served'
  BY <1>18 DEF LockDeadline
<1>19. ASSUME NEW t \in Threads, DeleteNotFound(t) PROVE Served'
  BY <1>19 DEF DeleteNotFound, DeleteReturns
<1>20. ASSUME NEW t \in Threads, DeleteLookup(t) PROVE Served'
  BY <1>20 DEF DeleteLookup
<1>21. ASSUME NEW t \in Threads, BusyWaitEnds(t) PROVE Served'
  BY <1>21 DEF BusyWaitEnds
<1>22. ASSUME NEW t \in Threads, BusyDeadline(t) PROVE Served'
  BY <1>22 DEF BusyDeadline
<1>23. ASSUME NEW t \in Threads, ForceAfterBusy(t) PROVE Served'
  BY <1>23 DEF ForceAfterBusy
<1>24. ASSUME NEW t \in Threads, StartCall(t) PROVE Served'
  BY <1>24 DEF StartCall
<1>25. ASSUME NEW t \in Threads, EndCall(t) PROVE Served'
  BY <1>25 DEF EndCall
<1>26. ASSUME NEW t \in Threads, CheckMisses(t) PROVE Served'
  BY <1>26, CheckReturnsServed DEF CheckMisses, CheckSteps
<1>27. ASSUME NEW t \in Threads, CachedHealth(t) PROVE Served'
  BY <1>27, CheckReturnsServed DEF CachedHealth, CheckSteps
<1>28. ASSUME NEW t \in Threads, HealthOK(t) PROVE Served'
  BY <1>28, CheckReturnsServed DEF HealthOK, CheckSteps
<1>29. ASSUME NEW t \in Threads, HealthDead(t) PROVE Served'
  <2>1. probed[t] = store /\ store # NoHandle /\ store \notin alive
    BY <1>29 DEF HealthDead
  <2>2. PICK u \in Threads : pc[u] = "forget"
    BY <2>1
  <2>3. pc[t] \notin CheckSteps
    BY <2>2, Apart, <1>29 DEF DeleteSteps, HealthDead, CheckSteps
  <2>4. QED
    BY <1>29, <2>3 DEF HealthDead, CheckSteps
<1>30. ASSUME NEW t \in Threads,
              ReapLookup(t) \/ ReapNotFound(t) \/ ReapStop(t) \/ ReapStopFails(t) \/ ReapDelete(t)
      PROVE  Served'
  BY <1>30 DEF ReapLookup, ReapNotFound, ReapStop, ReapStopFails, ReapDelete
<1>31. ASSUME NEW t \in Threads, LoadRPCFails(t) PROVE Served'
  <2>1. alive' = alive \ {client[t]}
    BY <1>31, CalmStops DEF LoadRPCFails
  <2>2. \A u \in Threads : pc[u] \in {"loadRPC", "publish"} => u = t
    BY <1>31 DEF LoadRPCFails, Control, SingleFlight, LeaderSteps
  <2>3. store = NoHandle
    BY <1>31 DEF LoadRPCFails, Control, LeaderOwnsEmptySlot, LeaderSteps
  <2>4. QED
    BY <1>31, <2>1, <2>2, <2>3 DEF LoadRPCFails
<1>32. ASSUME NEW t \in Threads, Publish(t) PROVE Served'
  <2>1. store = NoHandle
    BY <1>32 DEF Publish, Control, LeaderOwnsEmptySlot, LeaderSteps
  <2>2. \A u \in Threads : pc[u] \in {"loadRPC", "publish"} => u = t
    BY <1>32 DEF Publish, Control, SingleFlight, LeaderSteps
  <2>3. /\ pc[t] = "publish" /\ pc' = [pc EXCEPT ![t] = "finish"]
        /\ store' = client[t] /\ UNCHANGED <<alive, client, probed, target>>
    BY <1>32 DEF Publish
  <2>4. \A u \in Threads : u # t => pc'[u] = pc[u]
    BY <2>3
  <2>5. pc'[t] = "finish" /\ client[t] \in alive
    BY <2>3
  <2>6. \A h \in alive : h = client[t]
    <3> SUFFICES ASSUME NEW h \in alive PROVE h = client[t]
      OBVIOUS
    <3>1. h # NoHandle
      BY LoaderAssumption DEF Handle, NoHandle
    <3>2. QED
      BY <2>1, <2>2, <3>1
  <2>7. QED
    BY <2>1, <2>2, <2>3, <2>4, <2>5, <2>6
<1>33. ASSUME NEW t \in Threads, StopProcess(t) PROVE Served'
  <2>1. \A u \in Threads : u # t => pc[u] \notin CheckSteps \cup LoadSteps \cup DeleteSteps
    BY <1>33, Apart DEF StopProcess, DeleteSteps
  <2>2. QED
    BY <1>33, <2>1 DEF StopProcess, CheckSteps, LoadSteps, DeleteSteps
<1>34. ASSUME NEW t \in Threads, StopFails(t) PROVE Served'
  BY <1>34, CalmStops DEF StopFails
<1>35. ASSUME NEW t \in Threads, Forget(t) PROVE Served'
  <2>1. \A u \in Threads : u # t => pc[u] \notin CheckSteps \cup LoadSteps \cup DeleteSteps
    BY <1>35, Apart DEF Forget, DeleteSteps
  <2>2. QED
    BY <1>35, <2>1 DEF Forget, DeleteReturns, CheckSteps, LoadSteps, DeleteSteps
<1>36. CASE Crash
  BY <1>36 DEF Crash, Calm
<1>37. CASE HealthExpires \/ CooldownExpires
  BY <1>37 DEF HealthExpires, CooldownExpires
<1>38. QED
  BY <1>0, <1>1, <1>2, <1>3, <1>4, <1>5, <1>6, <1>7, <1>8, <1>9, <1>10, <1>11,
     <1>12, <1>13, <1>14, <1>15, <1>16, <1>17, <1>18, <1>19, <1>20, <1>21,
     <1>22, <1>23, <1>24, <1>25, <1>26, <1>27, <1>28, <1>29, <1>30, <1>31,
     <1>32, <1>33, <1>34, <1>35, <1>36, <1>37
  DEF Next, Check, LoadRPC, Load, Deadline, Shutdown

LEMMA ServedInvariance == Spec => [](Calm => Served)
<1>1. Init => Served
  BY DEF Init, Served
<1>2. IInv /\ (Calm => Served) /\ [Next]_vars => (Calm => Served)'
  BY CalmBefore, ServedInductive DEF IInv
<1>3. QED
  BY <1>1, <1>2, Invariance, PTL DEF Spec

(***************************************************************************)
(* As long as nothing crashed and no stop failed, no process is left where *)
(* no shutdown finds it.                                                   *)
(***************************************************************************)
THEOREM NoProcessIsOrphaned == Spec => []NoOrphanProcess
<1>1. (Calm => Served) => NoOrphanProcess
  BY DEF Served, NoOrphanProcess
<1>2. QED
  BY <1>1, ServedInvariance, PTL

-----------------------------------------------------------------------------
(***************************************************************************)
(* The loader implements ModelSlot.                                        *)
(***************************************************************************)

\* While the loader is calm there is at most one process.
LEMMA ProcessOfLeader ==
    ASSUME IInv, Served, NEW t \in Threads, pc[t] \in {"loadRPC", "publish"}
    PROVE  alive = {client[t]} /\ store = NoHandle /\ client[t] \in Handle
<1>1. store = NoHandle
  BY DEF IInv, Control, LeaderOwnsEmptySlot, LeaderSteps
<1>2. \A u \in Threads : pc[u] \in {"loadRPC", "publish"} => u = t
  BY DEF IInv, Control, SingleFlight, LeaderSteps
<1>3. NoHandle \notin Handle
  BY LoaderAssumption DEF Handle, NoHandle
<1>4. alive \subseteq Handle
  BY DEF IInv, TypeOK
<1>5. client[t] \in alive
  BY DEF Served
<1>6. QED
  BY <1>1, <1>2, <1>3, <1>4, <1>5 DEF Served

\* Before a leader starts one there is none.
LEMMA NoProcessBefore ==
    ASSUME IInv, Served, NEW t \in Threads, pc[t] = "spawn"
    PROVE  alive = {} /\ store = NoHandle
<1>1. store = NoHandle
  BY DEF IInv, Control, LeaderOwnsEmptySlot, LeaderSteps
<1>2. \A u \in Threads : pc[u] \notin {"loadRPC", "publish"}
  BY DEF IInv, Control, SingleFlight, LeaderSteps
<1>3. NoHandle \notin Handle
  BY LoaderAssumption DEF Handle, NoHandle
<1>4. alive \subseteq Handle
  BY DEF IInv, TypeOK
<1>5. QED
  BY <1>1, <1>2, <1>3, <1>4 DEF Served

\* A shutdown finds the only process, or has stopped it.
LEMMA ProcessOfShutdown ==
    ASSUME IInv, Served, NEW t \in Threads, pc[t] \in {"stop", "forget"}
    PROVE  /\ target[t] = store /\ store # NoHandle
           /\ pc[t] = "stop" => alive = {store}
           /\ pc[t] = "forget" => alive = {}
<1>1. \A u \in Threads : u # t => pc[u] \notin CheckSteps \cup LoadSteps \cup DeleteSteps
  BY Apart DEF DeleteSteps
<1>2. \A u \in Threads : pc[u] \notin {"loadRPC", "publish"} /\ (u # t => pc[u] # "forget")
  BY <1>1 DEF LoadSteps, DeleteSteps
<1>3. QED
  BY <1>2 DEF Served

LEMMA SlotInit == Init => Slot!Init
BY DEF Init, Slot!Init

\* Every step of a calm loader is a step of the slot, or none.
LEMMA SlotStep ==
    ASSUME IInv, Calm => Served, [Next]_vars, Calm'
    PROVE  [Slot!Next]_Slot!slotVars
<1>1. Served
  BY CalmBefore DEF IInv
<1> USE DEF Slot!slotVars, loadVars, processVars
<1>2. CASE UNCHANGED vars
  BY <1>2 DEF vars
<1>3. ASSUME NEW t \in Threads, Spawn(t) PROVE Slot!Start
  <2>1. alive = {} /\ store = NoHandle
    BY <1>1, <1>3, NoProcessBefore DEF Spawn
  <2>2. started + 1 \in Handle
    BY <1>3, LoaderAssumption DEF Spawn, IInv, TypeOK, Handle
  <2>3. QED
    BY <1>3, <2>1, <2>2 DEF Spawn, Slot!Start
<1>4. ASSUME NEW t \in Threads, Publish(t) PROVE Slot!Publish
  <2>1. alive = {client[t]} /\ store = NoHandle
    BY <1>1, <1>4, ProcessOfLeader DEF Publish
  <2>2. QED
    BY <1>4, <2>1 DEF Publish, Slot!Publish
<1>5. ASSUME NEW t \in Threads, LoadRPCFails(t) PROVE Slot!Stop
  <2>1. alive = {client[t]}
    BY <1>1, <1>5, ProcessOfLeader DEF LoadRPCFails
  <2>2. alive' = alive \ {client[t]} /\ UNCHANGED store
    BY <1>5, CalmStops DEF LoadRPCFails, IInv
  <2>3. QED
    BY <2>1, <2>2 DEF Slot!Stop
<1>6. ASSUME NEW t \in Threads, StopProcess(t) PROVE Slot!Stop
  <2>1. target[t] = store /\ alive = {store}
    BY <1>1, <1>6, ProcessOfShutdown DEF StopProcess
  <2>2. QED
    BY <1>6, <2>1 DEF StopProcess, Slot!Stop
<1>7. ASSUME NEW t \in Threads, Forget(t) PROVE Slot!Forget
  <2>1. store # NoHandle /\ alive = {}
    BY <1>1, <1>7, ProcessOfShutdown DEF Forget
  <2>2. QED
    BY <1>7, <2>1 DEF Forget, Slot!Forget
<1>8. ASSUME NEW t \in Threads, AcquireShared(t) \/ Granted(t) PROVE UNCHANGED Slot!slotVars
  BY <1>8 DEF AcquireShared, Granted
<1>9. ASSUME NEW t \in Threads,
             \/ CheckMisses(t) \/ CheckHits(t) \/ CachedHealth(t) \/ LockHealth(t)
             \/ HealthOK(t) \/ HealthDead(t)
      PROVE  UNCHANGED Slot!slotVars
  BY <1>9 DEF CheckMisses, CheckHits, CachedHealth, LockHealth, HealthOK, HealthDead
<1>10. ASSUME NEW t \in Threads,
              ReapLookup(t) \/ ReapNotFound(t) \/ ReapStop(t) \/ ReapStopFails(t) \/ ReapDelete(t)
      PROVE  FALSE
  BY <1>1, <1>10 DEF ReapLookup, ReapNotFound, ReapStop, ReapStopFails, ReapDelete, Served
<1>11. ASSUME NEW t \in Threads,
              \/ FindPublished(t) \/ RefuseInCooldown(t) \/ WaitForLeader(t)
              \/ BecomeLeader(t) \/ SpawnFails(t) \/ LoadRPCSucceeds(t)
              \/ RecordFailure(t) \/ Finish(t) \/ LoadReturns(t)
              \/ CleanupStops(t) \/ CleanupFindsNothing(t)
      PROVE  UNCHANGED Slot!slotVars
  BY <1>11 DEF FindPublished, RefuseInCooldown, WaitForLeader, BecomeLeader, SpawnFails,
     LoadRPCSucceeds, RecordFailure, Finish, LoadReturns, CleanupStops, CleanupFindsNothing
<1>12. ASSUME NEW t \in Threads,
              \/ StartShutdown(t) \/ LockDeadline(t) \/ BusyDeadline(t)
              \/ DeleteNotFound(t) \/ DeleteLookup(t) \/ BusyWaitEnds(t)
              \/ ForceAfterBusy(t) \/ StartCall(t) \/ EndCall(t)
      PROVE  UNCHANGED Slot!slotVars
  BY <1>12 DEF StartShutdown, LockDeadline, BusyDeadline, DeleteNotFound, DeleteLookup,
     BusyWaitEnds, ForceAfterBusy, StartCall, EndCall
<1>13. ASSUME NEW t \in Threads, StopFails(t) PROVE FALSE
  BY <1>13, CalmStops DEF StopFails, IInv
<1>14. CASE Crash
  <2>1. crashes' # 0
    BY <1>14 DEF Crash, IInv, TypeOK
  <2>2. QED
    BY <2>1 DEF Calm
<1>15. CASE HealthExpires \/ CooldownExpires
  BY <1>15 DEF HealthExpires, CooldownExpires
<1>16. QED
  BY <1>2, <1>3, <1>4, <1>5, <1>6, <1>7, <1>8, <1>9, <1>10, <1>11, <1>12, <1>13,
     <1>14, <1>15
  DEF Next, Check, LoadRPC, Load, Deadline, Shutdown, Slot!Next

(***************************************************************************)
(* As long as nothing crashed and no stop failed, the loader implements    *)
(* the slot: at most one process, registered after it serves, and          *)
(* withdrawn after it is stopped (ModelLoader.IsOneSlot).                  *)
(***************************************************************************)
THEOREM LoaderIsOneSlot == Spec => IsOneSlot
<1>1. Init => Slot!Init
  BY SlotInit
<1>2. IInv /\ (Calm => Served) /\ [Next]_vars => (Calm' => [Slot!Next]_Slot!slotVars)
  BY SlotStep
<1>3. QED
  BY <1>1, <1>2, Invariance, ServedInvariance, PTL DEF Spec, IsOneSlot
-----------------------------------------------------------------------------
(***************************************************************************)
(* The lock that ModelLoader takes for granted is a WeightedLock, and      *)
(* OperationLocks, whose entries come and go, implements it for the same   *)
(* goroutines, however many there are.                                     *)
(***************************************************************************)
CONSTANTS Entries, NoEntry

VARIABLES entry, refs, sem, mine, at

Locks == INSTANCE OperationLocks

\* The operators that OperationLocks takes from the library are the ones known here.
LEMMA SameOperators ==
    /\ \A S : Locks!IsFiniteSet(S) <=> IsFiniteSet(S)
    /\ \A S : Locks!Cardinality(S) = Cardinality(S)
    /\ \A q, i : Locks!RemoveAt(q, i) = RemoveAt(q, i)
    /\ \A q, i : Locks!Lock!RemoveAt(q, i) = RemoveAt(q, i)
BY DEF Locks!IsFiniteSet, IsFiniteSet, Locks!Cardinality, Cardinality,
       Locks!RemoveAt, Locks!Lock!RemoveAt, RemoveAt

\* Thread u waits in queue q.
IsIn(q, u) == \E i \in 1..Len(q) : q[i].thread = u

\* Whoever joins a queue waits in it once,
LEMMA AppendOnce ==
    ASSUME NEW W, NEW q \in Seq(W), NEW w \in W, EachOnce(q), ~IsIn(q, w.thread)
    PROVE  /\ Append(q, w) \in Seq(W) /\ EachOnce(Append(q, w))
           /\ \A u : IsIn(Append(q, w), u) <=> IsIn(q, u) \/ u = w.thread
<1> DEFINE n == Len(q)
           r == Append(q, w)
<1>1. n \in Nat /\ r \in Seq(W) /\ Len(r) = n + 1 /\ r[n + 1] = w
  OBVIOUS
<1>2. \A i \in 1..n : r[i] = q[i]
  OBVIOUS
<1> HIDE DEF n, r
<1>3. \A i \in 1..(n + 1) : i \in 1..n \/ i = n + 1
  BY <1>1
<1>4. \A i \in 1..n : q[i].thread # w.thread
  BY DEF IsIn, n
<1>5. EachOnce(r)
  BY <1>1, <1>2, <1>3, <1>4 DEF EachOnce, n
<1>6. \A u : IsIn(r, u) <=> IsIn(q, u) \/ u = w.thread
  <2>1. ASSUME NEW u PROVE IsIn(r, u) <=> IsIn(q, u) \/ u = w.thread
    <3>1. IsIn(r, u) => IsIn(q, u) \/ u = w.thread
      BY <1>1, <1>2, <1>3 DEF IsIn, n
    <3>2. IsIn(q, u) => IsIn(r, u)
      BY <1>1, <1>2 DEF IsIn, n
    <3>3. u = w.thread => IsIn(r, u)
      <4>1. n + 1 \in 1..(n + 1)
        BY <1>1
      <4> QED
        BY <1>1, <4>1 DEF IsIn
    <3> QED
      BY <3>1, <3>2, <3>3
  <2> QED
    BY <2>1
<1> QED
  BY <1>1, <1>5, <1>6 DEF r

\* and whoever is taken out waits no longer.
LEMMA RemoveOnce ==
    ASSUME NEW W, NEW q \in Seq(W), NEW i \in 1..Len(q), EachOnce(q)
    PROVE  /\ RemoveAt(q, i) \in Seq(W) /\ EachOnce(RemoveAt(q, i))
           /\ \A u : IsIn(RemoveAt(q, i), u) <=> IsIn(q, u) /\ u # q[i].thread
<1> DEFINE n == Len(q)
           r == RemoveAt(q, i)
           at0(j) == IF j < i THEN j ELSE j + 1
<1>1. n \in Nat /\ r \in Seq(W) /\ Len(r) = n - 1 /\ i \in 1..n
  BY RemoveAtProperties
<1>2. \A j \in 1..(n - 1) : r[j] = q[at0(j)]
  BY RemoveAtProperties
<1> HIDE DEF r, n
<1>3. \A j \in 1..(n - 1) : at0(j) \in 1..n /\ at0(j) # i
  BY <1>1
<1>4. \A j, k \in 1..(n - 1) : at0(j) = at0(k) => j = k
  BY <1>1
<1>5. \A k \in 1..n : k # i => \E j \in 1..(n - 1) : at0(j) = k
  <2>1. ASSUME NEW k \in 1..n, k # i PROVE \E j \in 1..(n - 1) : at0(j) = k
    <3>1. CASE k < i
      <4>1. k \in 1..(n - 1) /\ at0(k) = k
        BY <1>1, <3>1
      <4> QED
        BY <4>1
    <3>2. CASE k > i
      <4>1. k - 1 \in 1..(n - 1) /\ at0(k - 1) = k
        BY <1>1, <3>2
      <4> QED
        BY <4>1
    <3> QED
      BY <1>1, <2>1, <3>1, <3>2
  <2> QED
    BY <2>1
<1> HIDE DEF at0
<1>6. EachOnce(r)
  BY <1>1, <1>2, <1>3, <1>4 DEF EachOnce, n
<1>7. ASSUME NEW u PROVE IsIn(r, u) <=> IsIn(q, u) /\ u # q[i].thread
  <2>1. IsIn(r, u) => IsIn(q, u) /\ u # q[i].thread
    BY <1>1, <1>2, <1>3 DEF IsIn, EachOnce, n
  <2>2. IsIn(q, u) /\ u # q[i].thread => IsIn(r, u)
    <3> SUFFICES ASSUME NEW k \in 1..n, q[k].thread = u, k # i PROVE IsIn(r, u)
      BY DEF IsIn, n
    <3>1. PICK j \in 1..(n - 1) : at0(j) = k
      BY <1>5
    <3> QED
      BY <1>1, <1>2, <3>1 DEF IsIn
  <2> QED
    BY <2>1, <2>2
<1> QED
  BY <1>1, <1>6, <1>7 DEF r

\* The head of a queue is its first element.
LEMMA TailIsRemoveAt ==
    ASSUME NEW W, NEW q \in Seq(W), q # << >>
    PROVE  1 \in 1..Len(q) /\ Head(q) = q[1] /\ Tail(q) = RemoveAt(q, 1)
<1>1. Len(q) \in Nat /\ Len(q) # 0 /\ 1 \in 1..Len(q) /\ Head(q) = q[1]
  OBVIOUS
<1>2. Tail(q) \in Seq(W) /\ Len(Tail(q)) = Len(q) - 1
      /\ \A j \in 1..(Len(q) - 1) : Tail(q)[j] = q[j + 1]
  BY <1>1
<1>3. RemoveAt(q, 1) \in Seq(W) /\ Len(RemoveAt(q, 1)) = Len(q) - 1
      /\ \A j \in 1..(Len(q) - 1) : RemoveAt(q, 1)[j] = q[j + 1]
  <2>1. \A j \in 1..(Len(q) - 1) : ~(j < 1)
    OBVIOUS
  <2> QED
    BY <1>1, <2>1, RemoveAtProperties
<1> QED
  BY <1>1, <1>2, <1>3

\* The entry in the map is the one that every goroutine at work has, and its
\* semaphore knows just who waits and who holds it.
Matches(s) ==
    /\ EachOnce(s.queue)
    /\ \A t \in Threads : at[t] = "waiting" <=> IsIn(s.queue, t)
    /\ \A t \in Threads : at[t] = "holding" <=> s.held[t] # "none"

OneEntry ==
    /\ Locks!TypeOK
    /\ Locks!CountsUsers
    /\ \A t \in Threads : at[t] = "idle" <=> mine[t] = NoEntry
    /\ \A t \in Threads : mine[t] \in {NoEntry, entry}
    /\ entry # NoEntry => Matches(sem[entry])

\* What the goroutines see is the semaphore in the map, or a free one.
Seen ==
    /\ entry # NoEntry => /\ Locks!WaitQueue = sem[entry].queue
                          /\ \A t \in Threads : Locks!HeldMode(t) = sem[entry].held[t]
    /\ entry = NoEntry => /\ Locks!WaitQueue = << >>
                          /\ \A t \in Threads : Locks!HeldMode(t) = "none"

LEMMA SeenLock == OneEntry => Seen
<1> SUFFICES ASSUME OneEntry
             PROVE  /\ entry # NoEntry =>
                         \A t \in Threads : Locks!HeldMode(t) = sem[entry].held[t]
                    /\ entry = NoEntry => \A t \in Threads : Locks!HeldMode(t) = "none"
  BY DEF Seen, Locks!WaitQueue
<1>1. ASSUME entry # NoEntry, NEW t \in Threads
      PROVE  Locks!HeldMode(t) = sem[entry].held[t]
  <2>1. CASE mine[t] = NoEntry
    <3>1. sem[entry].held[t] = "none"
      BY <1>1, <2>1 DEF OneEntry, Matches
    <3> QED
      BY <2>1, <3>1 DEF Locks!HeldMode
  <2>2. CASE mine[t] # NoEntry
    BY <2>2 DEF OneEntry, Locks!HeldMode
  <2> QED
    BY <2>1, <2>2
<1>2. ASSUME entry = NoEntry, NEW t \in Threads PROVE Locks!HeldMode(t) = "none"
  BY <1>2 DEF OneEntry, Locks!HeldMode
<1> QED
  BY <1>1, <1>2

\* A goroutine that is counted does what it wants with the entry in the map: its
\* semaphore becomes s.
Handles(t, s, place) ==
    /\ s \in Locks!Semaphore
    /\ sem' = [sem EXCEPT ![entry] = s]
    /\ at' = [at EXCEPT ![t] = place]
    /\ UNCHANGED <<entry, refs, mine>>

LEMMA HandlesKeeps ==
    ASSUME OneEntry, NEW t \in Threads, at[t] # "idle",
           NEW s, NEW place \in Locks!Places \ {"idle"}, Handles(t, s, place),
           EachOnce(s.queue),
           \A u \in Threads : (IF u = t THEN place ELSE at[u]) = "waiting" <=> IsIn(s.queue, u),
           \A u \in Threads : (IF u = t THEN place ELSE at[u]) = "holding" <=> s.held[u] # "none"
    PROVE  OneEntry' /\ entry # NoEntry /\ entry \in Entries
<1>1. entry # NoEntry /\ entry \in Entries
  BY DEF OneEntry, Locks!TypeOK
<1>2. Locks!TypeOK'
  BY <1>1 DEF OneEntry, Locks!TypeOK, Handles
<1>3. Locks!CountsUsers'
  BY DEF OneEntry, Locks!CountsUsers, Locks!Users, Handles
<1>4. \A u \in Threads : at'[u] = IF u = t THEN place ELSE at[u]
  BY DEF OneEntry, Locks!TypeOK, Handles
<1>5. \A u \in Threads : at'[u] = "idle" <=> mine'[u] = NoEntry
  BY <1>4 DEF OneEntry, Handles
<1>6. \A u \in Threads : mine'[u] \in {NoEntry, entry'}
  BY DEF OneEntry, Handles
<1>7. sem'[entry] = s /\ entry' = entry
  BY <1>1 DEF OneEntry, Locks!TypeOK, Handles
<1>8. Matches(sem[entry])'
  BY <1>4, <1>7 DEF Matches
<1> QED
  BY <1>1, <1>2, <1>3, <1>5, <1>6, <1>8 DEF OneEntry

LEMMA SeenStep ==
    ASSUME OneEntry, OneEntry', NEW t \in Threads, NEW s, NEW place, Handles(t, s, place),
           entry # NoEntry
    PROVE  /\ Locks!WaitQueue = sem[entry].queue
           /\ Locks!WaitQueue' = s.queue
           /\ \A u \in Threads : Locks!HeldMode(u) = sem[entry].held[u]
           /\ \A u \in Threads : Locks!HeldMode(u)' = s.held[u]
<1>1. entry \in Entries /\ entry' = entry /\ sem'[entry] = s
  BY DEF OneEntry, Locks!TypeOK, Handles
<1>2. /\ Locks!WaitQueue = sem[entry].queue
      /\ \A u \in Threads : Locks!HeldMode(u) = sem[entry].held[u]
  BY SeenLock DEF Seen
<1>3. Seen'
  BY SeenLock, PTL
<1> QED
  BY <1>1, <1>2, <1>3 DEF Seen

-----------------------------------------------------------------------------
\* A goroutine queues for the lock,
LEMMA CallAcquireIsRequest ==
    ASSUME OneEntry, NEW t \in Threads, NEW mode \in Locks!Modes, Locks!CallAcquire(t, mode)
    PROVE  OneEntry' /\ Locks!Lock!Request(t, mode)
<1> DEFINE q == sem[entry].queue
           w == [thread |-> t, mode |-> mode]
           s == [sem[entry] EXCEPT !.queue = Append(q, w)]
<1>1. at[t] = "captured" /\ mine[t] = entry /\ entry \in Entries /\ entry # NoEntry
  BY DEF Locks!CallAcquire, OneEntry, Locks!TypeOK
<1>2. sem[entry] \in Locks!Semaphore /\ q \in Seq(Locks!Waiter) /\ w \in Locks!Waiter
      /\ w.thread = t /\ Matches(sem[entry])
  BY <1>1 DEF OneEntry, Locks!TypeOK, Locks!Semaphore, Locks!Waiter, Locks!Modes
<1>3. ~IsIn(q, t) /\ sem[entry].held[t] = "none"
  BY <1>1, <1>2 DEF Matches
<1>4. /\ Append(q, w) \in Seq(Locks!Waiter) /\ EachOnce(Append(q, w))
      /\ \A u : IsIn(Append(q, w), u) <=> IsIn(q, u) \/ u = t
  BY <1>2, <1>3, AppendOnce DEF Matches
<1>5. s.queue = Append(q, w) /\ s.held = sem[entry].held /\ s \in Locks!Semaphore
  BY <1>2, <1>4 DEF Locks!Semaphore
<1>6. sem' = [sem EXCEPT ![entry] = s]
  BY <1>1 DEF Locks!CallAcquire, OneEntry, Locks!TypeOK
<1> HIDE DEF s, q, w
<1>7. Handles(t, s, "waiting")
  BY <1>5, <1>6 DEF Locks!CallAcquire, Handles
<1>8. OneEntry'
  <2>1. \A u \in Threads :
          (IF u = t THEN "waiting" ELSE at[u]) = "waiting" <=> IsIn(s.queue, u)
    BY <1>2, <1>4, <1>5 DEF Matches, q
  <2>2. \A u \in Threads :
          (IF u = t THEN "waiting" ELSE at[u]) = "holding" <=> s.held[u] # "none"
    BY <1>2, <1>3, <1>5 DEF Matches
  <2>3. EachOnce(s.queue) /\ at[t] # "idle" /\ "waiting" \in Locks!Places \ {"idle"}
    BY <1>1, <1>4, <1>5 DEF Locks!Places
  <2> QED
    BY <1>7, <2>1, <2>2, <2>3, HandlesKeeps
<1>9. /\ Locks!WaitQueue = q /\ Locks!WaitQueue' = s.queue
      /\ \A u \in Threads : Locks!HeldMode(u) = sem[entry].held[u]
      /\ \A u \in Threads : Locks!HeldMode(u)' = s.held[u]
  BY <1>1, <1>7, <1>8, SeenStep DEF q
<1>10. t \notin Locks!Lock!Waiters
  BY <1>2, <1>3, <1>9 DEF Locks!Lock!Waiters, IsIn
<1> QED
  BY <1>3, <1>5, <1>8, <1>9, <1>10 DEF Locks!Lock!Request, w

\* gets it,
LEMMA AcquiredIsGrant ==
    ASSUME OneEntry, NEW t \in Threads, Locks!Acquired(t)
    PROVE  OneEntry' /\ Locks!Lock!Grant(t)
<1> DEFINE q == sem[entry].queue
           h == sem[entry].held
           mode == Head(q).mode
           s == [queue |-> Tail(q), held |-> [h EXCEPT ![t] = mode]]
<1>1. /\ at[t] = "waiting" /\ mine[t] = entry /\ entry \in Entries /\ entry # NoEntry
      /\ q # << >> /\ Head(q).thread = t /\ Locks!Fits(sem[entry], mode)
  BY DEF Locks!Acquired, OneEntry, Locks!TypeOK
<1>2. /\ q \in Seq(Locks!Waiter) /\ Matches(sem[entry])
      /\ h \in [Threads -> {"shared", "exclusive", "none"}]
  BY <1>1 DEF OneEntry, Locks!TypeOK, Locks!Semaphore, Locks!Modes
<1>3. 1 \in 1..Len(q) /\ Head(q) = q[1] /\ Tail(q) = RemoveAt(q, 1)
  BY <1>1, <1>2, TailIsRemoveAt
<1>4. /\ Tail(q) \in Seq(Locks!Waiter) /\ EachOnce(Tail(q))
      /\ \A u : IsIn(Tail(q), u) <=> IsIn(q, u) /\ u # t
  BY <1>1, <1>2, <1>3, RemoveOnce DEF Matches
<1>5. mode \in {"shared", "exclusive"}
  <2>1. q[1] \in Locks!Waiter
    BY <1>2, <1>3
  <2> QED
    BY <1>3, <2>1 DEF Locks!Waiter, Locks!Modes
<1>6. sem' = [sem EXCEPT ![entry] = s]
  BY <1>1 DEF Locks!Acquired
<1> HIDE DEF mode
<1>7. s \in Locks!Semaphore /\ s.queue = Tail(q)
      /\ \A u \in Threads : s.held[u] = IF u = t THEN mode ELSE h[u]
  BY <1>2, <1>4, <1>5 DEF Locks!Semaphore, Locks!Modes
<1> HIDE DEF s, q, h
<1>8. Handles(t, s, "holding")
  BY <1>6, <1>7 DEF Locks!Acquired, Handles
<1>9. OneEntry'
  <2>1. \A u \in Threads :
          (IF u = t THEN "holding" ELSE at[u]) = "waiting" <=> IsIn(s.queue, u)
    BY <1>2, <1>4, <1>7 DEF Matches, q
  <2>2. \A u \in Threads :
          (IF u = t THEN "holding" ELSE at[u]) = "holding" <=> s.held[u] # "none"
    BY <1>2, <1>5, <1>7 DEF Matches, h
  <2>3. EachOnce(s.queue) /\ at[t] # "idle" /\ "holding" \in Locks!Places \ {"idle"}
    BY <1>1, <1>4, <1>7 DEF Locks!Places
  <2> QED
    BY <1>8, <2>1, <2>2, <2>3, HandlesKeeps
<1>10. /\ Locks!WaitQueue = q /\ Locks!WaitQueue' = s.queue
       /\ \A u \in Threads : Locks!HeldMode(u) = h[u]
       /\ \A u \in Threads : Locks!HeldMode(u)' = s.held[u]
  BY <1>1, <1>8, <1>9, SeenStep DEF q, h
<1>11. Locks!Lock!Fits(mode)
  BY <1>1, <1>10 DEF Locks!Lock!Fits, Locks!Fits, h
<1> QED
  BY <1>1, <1>7, <1>9, <1>10, <1>11 DEF Locks!Lock!Grant, mode

\* stops waiting for it,
LEMMA CancelledIsCancel ==
    ASSUME OneEntry, NEW t \in Threads, Locks!Cancelled(t)
    PROVE  OneEntry' /\ Locks!Lock!Cancel(t)
<1> DEFINE q == sem[entry].queue
<1>1. at[t] = "waiting" /\ mine[t] = entry /\ entry \in Entries /\ entry # NoEntry
  BY DEF Locks!Cancelled, OneEntry, Locks!TypeOK
<1>2. sem[entry] \in Locks!Semaphore /\ q \in Seq(Locks!Waiter) /\ Matches(sem[entry])
  BY <1>1 DEF OneEntry, Locks!TypeOK, Locks!Semaphore
<1>3. PICK i \in DOMAIN q :
        /\ q[i].thread = t
        /\ sem' = [sem EXCEPT ![entry] = [sem[entry] EXCEPT !.queue = RemoveAt(q, i)]]
  <2>1. PICK i \in DOMAIN sem[mine[t]].queue :
          /\ sem[mine[t]].queue[i].thread = t
          /\ sem' = [sem EXCEPT ![mine[t]].queue = RemoveAt(@, i)]
    BY SameOperators, Zenon DEF Locks!Cancelled
  <2>2. sem' = [sem EXCEPT ![entry].queue = RemoveAt(@, i)]
    BY <1>1, <2>1
  <2>3. sem' = [sem EXCEPT ![entry] = [sem[entry] EXCEPT !.queue = RemoveAt(q, i)]]
    BY <1>1, <2>2 DEF OneEntry, Locks!TypeOK
  <2> QED
    BY <1>1, <2>1, <2>3
<1> DEFINE s == [sem[entry] EXCEPT !.queue = RemoveAt(q, i)]
<1>4. i \in 1..Len(q) /\ i \in DOMAIN q /\ q[i].thread = t
  BY <1>1, <1>2, <1>3
<1>5. /\ RemoveAt(q, i) \in Seq(Locks!Waiter) /\ EachOnce(RemoveAt(q, i))
      /\ \A u : IsIn(RemoveAt(q, i), u) <=> IsIn(q, u) /\ u # t
  BY <1>2, <1>4, RemoveOnce DEF Matches
<1>6. sem' = [sem EXCEPT ![entry] = s]
  BY <1>3
<1>7. s.queue = RemoveAt(q, i) /\ s.held = sem[entry].held /\ s \in Locks!Semaphore
  BY <1>2, <1>5 DEF Locks!Semaphore
<1> HIDE DEF s, q
<1>8. Handles(t, s, "cancelled")
  BY <1>6, <1>7 DEF Locks!Cancelled, Handles
<1>9. OneEntry'
  <2>1. \A u \in Threads :
          (IF u = t THEN "cancelled" ELSE at[u]) = "waiting" <=> IsIn(s.queue, u)
    BY <1>2, <1>5, <1>7 DEF Matches, q
  <2>2. \A u \in Threads :
          (IF u = t THEN "cancelled" ELSE at[u]) = "holding" <=> s.held[u] # "none"
    BY <1>1, <1>2, <1>7 DEF Matches
  <2>3. EachOnce(s.queue) /\ at[t] # "idle" /\ "cancelled" \in Locks!Places \ {"idle"}
    BY <1>1, <1>5, <1>7 DEF Locks!Places
  <2> QED
    BY <1>8, <2>1, <2>2, <2>3, HandlesKeeps
<1>10. /\ Locks!WaitQueue = q /\ Locks!WaitQueue' = s.queue
       /\ \A u \in Threads : Locks!HeldMode(u) = sem[entry].held[u]
       /\ \A u \in Threads : Locks!HeldMode(u)' = s.held[u]
  BY <1>1, <1>8, <1>9, SeenStep DEF q
<1>11. \E j \in DOMAIN Locks!WaitQueue :
         /\ Locks!WaitQueue[j].thread = t
         /\ Locks!WaitQueue' = RemoveAt(Locks!WaitQueue, j)
  <2>1. i \in DOMAIN Locks!WaitQueue /\ Locks!WaitQueue[i].thread = t
        /\ Locks!WaitQueue' = RemoveAt(Locks!WaitQueue, i)
    BY <1>4, <1>7, <1>10
  <2> QED
    BY <2>1
<1>12. [u \in Threads |-> Locks!HeldMode(u)]' = [u \in Threads |-> Locks!HeldMode(u)]
  BY <1>7, <1>10
<1>13. Locks!Lock!Cancel(t)
  BY <1>11, <1>12, SameOperators, Zenon DEF Locks!Lock!Cancel
<1> QED
  BY <1>9, <1>13

\* or gives it back.
LEMMA ReleaseIsRelease ==
    ASSUME OneEntry, NEW t \in Threads, Locks!ReleaseSemaphore(t)
    PROVE  OneEntry' /\ Locks!Lock!Release(t)
<1> DEFINE h == sem[entry].held
           s == [sem[entry] EXCEPT !.held = [h EXCEPT ![t] = "none"]]
<1>1. at[t] = "holding" /\ mine[t] = entry /\ entry \in Entries /\ entry # NoEntry
  BY DEF Locks!ReleaseSemaphore, OneEntry, Locks!TypeOK
<1>2. /\ sem[entry] \in Locks!Semaphore /\ Matches(sem[entry])
      /\ h \in [Threads -> {"shared", "exclusive", "none"}]
  BY <1>1 DEF OneEntry, Locks!TypeOK, Locks!Semaphore, Locks!Modes
<1>3. sem' = [sem EXCEPT ![entry] = s]
  BY <1>1 DEF Locks!ReleaseSemaphore, OneEntry, Locks!TypeOK
<1>4. /\ s \in Locks!Semaphore /\ s.queue = sem[entry].queue
      /\ \A u \in Threads : s.held[u] = IF u = t THEN "none" ELSE h[u]
  BY <1>2 DEF Locks!Semaphore, Locks!Modes
<1> HIDE DEF s
<1>5. Handles(t, s, "released")
  BY <1>3, <1>4 DEF Locks!ReleaseSemaphore, Handles
<1>6. OneEntry'
  <2>1. \A u \in Threads :
          (IF u = t THEN "released" ELSE at[u]) = "waiting" <=> IsIn(s.queue, u)
    BY <1>1, <1>2, <1>4 DEF Matches
  <2>2. \A u \in Threads :
          (IF u = t THEN "released" ELSE at[u]) = "holding" <=> s.held[u] # "none"
    BY <1>2, <1>4 DEF Matches
  <2>3. EachOnce(s.queue) /\ at[t] # "idle" /\ "released" \in Locks!Places \ {"idle"}
    BY <1>1, <1>2, <1>4 DEF Locks!Places, Matches
  <2> QED
    BY <1>5, <2>1, <2>2, <2>3, HandlesKeeps
<1>7. /\ Locks!WaitQueue = sem[entry].queue /\ Locks!WaitQueue' = s.queue
      /\ \A u \in Threads : Locks!HeldMode(u) = h[u]
      /\ \A u \in Threads : Locks!HeldMode(u)' = s.held[u]
  BY <1>1, <1>5, <1>6, SeenStep DEF h
<1>8. Locks!HeldMode(t) # "none"
  BY <1>1, <1>2, <1>7 DEF Matches
<1> QED
  BY <1>4, <1>6, <1>7, <1>8 DEF Locks!Lock!Release

-----------------------------------------------------------------------------
\* What is seen of the lock when the semaphore in the map is as it was.
LEMMA SeenStays ==
    ASSUME OneEntry, OneEntry',
           \/ entry' = entry /\ sem' = sem
           \/ /\ entry # NoEntry => sem[entry] = Locks!FreeSemaphore
              /\ entry' # NoEntry => sem'[entry'] = Locks!FreeSemaphore
    PROVE  UNCHANGED Locks!Lock!lockVars
<1>1. Seen /\ Seen'
  BY SeenLock, PTL
<1>2. Locks!FreeSemaphore.queue = << >>
      /\ \A t \in Threads : Locks!FreeSemaphore.held[t] = "none"
  BY DEF Locks!FreeSemaphore
<1>3. Locks!WaitQueue' = Locks!WaitQueue
  BY <1>1, <1>2 DEF Seen
<1>4. \A t \in Threads : Locks!HeldMode(t)' = Locks!HeldMode(t)
  BY <1>1, <1>2 DEF Seen
<1> QED
  BY <1>3, <1>4 DEF Locks!Lock!lockVars

\* The goroutines that have e.
Who(m, e) == {u \in Threads : m[u] = e}

LEMMA Counting ==
    Locks!CountsUsers <=>
        /\ \A e \in Entries : refs[e] = Cardinality(Who(mine, e))
        /\ entry # NoEntry => Who(mine, entry) # {}
BY SameOperators DEF Locks!CountsUsers, Locks!Users, Who

LEMMA CountingNext ==
    Locks!CountsUsers' <=>
        /\ \A e \in Entries : refs'[e] = Cardinality(Who(mine', e))
        /\ entry' # NoEntry => Who(mine', entry') # {}
<1>1. (Locks!CountsUsers <=>
         /\ \A e \in Entries : refs[e] = Cardinality(Who(mine, e))
         /\ entry # NoEntry => Who(mine, entry) # {})'
  BY Counting, PTL
<1> QED
  BY <1>1

LEMMA WhoIsFinite ==
    ASSUME Locks!ThreadsAssumption, NEW m, NEW e
    PROVE  IsFiniteSet(Who(m, e))
<1>1. Who(m, e) \in SUBSET Threads
  BY DEF Who
<1>2. IsFiniteSet(Threads)
  BY SameOperators DEF Locks!ThreadsAssumption
<1>3. \A S, T : IsFiniteSet(S) /\ T \in SUBSET S => IsFiniteSet(T)
  BY FS_Subset
<1> QED
  BY <1>1, <1>2, <1>3

\* Whoever finds the entry is counted, and the lock stays as it is.
LEMMA CaptureExistingStutters ==
    ASSUME Locks!ThreadsAssumption, Locks!EntriesAssumption, OneEntry, NEW t \in Threads,
           Locks!CaptureExisting(t)
    PROVE  OneEntry' /\ UNCHANGED Locks!Lock!lockVars
<1>1. /\ at[t] = "idle" /\ mine[t] = NoEntry /\ entry \in Entries /\ entry # NoEntry
      /\ refs' = [refs EXCEPT ![entry] = refs[entry] + 1]
      /\ mine' = [mine EXCEPT ![t] = entry]
      /\ at' = [at EXCEPT ![t] = "captured"]
      /\ entry' = entry /\ sem' = sem
  BY DEF Locks!CaptureExisting, OneEntry, Locks!TypeOK
<1>2. Locks!TypeOK'
  BY <1>1 DEF OneEntry, Locks!TypeOK, Locks!Places
<1>3. /\ Who(mine', entry) = Who(mine, entry) \cup {t} /\ t \notin Who(mine, entry)
      /\ \A e \in Entries \ {entry} : Who(mine', e) = Who(mine, e)
  BY <1>1 DEF OneEntry, Locks!TypeOK, Who
<1>4. Locks!CountsUsers'
  <2>1. /\ \A e \in Entries : refs[e] = Cardinality(Who(mine, e))
        /\ IsFiniteSet(Who(mine, entry))
    BY Counting, WhoIsFinite DEF OneEntry
  <2>2. Cardinality(Who(mine', entry)) = Cardinality(Who(mine, entry)) + 1
    BY <1>3, <2>1, FS_AddElement
  <2>3. \A e \in Entries : refs'[e] = IF e = entry THEN refs[e] + 1 ELSE refs[e]
    BY <1>1 DEF OneEntry, Locks!TypeOK
  <2>4. \A e \in Entries : refs'[e] = Cardinality(Who(mine', e))
    BY <1>3, <2>1, <2>2, <2>3
  <2> QED
    BY <1>1, <1>3, <2>4, CountingNext
<1>5. OneEntry'
  <2>1. \A u \in Threads : at'[u] = "idle" <=> mine'[u] = NoEntry
    BY <1>1 DEF OneEntry, Locks!TypeOK
  <2>2. \A u \in Threads : mine'[u] \in {NoEntry, entry'}
    BY <1>1 DEF OneEntry, Locks!TypeOK
  <2>3. Matches(sem[entry])'
    BY <1>1 DEF OneEntry, Locks!TypeOK, Matches
  <2> QED
    BY <1>2, <1>4, <2>1, <2>2, <2>3 DEF OneEntry
<1> QED
  BY <1>1, <1>5, SeenStays

\* Nobody has the entry that is put into the map, and its lock is free.
LEMMA CaptureNewStutters ==
    ASSUME Locks!EntriesAssumption, OneEntry, NEW t \in Threads, Locks!CaptureNew(t)
    PROVE  OneEntry' /\ UNCHANGED Locks!Lock!lockVars
<1>1. PICK e \in Entries :
        /\ entry' = e
        /\ refs' = [refs EXCEPT ![e] = 1]
        /\ sem' = [sem EXCEPT ![e] = Locks!FreeSemaphore]
        /\ mine' = [mine EXCEPT ![t] = e]
        /\ at' = [at EXCEPT ![t] = "captured"]
  BY DEF Locks!CaptureNew
<1>2. /\ entry = NoEntry /\ \A u \in Threads : at[u] = "idle" /\ mine[u] = NoEntry
      /\ e # NoEntry
  BY DEF Locks!CaptureNew, OneEntry, Locks!EntriesAssumption
<1>3. Locks!FreeSemaphore \in Locks!Semaphore
  BY DEF Locks!FreeSemaphore, Locks!Semaphore
<1>4. Locks!TypeOK'
  BY <1>1, <1>3 DEF OneEntry, Locks!TypeOK, Locks!Places
<1>5. /\ Who(mine', e) = {t}
      /\ \A f \in Entries \ {e} : Who(mine', f) = {} /\ Who(mine, f) = {}
  BY <1>1, <1>2 DEF OneEntry, Locks!TypeOK, Who, Locks!EntriesAssumption
<1>6. Locks!CountsUsers'
  <2>1. \A f \in Entries : refs[f] = Cardinality(Who(mine, f))
    BY Counting DEF OneEntry
  <2>2. \A f \in Entries : refs'[f] = IF f = e THEN 1 ELSE refs[f]
    BY <1>1 DEF OneEntry, Locks!TypeOK
  <2>3. Cardinality({t}) = 1
    BY FS_Singleton
  <2>4. \A f \in Entries : refs'[f] = Cardinality(Who(mine', f))
    BY <1>5, <2>1, <2>2, <2>3
  <2> QED
    BY <1>1, <1>5, <2>4, CountingNext
<1>7. sem'[e] = Locks!FreeSemaphore
  BY <1>1 DEF OneEntry, Locks!TypeOK
<1>8. OneEntry'
  <2>1. \A u \in Threads : at'[u] = "idle" <=> mine'[u] = NoEntry
    BY <1>1, <1>2 DEF OneEntry, Locks!TypeOK
  <2>2. \A u \in Threads : mine'[u] \in {NoEntry, entry'}
    BY <1>1, <1>2 DEF OneEntry, Locks!TypeOK
  <2>3. \A u \in Threads : at'[u] \in {"idle", "captured"}
    BY <1>1, <1>2 DEF OneEntry, Locks!TypeOK
  <2>4. Matches(sem[entry])'
    BY <1>1, <1>7, <2>3 DEF Matches, Locks!FreeSemaphore, EachOnce, IsIn
  <2> QED
    BY <1>4, <1>6, <2>1, <2>2, <2>4 DEF OneEntry
<1> QED
  BY <1>1, <1>2, <1>7, <1>8, SeenStays

\* Whoever leaves while others have the entry leaves it in the map; the last one
\* takes it out of the map, and it leaves a free lock behind.
LEMMA ReleaseReferenceStutters ==
    ASSUME Locks!ThreadsAssumption, Locks!EntriesAssumption, OneEntry, NEW t \in Threads,
           Locks!ReleaseReference(t)
    PROVE  OneEntry' /\ UNCHANGED Locks!Lock!lockVars
<1>1. /\ at[t] \in {"released", "cancelled"} /\ mine[t] = entry
      /\ entry \in Entries /\ entry # NoEntry
  BY DEF Locks!ReleaseReference, OneEntry, Locks!TypeOK
<1>2. /\ refs' = [refs EXCEPT ![entry] = refs[entry] - 1]
      /\ entry' = IF refs[entry] = 1 THEN NoEntry ELSE entry
      /\ mine' = [mine EXCEPT ![t] = NoEntry]
      /\ at' = [at EXCEPT ![t] = "idle"]
      /\ sem' = sem
  BY <1>1 DEF Locks!ReleaseReference
<1>3. /\ Who(mine', entry) = Who(mine, entry) \ {t} /\ t \in Who(mine, entry)
      /\ \A e \in Entries \ {entry} : Who(mine', e) = Who(mine, e)
  BY <1>1, <1>2 DEF OneEntry, Locks!TypeOK, Who, Locks!EntriesAssumption
<1>4. /\ \A e \in Entries : refs[e] = Cardinality(Who(mine, e))
      /\ IsFiniteSet(Who(mine, entry)) /\ IsFiniteSet(Who(mine', entry))
  BY Counting, WhoIsFinite DEF OneEntry
<1>5. Cardinality(Who(mine', entry)) = Cardinality(Who(mine, entry)) - 1
  BY <1>3, <1>4, FS_RemoveElement
<1>6. Cardinality(Who(mine', entry)) \in Nat
      /\ (Cardinality(Who(mine', entry)) = 0 <=> Who(mine', entry) = {})
  BY <1>4, FS_CardinalityType, FS_EmptySet
<1>7. \A e \in Entries : refs'[e] = IF e = entry THEN refs[e] - 1 ELSE refs[e]
  BY <1>2 DEF OneEntry, Locks!TypeOK
<1>8. \A e \in Entries : refs'[e] = Cardinality(Who(mine', e))
  BY <1>3, <1>4, <1>5, <1>7
<1>9. refs[entry] \in Nat /\ refs[entry] - 1 = Cardinality(Who(mine', entry))
  BY <1>1, <1>4, <1>5 DEF OneEntry, Locks!TypeOK
<1>15. refs[entry] = 1 <=> Who(mine', entry) = {}
  BY <1>6, <1>9
<1>10. Locks!TypeOK'
  BY <1>1, <1>2, <1>6, <1>9 DEF OneEntry, Locks!TypeOK, Locks!Places
<1>11. Locks!CountsUsers'
  <2>1. entry' # NoEntry => Who(mine', entry') # {}
    BY <1>2, <1>15
  <2> QED
    BY <1>8, <2>1, CountingNext
<1>12. \A u \in Threads : mine'[u] = (IF u = t THEN NoEntry ELSE mine[u])
                          /\ at'[u] = (IF u = t THEN "idle" ELSE at[u])
  BY <1>2 DEF OneEntry, Locks!TypeOK
<1>13. CASE refs[entry] = 1
  <2>1. entry' = NoEntry /\ Who(mine', entry) = {}
    BY <1>2, <1>13, <1>15
  <2>2. \A u \in Threads : u # t => mine[u] = NoEntry /\ at[u] = "idle"
    BY <1>12, <2>1 DEF OneEntry, Who
  <2>3. OneEntry'
    BY <1>10, <1>11, <1>12, <2>1, <2>2 DEF OneEntry
  <2>4. sem[entry] \in Locks!Semaphore /\ Matches(sem[entry])
    BY <1>1 DEF OneEntry, Locks!TypeOK
  <2>5. \A u \in Threads : at[u] # "waiting" /\ at[u] # "holding"
    BY <1>1, <2>2
  <2>6. sem[entry].queue = << >>
    <3>1. SUFFICES ASSUME sem[entry].queue # << >> PROVE FALSE
      OBVIOUS
    <3>2. sem[entry].queue \in Seq(Locks!Waiter)
      BY <2>4 DEF Locks!Semaphore
    <3>3. 1 \in 1..Len(sem[entry].queue) /\ sem[entry].queue[1] \in Locks!Waiter
      BY <3>1, <3>2
    <3>4. sem[entry].queue[1].thread \in Threads
      BY <3>3 DEF Locks!Waiter
    <3>5. IsIn(sem[entry].queue, sem[entry].queue[1].thread)
      BY <3>3 DEF IsIn
    <3> QED
      BY <2>4, <2>5, <3>4, <3>5 DEF Matches
  <2>7. sem[entry].held = [u \in Threads |-> "none"]
    <3>1. \A u \in Threads : sem[entry].held[u] = "none"
      BY <2>4, <2>5 DEF Matches
    <3> QED
      BY <2>4, <3>1 DEF Locks!Semaphore
  <2>8. sem[entry] = Locks!FreeSemaphore
    BY <2>4, <2>6, <2>7 DEF Locks!Semaphore, Locks!FreeSemaphore
  <2> QED
    BY <2>1, <2>3, <2>8, SeenStays
<1>14. CASE refs[entry] # 1
  <2>1. entry' = entry
    BY <1>2, <1>14
  <2>2. \A u \in Threads : at'[u] = "idle" <=> mine'[u] = NoEntry
    BY <1>12 DEF OneEntry
  <2>3. \A u \in Threads : mine'[u] \in {NoEntry, entry'}
    BY <1>12, <2>1 DEF OneEntry
  <2>4. Matches(sem[entry])'
    BY <1>1, <1>2, <1>12, <2>1 DEF OneEntry, Matches
  <2>5. OneEntry'
    BY <1>10, <1>11, <2>2, <2>3, <2>4 DEF OneEntry
  <2> QED
    BY <1>2, <2>1, <2>5, SeenStays
<1> QED
  BY <1>13, <1>14

-----------------------------------------------------------------------------
LEMMA OneEntryInit ==
    ASSUME Locks!EntriesAssumption, Locks!Init
    PROVE  OneEntry /\ Locks!Lock!Init
<1>1. /\ entry = NoEntry
      /\ \A u \in Threads : mine[u] = NoEntry /\ at[u] = "idle"
      /\ \A e \in Entries : refs[e] = 0 /\ sem[e] = Locks!FreeSemaphore
  BY DEF Locks!Init
<1>2. Locks!FreeSemaphore \in Locks!Semaphore
  BY DEF Locks!FreeSemaphore, Locks!Semaphore
<1>3. Locks!TypeOK
  BY <1>2 DEF Locks!Init, Locks!TypeOK, Locks!Places
<1>4. Locks!CountsUsers
  <2>1. \A e \in Entries : Who(mine, e) = {}
    BY <1>1 DEF Who, Locks!EntriesAssumption
  <2>2. \A e \in Entries : refs[e] = Cardinality(Who(mine, e))
    BY <1>1, <2>1, FS_EmptySet
  <2> QED
    BY <1>1, <2>2, Counting
<1>5. OneEntry
  BY <1>1, <1>3, <1>4 DEF OneEntry
<1>6. Seen
  BY <1>5, SeenLock
<1>7. Locks!Lock!Init
  BY <1>1, <1>6 DEF Seen, Locks!Lock!Init
<1> QED
  BY <1>5, <1>7

LEMMA OneEntryStep ==
    ASSUME Locks!ThreadsAssumption, Locks!EntriesAssumption, OneEntry,
           [Locks!Next]_Locks!vars
    PROVE  OneEntry' /\ [Locks!Lock!Next]_Locks!Lock!lockVars
<1>1. ASSUME NEW t \in Threads, Locks!CaptureExisting(t)
      PROVE  OneEntry' /\ [Locks!Lock!Next]_Locks!Lock!lockVars
  BY <1>1, CaptureExistingStutters
<1>2. ASSUME NEW t \in Threads, Locks!CaptureNew(t)
      PROVE  OneEntry' /\ [Locks!Lock!Next]_Locks!Lock!lockVars
  BY <1>2, CaptureNewStutters
<1>3. ASSUME NEW t \in Threads, NEW mode \in Locks!Modes, Locks!CallAcquire(t, mode)
      PROVE  OneEntry' /\ [Locks!Lock!Next]_Locks!Lock!lockVars
  <2>1. mode \in Locks!Lock!Modes
    BY DEF Locks!Modes, Locks!Lock!Modes
  <2> QED
    BY <1>3, <2>1, CallAcquireIsRequest DEF Locks!Lock!Next
<1>4. ASSUME NEW t \in Threads, Locks!Acquired(t)
      PROVE  OneEntry' /\ [Locks!Lock!Next]_Locks!Lock!lockVars
  BY <1>4, AcquiredIsGrant DEF Locks!Lock!Next
<1>5. ASSUME NEW t \in Threads, Locks!Cancelled(t)
      PROVE  OneEntry' /\ [Locks!Lock!Next]_Locks!Lock!lockVars
  BY <1>5, CancelledIsCancel DEF Locks!Lock!Next
<1>6. ASSUME NEW t \in Threads, Locks!ReleaseSemaphore(t)
      PROVE  OneEntry' /\ [Locks!Lock!Next]_Locks!Lock!lockVars
  BY <1>6, ReleaseIsRelease DEF Locks!Lock!Next
<1>7. ASSUME NEW t \in Threads, Locks!ReleaseReference(t)
      PROVE  OneEntry' /\ [Locks!Lock!Next]_Locks!Lock!lockVars
  BY <1>7, ReleaseReferenceStutters
<1>8. CASE UNCHANGED Locks!vars
  <2>1. UNCHANGED <<entry, refs, sem, mine, at>>
    BY <1>8 DEF Locks!vars
  <2>2. OneEntry'
    BY <2>1 DEF OneEntry, Locks!TypeOK, Locks!CountsUsers, Locks!Users, Matches
  <2>3. UNCHANGED Locks!Lock!lockVars
    BY <2>1, <2>2, SeenStays
  <2> QED
    BY <2>2, <2>3
<1> QED
  BY <1>1, <1>2, <1>3, <1>4, <1>5, <1>6, <1>7, <1>8 DEF Locks!Next

(***************************************************************************)
(* The reference count of an entry is the number of goroutines that have   *)
(* it (modelOperationLocks), however they come, wait, give up and leave.   *)
(***************************************************************************)
THEOREM CountMatchesUsers ==
    ASSUME Locks!ThreadsAssumption, Locks!EntriesAssumption
    PROVE  Locks!Spec => []Locks!CountsUsers
<1>1. Locks!Init => OneEntry
  BY OneEntryInit
<1>2. OneEntry /\ [Locks!Next]_Locks!vars => OneEntry'
  BY OneEntryStep
<1>3. OneEntry => Locks!CountsUsers
  BY DEF OneEntry
<1> QED
  BY <1>1, <1>2, <1>3, PTL DEF Locks!Spec

(***************************************************************************)
(* The entries that acquireContext and releaseReference create and drop    *)
(* are together one first-come-first-served readers/writer lock.           *)
(***************************************************************************)
THEOREM EntriesAreOneLock ==
    ASSUME Locks!ThreadsAssumption, Locks!EntriesAssumption
    PROVE  Locks!Spec => Locks!IsOneLock
<1>1. Locks!Init => OneEntry /\ Locks!Lock!Init
  BY OneEntryInit
<1>2. OneEntry /\ [Locks!Next]_Locks!vars
        => OneEntry' /\ [Locks!Lock!Next]_Locks!Lock!lockVars
  BY OneEntryStep
<1> QED
  BY <1>1, <1>2, PTL DEF Locks!Spec, Locks!IsOneLock, Locks!Lock!Spec

\* A step changes the mode of one goroutine at most, to one that fits.
LEMMA ExclusionStep ==
    ASSUME Locks!Lock!Exclusion, [Locks!Lock!Next]_Locks!Lock!lockVars
    PROVE  Locks!Lock!Exclusion'
<1> DEFINE h == [t \in Threads |-> Locks!HeldMode(t)]
           Changes == \E t \in Threads : \E m :
                        /\ h' = [h EXCEPT ![t] = m]
                        /\ m # "none" =>
                             IF m = "exclusive" THEN \A u \in Threads : h[u] = "none"
                                                ELSE \A u \in Threads : h[u] # "exclusive"
<1>1. Locks!Lock!Exclusion <=>
        \A t, u \in Threads : t # u /\ h[t] = "exclusive" => h[u] = "none"
  BY Zenon DEF Locks!Lock!Exclusion
<1>2. Locks!Lock!Exclusion' <=>
        \A t, u \in Threads : t # u /\ h'[t] = "exclusive" => h'[u] = "none"
  BY Zenon DEF Locks!Lock!Exclusion
<1>3. h' = h \/ Changes
  <2>1. ASSUME NEW t \in Threads, Locks!Lock!Grant(t) PROVE Changes
    BY <2>1, Zenon DEF Locks!Lock!Grant, Locks!Lock!Fits
  <2>2. ASSUME NEW t \in Threads, Locks!Lock!Release(t) PROVE Changes
    BY <2>2, Zenon DEF Locks!Lock!Release
  <2> QED
    BY <2>1, <2>2 DEF Locks!Lock!Next, Locks!Lock!lockVars, Locks!Lock!Request,
                      Locks!Lock!Cancel
<1>4. DOMAIN h = Threads
  OBVIOUS
<1> HIDE DEF h
<1> QED
  BY <1>1, <1>2, <1>3, <1>4

(***************************************************************************)
(* A goroutine that holds a model's operation lock exclusively is alone,   *)
(* although the entries that carry the lock come and go: a destructive     *)
(* lifecycle operation overlaps nothing else on its model.                 *)
(***************************************************************************)
THEOREM ExclusiveHolderIsAlone ==
    ASSUME Locks!ThreadsAssumption, Locks!EntriesAssumption
    PROVE  Locks!Spec => []Locks!Lock!Exclusion
<1>1. Locks!Lock!Init => Locks!Lock!Exclusion
  BY DEF Locks!Lock!Init, Locks!Lock!Exclusion
<1> QED
  BY <1>1, ExclusionStep, EntriesAreOneLock, PTL DEF Locks!IsOneLock, Locks!Lock!Spec
=============================================================================
