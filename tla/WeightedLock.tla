---------------------------- MODULE WeightedLock ----------------------------
(***************************************************************************)
(* The semaphore.Weighted(MaxInt64) of golang.org/x/sync, as               *)
(* operation_locks.go uses it: a shared acquisition takes weight 1, an     *)
(* exclusive one the whole weight, so the semaphore is a readers/writer    *)
(* lock.  Waiters are served strictly in arrival order: a waiter that does *)
(* not fit yet holds back everyone behind it, and a waiter whose context   *)
(* ends leaves the queue.                                                  *)
(***************************************************************************)
EXTENDS SequencesExt

CONSTANT Threads        \* goroutines that use the lock

VARIABLES
    queue,              \* blocked Acquire calls, oldest first
    held                \* held[t]: the mode in which goroutine t holds the lock

lockVars == <<queue, held>>

Modes == {"shared", "exclusive"}

Waiter == [thread : Threads, mode : Modes]

TypeOK ==
    /\ queue \in Seq(Waiter)
    /\ held \in [Threads -> Modes \cup {"none"}]

Waiters == {queue[i].thread : i \in DOMAIN queue}

Init ==
    /\ queue = << >>
    /\ held = [t \in Threads |-> "none"]

(***************************************************************************)
(* A goroutine calls Acquire; it neither holds the lock nor waits for it.  *)
(***************************************************************************)
Request(t, mode) ==
    /\ held[t] = "none"
    /\ t \notin Waiters
    /\ queue' = Append(queue, [thread |-> t, mode |-> mode])
    /\ UNCHANGED held

\* Whether the free weight suffices for an acquisition in this mode.
Fits(mode) ==
    IF mode = "exclusive" THEN \A u \in Threads : held[u] = "none"
                          ELSE \A u \in Threads : held[u] # "exclusive"

\* Acquire returns to t, the oldest waiter.
Grant(t) ==
    /\ queue # << >>
    /\ Head(queue).thread = t
    /\ Fits(Head(queue).mode)
    /\ held' = [held EXCEPT ![t] = Head(queue).mode]
    /\ queue' = Tail(queue)

\* Acquire returns the context's error to t, which was still waiting.
Cancel(t) ==
    \E i \in DOMAIN queue :
        /\ queue[i].thread = t
        /\ queue' = RemoveAt(queue, i)
        /\ UNCHANGED held

Release(t) ==
    /\ held[t] # "none"
    /\ held' = [held EXCEPT ![t] = "none"]
    /\ UNCHANGED queue

Next ==
    \E t \in Threads :
        \/ \E mode \in Modes : Request(t, mode)
        \/ Grant(t)
        \/ Cancel(t)
        \/ Release(t)

Spec == Init /\ [][Next]_lockVars

-----------------------------------------------------------------------------
(***************************************************************************)
(* An exclusive holder is alone: the destructive lifecycle operations that *)
(* modelOperationLocks serializes never overlap anything else.             *)
(***************************************************************************)
Exclusion ==
    \A t, u \in Threads :
        t # u /\ held[t] = "exclusive" => held[u] = "none"
=============================================================================
