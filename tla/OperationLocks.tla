--------------------------- MODULE OperationLocks ---------------------------
(***************************************************************************)
(* modelOperationLocks (pkg/model/operation_locks.go) for one model ID:    *)
(* the map entry that holds the model's semaphore is created by the first  *)
(* goroutine that needs it, counted by every one that uses it, and dropped *)
(* from the map by the last.  The lock is only a lock as long as everyone  *)
(* uses the same entry, so the reference count carries the exclusion.      *)
(* What the semaphores of the entries do is WeightedLock.                  *)
(***************************************************************************)
EXTENDS SequencesExt, FiniteSetsExt, Integers

CONSTANTS
    Threads,            \* goroutines that call acquireContext
    Entries,            \* modelOperationLock objects (reused once unreachable)
    NoEntry

ASSUME EntriesAssumption == NoEntry \notin Entries

ASSUME ThreadsAssumption == IsFiniteSet(Threads)

VARIABLES
    entry,              \* entries[modelID], NoEntry when absent
    refs,               \* refs[e]: the reference count of entry e
    sem,                \* sem[e]: queue and holders of the semaphore of e
    mine,               \* mine[t]: the entry a call of t captured
    at                  \* at[t]: where t is in acquireContext and its release

vars == <<entry, refs, sem, mine, at>>

Modes == {"shared", "exclusive"}

Waiter == [thread : Threads, mode : Modes]

Semaphore == [queue : Seq(Waiter), held : [Threads -> Modes \cup {"none"}]]

FreeSemaphore == [queue |-> << >>, held |-> [t \in Threads |-> "none"]]

Places == {"idle", "captured", "waiting", "holding", "released", "cancelled"}

TypeOK ==
    /\ entry \in Entries \cup {NoEntry}
    /\ refs \in [Entries -> Nat]
    /\ sem \in [Entries -> Semaphore]
    /\ mine \in [Threads -> Entries \cup {NoEntry}]
    /\ at \in [Threads -> Places]

Init ==
    /\ entry = NoEntry
    /\ refs = [e \in Entries |-> 0]
    /\ sem = [e \in Entries |-> FreeSemaphore]
    /\ mine = [t \in Threads |-> NoEntry]
    /\ at = [t \in Threads |-> "idle"]

Users(e) == {t \in Threads : mine[t] = e}

\* A newly allocated object: one that neither the map nor a call refers to.
Unreachable(e) == entry # e /\ Users(e) = {}

-----------------------------------------------------------------------------
(***************************************************************************)
(* acquireContext up to mu.Unlock: find or create the entry, count it.     *)
(***************************************************************************)
CaptureExisting(t) ==
    /\ at[t] = "idle"
    /\ entry # NoEntry
    /\ refs' = [refs EXCEPT ![entry] = @ + 1]
    /\ mine' = [mine EXCEPT ![t] = entry]
    /\ at' = [at EXCEPT ![t] = "captured"]
    /\ UNCHANGED <<entry, sem>>

CaptureNew(t) ==
    /\ at[t] = "idle"
    /\ entry = NoEntry
    /\ \E e \in Entries :
        /\ Unreachable(e)
        /\ entry' = e
        /\ refs' = [refs EXCEPT ![e] = 1]
        /\ sem' = [sem EXCEPT ![e] = FreeSemaphore]
        /\ mine' = [mine EXCEPT ![t] = e]
        /\ at' = [at EXCEPT ![t] = "captured"]

\* entry.sem.Acquire is called with the weight of the mode.
CallAcquire(t, mode) ==
    /\ at[t] = "captured"
    /\ sem' = [sem EXCEPT ![mine[t]].queue =
                   Append(@, [thread |-> t, mode |-> mode])]
    /\ at' = [at EXCEPT ![t] = "waiting"]
    /\ UNCHANGED <<entry, refs, mine>>

\* Whether semaphore s has the weight that this mode takes.
Fits(s, mode) ==
    IF mode = "exclusive" THEN \A u \in Threads : s.held[u] = "none"
                          ELSE \A u \in Threads : s.held[u] # "exclusive"

\* Acquire returns nil.
Acquired(t) ==
    LET s == sem[mine[t]]
    IN  /\ at[t] = "waiting"
        /\ s.queue # << >>
        /\ Head(s.queue).thread = t
        /\ Fits(s, Head(s.queue).mode)
        /\ sem' = [sem EXCEPT ![mine[t]] =
                       [queue |-> Tail(s.queue),
                        held |-> [s.held EXCEPT ![t] = Head(s.queue).mode]]]
        /\ at' = [at EXCEPT ![t] = "holding"]
        /\ UNCHANGED <<entry, refs, mine>>

\* Acquire returns ctx.Err().
Cancelled(t) ==
    /\ at[t] = "waiting"
    /\ \E i \in DOMAIN sem[mine[t]].queue :
        /\ sem[mine[t]].queue[i].thread = t
        /\ sem' = [sem EXCEPT ![mine[t]].queue = RemoveAt(@, i)]
    /\ at' = [at EXCEPT ![t] = "cancelled"]
    /\ UNCHANGED <<entry, refs, mine>>

\* Wrong form: the semaphore is not released.
ReleaseNothing(t) ==
    /\ at[t] = "holding"
    /\ at' = [at EXCEPT ![t] = "released"]
    /\ UNCHANGED <<entry, refs, sem, mine>>

\* The first half of the returned release function.
ReleaseSemaphore(t) ==
    /\ at[t] = "holding"
    /\ sem' = [sem EXCEPT ![mine[t]].held[t] = "none"]
    /\ at' = [at EXCEPT ![t] = "released"]
    /\ UNCHANGED <<entry, refs, mine>>

\* Wrong form: every user drops the entry from the map.
ReleaseAlwaysDrops(t) ==
    /\ at[t] \in {"released", "cancelled"}
    /\ refs' = [refs EXCEPT ![mine[t]] = @ - 1]
    /\ entry' = NoEntry
    /\ mine' = [mine EXCEPT ![t] = NoEntry]
    /\ at' = [at EXCEPT ![t] = "idle"]
    /\ UNCHANGED sem

\* releaseReference: the last user drops the entry from the map.
ReleaseReference(t) ==
    /\ at[t] \in {"released", "cancelled"}
    /\ refs' = [refs EXCEPT ![mine[t]] = @ - 1]
    /\ entry' = IF refs[mine[t]] = 1 THEN NoEntry ELSE entry
    /\ mine' = [mine EXCEPT ![t] = NoEntry]
    /\ at' = [at EXCEPT ![t] = "idle"]
    /\ UNCHANGED sem

Next ==
    \E t \in Threads :
        \/ CaptureExisting(t)
        \/ CaptureNew(t)
        \/ \E mode \in Modes : CallAcquire(t, mode)
        \/ Acquired(t)
        \/ Cancelled(t)
        \/ ReleaseSemaphore(t)
        \/ ReleaseReference(t)

(***************************************************************************)
(* A goroutine that is not asked to wait runs on, and one that is granted  *)
(* the lock eventually gives it back.  Arrivals and cancellations are not  *)
(* fair: nobody has to call, and no context has to end.                    *)
(***************************************************************************)
Fairness ==
    \A t \in Threads :
        /\ WF_vars(\E mode \in Modes : CallAcquire(t, mode))
        /\ WF_vars(Acquired(t))
        /\ WF_vars(ReleaseSemaphore(t))
        /\ WF_vars(ReleaseReference(t))

Spec == Init /\ [][Next]_vars

FairSpec == Spec /\ Fairness

-----------------------------------------------------------------------------
(***************************************************************************)
(* The reference count is the number of goroutines that captured the       *)
(* entry, and an entry that is in the map is in use: model IDs observed    *)
(* from requests do not accumulate (comment of modelOperationLocks).       *)
(***************************************************************************)
CountsUsers ==
    /\ \A e \in Entries : refs[e] = Cardinality(Users(e))
    /\ entry # NoEntry => Users(entry) # {}

\* The lock that the goroutines see, whatever entry they captured.
HeldMode(t) == IF mine[t] = NoEntry THEN "none" ELSE sem[mine[t]].held[t]

\* The queue that the goroutines see.
WaitQueue == IF entry = NoEntry THEN << >> ELSE sem[entry].queue

(***************************************************************************)
(* The refcounted map behaves as one first-come-first-served lock that is  *)
(* always there.                                                           *)
(***************************************************************************)
Lock == INSTANCE WeightedLock
            WITH queue <- WaitQueue, held <- [t \in Threads |-> HeldMode(t)]

IsOneLock == Lock!Spec

(***************************************************************************)
(* Nobody is starved: a goroutine that called Acquire gets the lock, or    *)
(* its context ends, although others keep arriving (operation_locks.go     *)
(* relies on the semaphore's order).                                       *)
(***************************************************************************)
NoStarvation ==
    \A t \in Threads : at[t] = "waiting" ~> at[t] \in {"holding", "cancelled"}
=============================================================================
