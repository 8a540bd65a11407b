----------------------------- MODULE GalleryOps -----------------------------
(***************************************************************************)
(* A gallery operation seen by several frontends (core/services/galleryop, *)
(* core/services/distributed/gallery.go).  One frontend admits the         *)
(* installation, which waits for that frontend's worker and runs there;    *)
(* every frontend keeps a status of it, told by broadcasts, and the table  *)
(* gallery_operations has a row of it.  Administrators stop it on any      *)
(* frontend, frontends crash and boot, and each of them reaps a row that   *)
(* nobody has written for half an hour.                                    *)
(*                                                                         *)
(* Other operations appear as what they do to this one: they keep the      *)
(* worker busy, and FindDuplicate may find one of the same element.        *)
(* UpdateStatus is three steps: the map under the mutex, the row, the      *)
(* broadcast.  A broadcast goes to every subscribed frontend, the sender   *)
(* included, in one order; statuses and stops are two subscriptions        *)
(* without an order between them.                                          *)
(***************************************************************************)
EXTENDS Sequences, Integers

CONSTANTS
    Frontends,
    Home,           \* the frontend that admits the operation and runs it
    WithContext,    \* whether it comes from the UI, with a context and a cached key
    Stops,          \* requests to cancel or pause it
    MaxTicks,       \* bound on the progress reports of the installation
    MaxLag,         \* bound on the statuses that a frontend is behind
    MaxCrashes      \* bound on the crashes

ASSUME GalleryOpsAssumption ==
    /\ Home \in Frontends
    /\ WithContext \in BOOLEAN
    /\ {MaxTicks, MaxCrashes} \subseteq Nat
    /\ MaxLag \in Nat \ {0}

VARIABLES
    status,         \* status[f]: the operation in g.statuses of f
    cancellations,  \* frontends that have its functions in g.cancellations
    cancelled,      \* whether its context is cancelled
    row,            \* its row
    progress,       \* progress[f]: broadcast statuses that f has not merged
    cancels,        \* cancels[f]: number of broadcast stops that f has not applied
    op,             \* its admission, delivery and handler
    stop,           \* stop[s]: the local state of a stop
    reaper,         \* reaper[f]: the step of f's reaper
    life,           \* life[f]: whether f is up, down, or booting
    crashes,        \* number of crashes so far
    heard,          \* history: frontends that were told that it has ended
    unheard         \* history: it was given up without a word to everyone

messages == <<progress, cancels>>
history == <<heard, unheard>>
vars == <<status, cancellations, cancelled, row, messages, op, stop, reaper, life, crashes,
          history>>

-----------------------------------------------------------------------------
Processed == {"completed", "failed", "cancelled"}

Settled == {"completed", "cancelled"}           \* settledStatuses

Said == Processed \cup {"active"}

\* by: the UpdateStatus that has put this object into the map and still uses it.
NoStatus == [state |-> "none", by |-> "none"]

\* stale: updated_at is half an hour ago.
NoRow == [state |-> "none", stale |-> FALSE]

\* say: the status being written; then: where the handler goes on.
NoOp == [at |-> "idle", say |-> "none", then |-> "idle", ticks |-> 0]

\* owned: the frontend had the functions; live: they were stored somewhere, the row
\* was active and fresh, and no reaper was at work on it.
NoStop == [at |-> "idle", frontend |-> "none", owned |-> FALSE, live |-> FALSE]

Writing == {"write", "persist", "publish"}

OpSteps == {"idle", "admitted", "waiting", "create", "dedup", "check", "install", "unwind",
            "error", "end", "done", "lost"}

TypeOK ==
    /\ status \in [Frontends -> [state : Said \cup {"none"}, by : {"none", "op", "reaper"}]]
    /\ cancellations \subseteq Frontends
    /\ cancelled \in BOOLEAN
    /\ row \in [state : {"none", "pending"} \cup Processed, stale : BOOLEAN]
    /\ DOMAIN progress = Frontends
    /\ \A f \in Frontends : progress[f] \in Seq(Said) /\ Len(progress[f]) <= MaxLag
    /\ cancels \in [Frontends -> Nat]
    /\ op \in [at : OpSteps \cup Writing, say : Said \cup {"none"}, then : OpSteps,
               ticks : 0..MaxTicks]
    /\ stop \in [Stops -> [at : {"idle", "persist", "publish", "done", "lost"},
                           frontend : Frontends \cup {"none"},
                           owned : BOOLEAN, live : BOOLEAN]]
    /\ reaper \in [Frontends -> {"idle", "clean", "check"} \cup Writing]
    /\ life \in [Frontends -> {"up", "down", "cleaned", "hydrated"}]
    /\ crashes \in 0..MaxCrashes
    /\ heard \subseteq Frontends /\ unheard \in BOOLEAN

Init ==
    /\ status = [f \in Frontends |-> NoStatus]
    /\ cancellations = {}
    /\ cancelled = FALSE
    /\ row = NoRow
    /\ progress = [f \in Frontends |-> <<>>]
    /\ cancels = [f \in Frontends |-> 0]
    /\ op = NoOp
    /\ stop = [s \in Stops |-> NoStop]
    /\ reaper = [f \in Frontends |-> "idle"]
    /\ life = [f \in Frontends |-> "up"]
    /\ crashes = 0
    /\ heard = {}
    /\ unheard = FALSE

Up == {f \in Frontends : life[f] = "up"}

\* The handler goes on at step, or says a status first.
Goto(step) == op' = [op EXCEPT !.at = step]

Say(state, step) == op' = [at |-> "write", say |-> state, then |-> step, ticks |-> 0]

-----------------------------------------------------------------------------
(***************************************************************************)
(* UpdateStatus(say) by the handler or the reaper of f.  A stop that finds *)
(* the new object in the map changes it under the writer's hands.          *)
(***************************************************************************)
Remember(f, state, me) == status' = [status EXCEPT ![f] = [state |-> state, by |-> me]]

\* What the row and the broadcast are written from.
Current(f, say, me) ==
    {say} \cup {x \in {"cancelled"} : status[f] = [state |-> x, by |-> me]}

\* Wrong form: a failure is final too.
PersistOnce(state) ==
    row' = IF row.state = "none" \/ (state \in Processed /\ row.state \in Processed) THEN row
           ELSE [state |-> IF state \in Processed THEN state ELSE row.state, stale |-> FALSE]

\* GalleryStore.UpdateStatus of a processed state, or UpdateProgress.
Persist(state) ==
    row' = IF row.state = "none" \/ (state \in Processed /\ row.state \in Settled) THEN row
           ELSE [state |-> IF state \in Processed THEN state ELSE row.state, stale |-> FALSE]

\* A frontend that is booting does not hear; what it has hydrated stays.
Publish(f, state, me) ==
    /\ \A g \in Up : Len(progress[g]) < MaxLag
    /\ progress' = [g \in Frontends |-> IF g \in Up THEN Append(progress[g], state)
                                                    ELSE progress[g]]
    /\ heard' = IF state \in Processed THEN Up ELSE heard
    /\ unheard' = (unheard \/ \E g \in Frontends : life[g] = "hydrated")
    /\ status' = [status EXCEPT ![f].by = IF @ = me THEN "none" ELSE @]

OpRemembers ==
    /\ op.at = "write"
    /\ Remember(Home, op.say, "op")
    /\ Goto("persist")
    /\ UNCHANGED <<cancellations, cancelled, row, messages, stop, reaper, life, crashes,
                   history>>

OpPersists ==
    /\ op.at = "persist"
    /\ \E state \in Current(Home, op.say, "op") : Persist(state)
    /\ Goto("publish")
    /\ UNCHANGED <<status, cancellations, cancelled, messages, stop, reaper, life, crashes,
                   history>>

OpPublishes ==
    /\ op.at = "publish"
    /\ \E state \in Current(Home, op.say, "op") : Publish(Home, state, "op")
    /\ Goto(op.then)
    /\ UNCHANGED <<cancellations, cancelled, row, cancels, stop, reaper, life, crashes>>

\* The wildcard subscription: mergeStatus overwrites whatever there is.
MergeStatus(f) ==
    /\ progress[f] # <<>>
    /\ Remember(f, Head(progress[f]), "none")
    /\ progress' = [progress EXCEPT ![f] = Tail(@)]
    /\ UNCHANGED <<cancellations, cancelled, row, cancels, op, stop, reaper, life, crashes,
                   history>>

-----------------------------------------------------------------------------
(***************************************************************************)
(* The operation: admitted by an HTTP handler, delivered to the worker,    *)
(* run by modelHandler or backendHandler.                                  *)
(***************************************************************************)
\* OpCache.Set writes the cached key to a new row, and tells the peers.
Admit ==
    /\ op.at = "idle"
    /\ Home \in Up
    /\ row' = IF WithContext THEN [row EXCEPT !.state = "pending"] ELSE row
    /\ Goto("admitted")
    /\ UNCHANGED <<status, cancellations, cancelled, messages, stop, reaper, life, crashes,
                   history>>

\* Wrong form: the functions are stored when the worker takes the operation.
EnqueueUnstored ==
    /\ op.at = "admitted"
    /\ Say("active", "waiting")
    /\ UNCHANGED <<status, cancellations, cancelled, row, messages, stop, reaper, life,
                   crashes, history>>

\* StoreCancellationActions, and markQueued.
Enqueue ==
    /\ op.at = "admitted"
    /\ cancellations' = IF WithContext THEN cancellations \cup {Home} ELSE cancellations
    /\ Say("active", "waiting")
    /\ UNCHANGED <<status, cancelled, row, messages, stop, reaper, life, crashes, history>>

\* abandonQueued: a status that has ended stays.
AbandonQueued ==
    /\ op.at = "waiting"
    /\ WithContext /\ cancelled
    /\ IF status[Home].state \in Processed THEN Goto("done") ELSE Say("failed", "done")
    /\ UNCHANGED <<status, cancellations, cancelled, row, messages, stop, reaper, life,
                   crashes, history>>

\* The worker takes the operation, makes a context if it has none, and stores it.
Deliver ==
    /\ op.at = "waiting"
    /\ cancellations' = cancellations \cup {Home}
    /\ Goto("create")
    /\ UNCHANGED <<status, cancelled, row, messages, stop, reaper, life, crashes, history>>

\* Wrong form: the upsert opens any row.
CreateRowAnew ==
    /\ op.at = "create"
    /\ row' = [state |-> "pending", stale |-> FALSE]
    /\ Goto("dedup")
    /\ UNCHANGED <<status, cancellations, cancelled, messages, stop, reaper, life, crashes,
                   history>>

\* A settled row keeps its state; a row that was reaped opens again.
CreateRow ==
    /\ op.at = "create"
    /\ row' = IF row.state \in Settled THEN row ELSE [state |-> "pending", stale |-> FALSE]
    /\ Goto("dedup")
    /\ UNCHANGED <<status, cancellations, cancelled, messages, stop, reaper, life, crashes,
                   history>>

\* The first active row of the element, by ID, is or is not another's.
FindDuplicate ==
    /\ op.at = "dedup"
    /\ Say("completed", "end") \/ Goto("check")
    /\ UNCHANGED <<status, cancellations, cancelled, row, messages, stop, reaper, life,
                   crashes, history>>

CheckCancelled ==
    /\ op.at = "check"
    /\ IF cancelled THEN Say("cancelled", "error") ELSE Say("active", "install")
    /\ UNCHANGED <<status, cancellations, cancelled, row, messages, stop, reaper, life,
                   crashes, history>>

\* The coalescers forward one report at a time, also one from before a stop.
Tick ==
    /\ op.at = "install"
    /\ op.ticks < MaxTicks
    /\ op' = [at |-> "write", say |-> "active", then |-> "install", ticks |-> op.ticks + 1]
    /\ UNCHANGED <<status, cancellations, cancelled, row, messages, stop, reaper, life,
                   crashes, history>>

\* backendHandler does not look at the context again; a worker that is still
\* installing counts as a success.
InstallSucceeds ==
    /\ op.at = "install"
    /\ Say("completed", "end")
    /\ UNCHANGED <<status, cancellations, cancelled, row, messages, stop, reaper, life,
                   crashes, history>>

InstallFails ==
    /\ op.at = "install"
    /\ op' = [NoOp EXCEPT !.at = "unwind"]
    /\ UNCHANGED <<status, cancellations, cancelled, row, messages, stop, reaper, life,
                   crashes, history>>

InstallCancelled ==
    /\ op.at = "install"
    /\ cancelled
    /\ Say("cancelled", "unwind")
    /\ UNCHANGED <<status, cancellations, cancelled, row, messages, stop, reaper, life,
                   crashes, history>>

\* The deferred Close of the artifact coalescer may have a report left.
Unwind ==
    /\ op.at = "unwind"
    /\ Goto("error") \/ Say("active", "error")
    /\ UNCHANGED <<status, cancellations, cancelled, row, messages, stop, reaper, life,
                   crashes, history>>

\* The context's error is an error like any other.
UpdateError ==
    /\ op.at = "error"
    /\ Say("failed", "end")
    /\ UNCHANGED <<status, cancellations, cancelled, row, messages, stop, reaper, life,
                   crashes, history>>

\* Wrong form: the coalescer is closed after the last word.
ReportLate ==
    /\ op.at = "end"
    /\ cancellations' = cancellations \ {Home}
    /\ Say("active", "done")
    /\ UNCHANGED <<status, cancelled, row, messages, stop, reaper, life, crashes, history>>

RemoveCancellation ==
    /\ op.at = "end"
    /\ cancellations' = cancellations \ {Home}
    /\ op' = [NoOp EXCEPT !.at = "done", !.say = op.say]
    /\ UNCHANGED <<status, cancelled, row, messages, stop, reaper, life, crashes, history>>

-----------------------------------------------------------------------------
(***************************************************************************)
(* Stops: stopOperation and applyCancel.                                   *)
(***************************************************************************)
\* The response of the admission, or OpCache's broadcast, has shown the ID.
Known == op.at # "idle" /\ (WithContext \/ op.at # "admitted")

\* Cancelled is set on the object that is in the map.
MarkCancelled(f) == status' = [status EXCEPT ![f].state = "cancelled"]

StopOperation(s) ==
    /\ stop[s].at = "idle"
    /\ Known
    /\ \E f \in Up :
        /\ status[f].state # "cancelled"
        /\ MarkCancelled(f)
        /\ cancellations' = cancellations \ {f}
        /\ stop' = [stop EXCEPT ![s] =
               [at |-> "persist", frontend |-> f, owned |-> f \in cancellations,
                live |-> /\ op.at # "admitted" /\ row.state = "pending" /\ ~row.stale
                         /\ \A g \in Frontends : reaper[g] = "idle"]]
    /\ UNCHANGED <<cancelled, row, messages, op, reaper, life, crashes, history>>

StopPersists(s) ==
    /\ stop[s].at = "persist"
    /\ Persist("cancelled")
    /\ stop' = [stop EXCEPT ![s].at = "publish"]
    /\ UNCHANGED <<status, cancellations, cancelled, messages, op, reaper, life, crashes,
                   history>>

\* The stop function, then the broadcast.
StopPublishes(s) ==
    /\ stop[s].at = "publish"
    /\ cancelled' = (cancelled \/ stop[s].owned)
    /\ cancels' = [g \in Frontends |-> IF g \in Up THEN cancels[g] + 1 ELSE cancels[g]]
    /\ stop' = [stop EXCEPT ![s] =
           [at |-> "done", frontend |-> "none", owned |-> FALSE, live |-> stop[s].live]]
    /\ UNCHANGED <<status, cancellations, row, progress, op, reaper, life, crashes, history>>

\* An operation that is cancelled here already is left alone.
ApplyCancel(f) ==
    /\ cancels[f] > 0
    /\ cancels' = [cancels EXCEPT ![f] = @ - 1]
    /\ cancellations' = cancellations \ {f}
    /\ IF status[f].state = "cancelled" THEN UNCHANGED <<status, cancelled>>
       ELSE MarkCancelled(f) /\ cancelled' = (cancelled \/ f \in cancellations)
    /\ UNCHANGED <<row, progress, op, stop, reaper, life, crashes, history>>

-----------------------------------------------------------------------------
(***************************************************************************)
(* A stale row.  An operation that waits, or is lost, writes nothing; an   *)
(* installation that is silent for half an hour has reached its ceiling.   *)
(***************************************************************************)
Stale == row.state = "pending" /\ row.stale

\* Half an hour is longer than any delivery, stop, boot, or round of a reaper.
Quiet ==
    /\ \A f \in Frontends :
        /\ life[f] \in {"up", "down"} /\ reaper[f] = "idle"
        /\ progress[f] = <<>> /\ cancels[f] = 0
    /\ \A s \in Stops : stop[s].at \notin {"persist", "publish"}

Ages ==
    /\ op.at \in {"waiting", "lost"}
    /\ row.state = "pending"
    /\ ~row.stale
    /\ Quiet
    /\ row' = [row EXCEPT !.stale = TRUE]
    /\ UNCHANGED <<status, cancellations, cancelled, messages, op, stop, reaper, life,
                   crashes, history>>

CleanStale == row' = IF Stale THEN [state |-> "failed", stale |-> FALSE] ELSE row

\* ReapStaleOperations: ListStale and CleanStale, two queries in a row.
ReapCleans(f) ==
    /\ reaper[f] = "idle"
    /\ f \in Up
    /\ Stale
    /\ CleanStale
    /\ reaper' = [reaper EXCEPT ![f] = "check"]
    /\ UNCHANGED <<status, cancellations, cancelled, messages, op, stop, life, crashes,
                   history>>

\* Wrong form: only the row is reaped.
ReapRowOnly(f) ==
    /\ reaper[f] = "check"
    /\ reaper' = [reaper EXCEPT ![f] = "idle"]
    /\ UNCHANGED <<status, cancellations, cancelled, row, messages, op, stop, life, crashes,
                   history>>

\* failStaleStatus: a status that has ended, or is unknown here, is left alone.
ReapChecks(f) ==
    /\ reaper[f] = "check"
    /\ \/ /\ status[f].state = "active"
          /\ Remember(f, "failed", "reaper")
          /\ reaper' = [reaper EXCEPT ![f] = "persist"]
          /\ UNCHANGED unheard
       \/ /\ status[f].state # "active"
          /\ reaper' = [reaper EXCEPT ![f] = "idle"]
          /\ unheard' = TRUE
          /\ UNCHANGED status
    /\ UNCHANGED <<cancellations, cancelled, row, messages, op, stop, life, crashes, heard>>

ReapPersists(f) ==
    /\ reaper[f] = "persist"
    /\ \E state \in Current(f, "failed", "reaper") : Persist(state)
    /\ reaper' = [reaper EXCEPT ![f] = "publish"]
    /\ UNCHANGED <<status, cancellations, cancelled, messages, op, stop, life, crashes,
                   history>>

ReapPublishes(f) ==
    /\ reaper[f] = "publish"
    /\ \E state \in Current(f, "failed", "reaper") : Publish(f, state, "reaper")
    /\ reaper' = [reaper EXCEPT ![f] = "idle"]
    /\ UNCHANGED <<cancellations, cancelled, row, cancels, op, stop, life, crashes>>

-----------------------------------------------------------------------------
(***************************************************************************)
(* Frontends crash, and boot (core/application/startup.go): CleanStale,    *)
(* Hydrate, SubscribeBroadcasts.                                           *)
(***************************************************************************)
Crash(f) ==
    /\ life[f] # "down"
    /\ crashes < MaxCrashes
    /\ crashes' = crashes + 1
    /\ life' = [life EXCEPT ![f] = "down"]
    /\ status' = [status EXCEPT ![f] = NoStatus]
    /\ cancellations' = cancellations \ {f}
    /\ progress' = [progress EXCEPT ![f] = <<>>]
    /\ cancels' = [cancels EXCEPT ![f] = 0]
    /\ op' = IF f = Home /\ op.at \notin {"idle", "done"} THEN [NoOp EXCEPT !.at = "lost"]
                                                          ELSE op
    /\ cancelled' = (cancelled /\ f # Home)
    /\ stop' = [s \in Stops |-> IF stop[s].frontend = f
                                THEN [NoStop EXCEPT !.at = "lost"] ELSE stop[s]]
    /\ reaper' = [reaper EXCEPT ![f] = "idle"]
    /\ heard' = heard \ {f}
    /\ unheard' = (unheard \/ reaper[f] # "idle" \/ row.state \in Processed)
    /\ UNCHANGED row

\* The row that a boot cleans is not broadcast.
Boot(f) ==
    /\ life[f] = "down"
    /\ CleanStale
    /\ unheard' = (unheard \/ Stale)
    /\ life' = [life EXCEPT ![f] = "cleaned"]
    /\ UNCHANGED <<status, cancellations, cancelled, messages, op, stop, reaper, crashes,
                   heard>>

Hydrate(f) ==
    /\ life[f] = "cleaned"
    /\ status' = [status EXCEPT ![f].state =
           IF row.state = "pending" /\ ~row.stale THEN "active" ELSE @]
    /\ life' = [life EXCEPT ![f] = "hydrated"]
    /\ UNCHANGED <<cancellations, cancelled, row, messages, op, stop, reaper, crashes,
                   history>>

SubscribeBroadcasts(f) ==
    /\ life[f] = "hydrated"
    /\ life' = [life EXCEPT ![f] = "up"]
    /\ UNCHANGED <<status, cancellations, cancelled, row, messages, op, stop, reaper, crashes,
                   history>>

-----------------------------------------------------------------------------
WriteStep == OpRemembers \/ OpPersists \/ OpPublishes

QueueStep == Enqueue \/ AbandonQueued \/ Deliver

HandlerStep ==
    \/ CreateRow \/ FindDuplicate \/ CheckCancelled \/ InstallCancelled
    \/ Unwind \/ UpdateError \/ RemoveCancellation

InstallStep == Tick \/ InstallSucceeds \/ InstallFails

StopStep(s) == StopPersists(s) \/ StopPublishes(s)

ReapStep(f) ==
    \/ ReapCleans(f) \/ ReapChecks(f)
    \/ ReapPersists(f) \/ ReapPublishes(f)

BootStep(f) == Boot(f) \/ Hydrate(f) \/ SubscribeBroadcasts(f)

Next ==
    \/ Admit \/ WriteStep \/ QueueStep \/ HandlerStep \/ InstallStep
    \/ Ages
    \/ \E s \in Stops : StopOperation(s) \/ StopStep(s)
    \/ \E f \in Frontends : \/ MergeStatus(f) \/ ApplyCancel(f) \/ ReapStep(f)
                            \/ Crash(f) \/ BootStep(f)

Spec == Init /\ [][Next]_vars

(***************************************************************************)
(* Goroutines that can run do, the reapers' tickers fire, time passes, and *)
(* a frontend that crashed boots again.  An installation need not end,     *)
(* unless its context is cancelled; a queued operation that is not         *)
(* cancelled may wait for ever.                                            *)
(***************************************************************************)
Fairness ==
    /\ WF_vars(WriteStep) /\ WF_vars(Enqueue \/ AbandonQueued) /\ WF_vars(HandlerStep)
    /\ WF_vars(Ages)
    /\ \A s \in Stops : WF_vars(StopStep(s))
    /\ \A f \in Frontends : /\ WF_vars(MergeStatus(f)) /\ WF_vars(ApplyCancel(f))
                            /\ WF_vars(ReapStep(f)) /\ WF_vars(BootStep(f))

FairSpec == Spec /\ Fairness

-----------------------------------------------------------------------------
(***************************************************************************)
(* "A completion or a cancellation is what actually happened, and nothing  *)
(* that arrives afterwards knows better": no handler, reaper, boot or late *)
(* stop rewrites a settled row.                                            *)
(***************************************************************************)
RowSettles == [][row.state \in Settled => row'.state = row.state]_vars

(***************************************************************************)
(* An operation that waited so long that its row was reaped still runs,    *)
(* and its success reaches the row (a stop may have come first).           *)
(***************************************************************************)
OutcomeRecorded == op.at = "done" /\ op.say = "completed" => row.state \in Settled

(***************************************************************************)
(* When the handler is done, a frontend that was told of the end, and has  *)
(* merged what it was sent, does not show the operation as active: no      *)
(* report of the download comes after the last word.                       *)
(***************************************************************************)
FinalWordArrives ==
    op.at = "done" => \A f \in heard : progress[f] = <<>> => status[f].state \in Processed

Stopped == \E s \in Stops : stop[s].at # "idle"

(***************************************************************************)
(* An operation whose frontend crashed ends on every frontend, which no    *)
(* longer shows it as active, unless a boot, or a reaper that does not     *)
(* know the operation, has closed its row without a word.                  *)
(***************************************************************************)
OrphanEnds ==
    \A f \in Frontends :
        op.at = "lost" ~> f \notin Up \/ status[f].state # "active" \/ Stopped \/ unheard

(***************************************************************************)
(* A stop that any frontend has accepted, with the functions stored and    *)
(* the row active, ends the operation, also while it still waits.          *)
(***************************************************************************)
CancelArrives ==
    \A s \in Stops :
        WithContext /\ stop[s].live /\ stop[s].at = "done" ~> op.at \in {"done", "lost"}

=============================================================================
