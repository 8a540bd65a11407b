---------------------------- MODULE ReplicaRows ----------------------------
(***************************************************************************)
(* The controller's rows of one model's replicas (NodeModel, in            *)
(* core/services/nodes/registry.go) and everyone that writes to them: the  *)
(* requests that are routed (router.go, model_router.go, inflight.go), the *)
(* loads (scheduleAndLoad), the editor of the configuration and the        *)
(* cleanup of the rows it quarantines (model_cleanup.go), the sweeper of   *)
(* leaked counters, the scale-down and the passes that drop dead rows      *)
(* (reconciler.go, health.go), on several frontends that may crash.        *)
(*                                                                         *)
(* A slot is a node with a replica index.  Every statement on the database *)
(* is one action.  The port of a slot is stable (see Supervisor), so the   *)
(* address of a row is left out.                                           *)
(***************************************************************************)
EXTENDS FiniteSets, Integers

CONSTANTS
    Slots,          \* places for a replica
    Frontends,      \* controller processes
    Requests,       \* inference requests
    Loads,          \* loads of the model, each also names the row it creates
    Cleaners,       \* goroutines that clean up quarantined rows
    Home,           \* Home[a]: the frontend of a request, load or cleaner
    None,           \* no slot, request, load
    Impatient,      \* bound: the requests whose client may leave while it is routed
    OtherHost,      \* slots of workers that do not advertise the loopback address
    MaxRevision,    \* bound on the configuration revisions
    Returns         \* an edit may bring back an earlier configuration

Actors == Requests \cup Loads \cup Cleaners

ASSUME ReplicaRowsAssumption ==
    /\ None \notin Slots \cup Frontends \cup Actors
    /\ IsFiniteSet(Requests)
    /\ Impatient \subseteq Requests
    /\ OtherHost \subseteq Slots
    /\ Requests \cap Loads = {} /\ Requests \cap Cleaners = {} /\ Loads \cap Cleaners = {}
    /\ Home \in [Actors -> Frontends]
    /\ MaxRevision \in Nat \ {0}
    /\ Returns \in BOOLEAN

VARIABLES
    revision,       \* the model's current configuration revision
    rows,           \* rows[s]: the row of slot s
    req,            \* req[r]: the local state of request r
    stored,         \* stored[f]: the request whose release frontend f keeps, or None
    releasing,      \* requests whose release was replaced and runs in the background
    load,           \* load[l]: the local state of load l
    cleaner,        \* cleaner[c]: the local state of cleaner c
    sweep,          \* the sweeper of leaked counters
    streak,         \* streak[i]: passes that found the row with ID i idle
    scale,          \* the slot that the scale-down found idle, or None
    refusing,       \* slots whose worker refuses exact stops: another address
    leaked          \* history: leaked[s]: what killed frontends and clients that
                    \* have left have in the counter

reqVars == <<req, stored, releasing>>
sweepVars == <<sweep, streak>>
rest == <<sweepVars, scale, refusing>>
vars == <<revision, rows, reqVars, load, cleaner, rest, leaked>>

Revision == 1..MaxRevision
Active == {"staging", "loading", "loaded"}

\* id: the row's ID; writer, a history: the load that last wrote it; fresh:
\* last_used is recent; leased: cleanup_next_retry_at is in the future.
NoRow == [state |-> "none", id |-> None, writer |-> None, rev |-> 0, inFlight |-> 0,
          fresh |-> FALSE, leased |-> FALSE]

RowIDs == Loads \cup {None}

Row == [state : Active \cup {"none", "unloading"}, id : RowIDs, writer : RowIDs, rev : 0..MaxRevision,
        inFlight : Nat, fresh : BOOLEAN, leased : BOOLEAN]

\* A row as somebody has read it.
Claim == [slot : Slots, id : RowIDs, writer : RowIDs, rev : 0..MaxRevision]

\* held: the reservation was not released; counted: the counter holds its call;
\* gone: the client has left, as a statement on the request's context has found.
Idle == [pc |-> "idle", slot |-> None, held |-> FALSE, counted |-> FALSE, gone |-> FALSE]
Failed == [Idle EXCEPT !.pc = "done"]

Request ==
    [pc : {"idle", "probe", "drop", "cold", "inline", "route", "call", "first", "done"},
     slot : Slots \cup {None}, held : BOOLEAN, counted : BOOLEAN, gone : BOOLEAN]

\* by: the request that loads inline; seen: the row of a load found stale.
NoLoad == [pc |-> "idle", slot |-> None, rev |-> 0, by |-> None, seen |-> {}]

Load ==
    [pc : {"idle", "install", "staging", "loading", "check", "remove", "stop", "done"},
     slot : Slots \cup {None}, rev : 0..MaxRevision, by : Requests \cup {None},
     seen : SUBSET Claim]

TypeOK ==
    /\ revision \in Revision
    /\ rows \in [Slots -> Row]
    /\ req \in [Requests -> Request]
    /\ stored \in [Frontends -> Requests \cup {None}]
    /\ releasing \subseteq Requests
    /\ load \in [Loads -> Load]
    /\ cleaner \in [Cleaners -> [todo : SUBSET Claim, ended : SUBSET Claim]]
    /\ sweep \in [pc : {"idle", "sweep"}, todo : SUBSET (Slots \X RowIDs),
                  seen : SUBSET RowIDs, hit : SUBSET (Slots \X RowIDs)]
    /\ streak \in [Loads -> 0..2]
    /\ scale \in Slots \cup {None}
    /\ refusing \subseteq OtherHost
    /\ leaked \in [Slots -> Nat]

NoTodo == [todo |-> {}, ended |-> {}]
NoSweep == [pc |-> "idle", todo |-> {}, seen |-> {}, hit |-> {}]

Init ==
    /\ revision = 1
    /\ rows = [s \in Slots |-> NoRow]
    /\ req = [r \in Requests |-> Idle]
    /\ stored = [f \in Frontends |-> None]
    /\ releasing = {}
    /\ load = [l \in Loads |-> NoLoad]
    /\ cleaner = [c \in Cleaners |-> NoTodo]
    /\ sweep = NoSweep
    /\ streak = [l \in Loads |-> 0]
    /\ scale = None
    /\ refusing = {}
    /\ leaked = [s \in Slots |-> 0]

-----------------------------------------------------------------------------
(***************************************************************************)
(* The statements of the registry.                                         *)
(***************************************************************************)
Serving(s) == rows[s].state = "loaded" /\ rows[s].rev = revision
Exists(s) == rows[s].state # "none"

\* RemoveNodeModel and the other deletions.
Removed(s) ==
    /\ rows' = [rows EXCEPT ![s] = NoRow]
    /\ leaked' = [leaked EXCEPT ![s] = 0]

\* IncrementInFlight: it fails if there is no row.
Incremented(s) ==
    rows' = IF Exists(s)
            THEN [rows EXCEPT ![s].inFlight = @ + 1, ![s].fresh = TRUE]
            ELSE rows

\* DecrementInFlight: of whatever row the slot has now, and never below zero.
Decremented(s) ==
    rows' = IF rows[s].inFlight > 0 THEN [rows EXCEPT ![s].inFlight = @ - 1] ELSE rows

\* setNodeModelRevision: a row that exists keeps its ID and its retry time.
Written(l, state, n) ==
    LET s == load[l].slot IN
    /\ rows' = [rows EXCEPT ![s] =
                  [state |-> state, id |-> IF Exists(s) THEN @.id ELSE l, writer |-> l,
                   rev |-> load[l].rev, inFlight |-> n, fresh |-> TRUE,
                   leased |-> @.leased]]
    /\ leaked' = [leaked EXCEPT ![s] = 0]

ClaimOf(s) == [slot |-> s, id |-> rows[s].id, writer |-> rows[s].writer, rev |-> rows[s].rev]

\* RecordModelCleanupFailure: not before a backoff.
RetryLater(s) ==
    rows' = IF rows[s].state = "unloading" THEN [rows EXCEPT ![s].leased = TRUE] ELSE rows

\* Wrong form: the row's revision is compared with the model's.
MatchesCurrent(q) ==
    /\ rows[q.slot].state = "unloading"
    /\ rows[q.slot].id = q.id
    /\ rows[q.slot].rev = revision

\* The worker refuses, fails or does not answer.  It refuses as long as the process
\* runs if the row has the advertised address, and its supervisor another one.
NotStopped(q) ==
    /\ RetryLater(q.slot)
    /\ \/ UNCHANGED refusing
       \/ q.slot \in OtherHost /\ refusing' = refusing \cup {q.slot}

\* RemoveClaimedModelCleanup: only the row that was stopped.
Matches(q) ==
    /\ rows[q.slot].state = "unloading"
    /\ rows[q.slot].id = q.id
    /\ rows[q.slot].rev = q.rev

RemoveClaimed(q) == IF Matches(q) THEN Removed(q.slot) ELSE UNCHANGED <<rows, leaked>>

-----------------------------------------------------------------------------
(***************************************************************************)
(* A request: route, inference calls, and the release of its reservation.  *)
(* Its client may leave at any time, and then every statement on the       *)
(* request's context fails; the releases have a context of their own.      *)
(***************************************************************************)
Goto(r, step) == req' = [req EXCEPT ![r].pc = step]
FoundGone(r) ==
    /\ r \in Impatient
    /\ req' = [req EXCEPT ![r].pc = "cold", ![r].held = FALSE, ![r].gone = TRUE]
ReqOnly == UNCHANGED <<revision, stored, releasing, load, cleaner, rest>>

\* FindAndLockNodeWithModel; a preference may name any of the replicas.
FindAndLock(r, s) ==
    /\ req[r].pc \in {"idle", "cold"} /\ ~req[r].gone
    /\ Serving(s)
    /\ Incremented(s)
    /\ req' = [req EXCEPT ![r].pc = "probe", ![r].slot = s, ![r].held = TRUE]
    /\ UNCHANGED leaked
    /\ ReqOnly

NoReplica(r) ==
    /\ req[r].pc = "idle"
    /\ \/ (\A s \in Slots : ~Serving(s)) /\ Goto(r, "cold")
       \/ FoundGone(r)
    /\ UNCHANGED <<rows, leaked>>
    /\ ReqOnly

\* The node no longer matches, or the probe fails, which drops the row, too.
ReservationReturned(r) ==
    /\ req[r].pc = "probe"
    /\ Decremented(req[r].slot)
    /\ \E step \in {"cold", "drop"} :
        req' = [req EXCEPT ![r].pc = step, ![r].held = FALSE]
    /\ UNCHANGED leaked
    /\ ReqOnly

\* The client has left: probe, decrement and removal fail, which is only logged.
ReservationLost(r) ==
    /\ req[r].pc = "probe"
    /\ FoundGone(r)
    /\ leaked' = [leaked EXCEPT ![req[r].slot] = @ + 1]
    /\ UNCHANGED rows
    /\ ReqOnly

DropRow(r) ==
    /\ req[r].pc = "drop"
    /\ \/ Removed(req[r].slot) /\ Goto(r, "cold")
       \/ UNCHANGED <<rows, leaked>> /\ FoundGone(r)
    /\ ReqOnly

GiveUp(r) ==
    /\ req[r].pc = "cold"
    /\ req' = [req EXCEPT ![r] = Failed]
    /\ UNCHANGED <<rows, leaked>>
    /\ ReqOnly

\* ModelRouterAdapter.Route keeps the new release, and runs the former one.
Stored(r) ==
    LET f == Home[r] IN
    /\ stored' = [stored EXCEPT ![f] = r]
    /\ releasing' = releasing \cup ({stored[f]} \ {None})

Routed(r) ==
    /\ req[r].pc = "probe"
    /\ Goto(r, "route")
    /\ Stored(r)
    /\ rows' = IF Exists(req[r].slot) THEN [rows EXCEPT ![req[r].slot].fresh = TRUE] ELSE rows
    /\ UNCHANGED <<revision, load, cleaner, rest, leaked>>

\* Wrong form: the reservation is forgotten when the route ends.
ReleaseForgotten(r) ==
    /\ r \in releasing
    /\ req' = [req EXCEPT ![r].held = FALSE]
    /\ releasing' = releasing \ {r}
    /\ UNCHANGED <<revision, rows, stored, load, cleaner, rest, leaked>>

\* newRouteResult: the release runs once.
Release(r) ==
    /\ r \in releasing
    /\ req' = [req EXCEPT ![r].held = FALSE]
    /\ IF req[r].held THEN Decremented(req[r].slot) ELSE UNCHANGED rows
    /\ releasing' = releasing \ {r}
    /\ UNCHANGED <<revision, stored, load, cleaner, rest, leaked>>

\* track: a call that cannot be counted goes on uncounted.
BeginCall(r) ==
    /\ req[r].pc = "route" /\ ~req[r].gone
    /\ Incremented(req[r].slot)
    /\ req' = [req EXCEPT ![r].pc = "call", ![r].counted = Exists(req[r].slot)]
    /\ UNCHANGED leaked
    /\ ReqOnly

\* reconcile: the backend answers that it has not this model.
ModelGone(r) ==
    /\ req[r].pc = "call"
    /\ Exists(req[r].slot)
    /\ Removed(req[r].slot)
    /\ UNCHANGED req
    /\ ReqOnly

EndCall(r) ==
    /\ req[r].pc = "call"
    /\ IF req[r].counted THEN Decremented(req[r].slot) ELSE UNCHANGED rows
    /\ req' = [req EXCEPT ![r].pc = IF req[r].counted THEN "first" ELSE "route",
                          ![r].counted = FALSE]
    /\ UNCHANGED leaked
    /\ ReqOnly

\* onFirstComplete.
FirstComplete(r) ==
    /\ req[r].pc = "first"
    /\ IF req[r].held THEN Decremented(req[r].slot) ELSE UNCHANGED rows
    /\ req' = [req EXCEPT ![r].pc = "route", ![r].held = FALSE]
    /\ UNCHANGED leaked
    /\ ReqOnly

\* The request ends, or its client has left, and a call is neither counted nor
\* made: nobody releases.
Leave(r) ==
    /\ req[r].pc = "route"
    /\ req' = [req EXCEPT ![r].pc = "done", ![r].gone = FALSE]
    /\ UNCHANGED <<rows, leaked>>
    /\ ReqOnly

-----------------------------------------------------------------------------
(***************************************************************************)
(* A load: scheduleNewModel and scheduleAndLoad.                           *)
(***************************************************************************)
LoadStep(l, step) == load' = [load EXCEPT ![l].pc = step]
LoadOnly == UNCHANGED <<revision, cleaner, rest>>

\* The end of a load that fails; an inline one fails its request.
Ended(l) == load' = [load EXCEPT ![l] = [NoLoad EXCEPT !.pc = "done"]]

LoadEnds(l) ==
    /\ Ended(l)
    /\ req' = [r \in Requests |-> IF load[l].by = r THEN Failed ELSE req[r]]
    /\ UNCHANGED <<stored, releasing>>

\* NextFreeReplicaIndex.
FreeSlot(s) == rows[s].state \in {"none", "unloading"} \/ rows[s].rev # revision

\* The runner of a load job, or the reconciler's scale-up.
Schedule(l, s) ==
    /\ load[l].pc = "idle"
    /\ FreeSlot(s)
    /\ load' = [load EXCEPT ![l] = [NoLoad EXCEPT !.pc = "install", !.slot = s,
                                                  !.rev = revision]]
    /\ UNCHANGED <<rows, leaked, reqVars>>
    /\ LoadOnly

\* The claim of the job failed: the request loads for itself.
ScheduleInline(r, l, s) ==
    /\ req[r].pc = "cold"
    /\ load[l].pc = "idle" /\ Home[l] = Home[r]
    /\ FreeSlot(s)
    /\ load' = [load EXCEPT ![l] = [NoLoad EXCEPT !.pc = "install", !.slot = s,
                                                  !.rev = revision, !.by = r]]
    /\ Goto(r, "inline")
    /\ UNCHANGED <<rows, leaked, stored, releasing>>
    /\ LoadOnly

InstallFails(l) ==
    /\ load[l].pc = "install"
    /\ LoadEnds(l)
    /\ UNCHANGED <<rows, leaked>>
    /\ LoadOnly

\* Wrong form: the revision is not looked at.
CurrentAlways(l) == TRUE

\* requireCurrentRevision.
Current(l) == load[l].rev = revision

RecordStaging(l) ==
    /\ load[l].pc = "install"
    /\ Current(l)
    /\ Written(l, "staging", 0)
    /\ LoadStep(l, "staging")
    /\ UNCHANGED reqVars
    /\ LoadOnly

StagingRefused(l) ==
    /\ load[l].pc = "install"
    /\ ~Current(l)
    /\ LoadEnds(l)
    /\ UNCHANGED <<rows, leaked>>
    /\ LoadOnly

RecordLoading(l) ==
    /\ load[l].pc = "staging"
    /\ Current(l)
    /\ Written(l, "loading", 0)
    /\ LoadStep(l, "loading")
    /\ UNCHANGED reqVars
    /\ LoadOnly

\* The transfer or LoadModel fails, or the loading state is refused.
LoadFails(l) ==
    /\ load[l].pc \in {"staging", "loading"}
    /\ LoadStep(l, "check")
    /\ UNCHANGED <<rows, leaked, reqVars>>
    /\ LoadOnly

\* The clean-up of a failed load keeps a row that an edit has quarantined.
CheckRevision(l) ==
    /\ load[l].pc = "check"
    /\ IF Current(l) THEN LoadStep(l, "remove") /\ UNCHANGED reqVars ELSE LoadEnds(l)
    /\ UNCHANGED <<rows, leaked>>
    /\ LoadOnly

RemoveLifecycleRow(l) ==
    /\ load[l].pc = "remove"
    /\ Removed(load[l].slot)
    /\ LoadEnds(l)
    /\ LoadOnly

Publish(l) ==
    LET r == load[l].by IN
    /\ load[l].pc = "loading"
    /\ Current(l)
    /\ Ended(l)
    /\ \/ /\ r = None
          /\ Written(l, "loaded", 0)
          /\ UNCHANGED reqVars
       \/ /\ r # None
          /\ Written(l, "loaded", 1)
          /\ req' = [req EXCEPT ![r] = [pc |-> "route", slot |-> load[l].slot,
                                        held |-> TRUE, counted |-> FALSE,
                                        gone |-> req[r].gone]]
          /\ Stored(r)
    /\ LoadOnly

\* cleanupStaleLoad of the row as it is now.
PublishRefused(l) ==
    /\ load[l].pc = "loading"
    /\ ~Current(l)
    /\ load' = [load EXCEPT ![l].pc = "stop", ![l].seen = {ClaimOf(load[l].slot)}]
    /\ UNCHANGED <<rows, leaked, reqVars>>
    /\ LoadOnly

StopStaleLoad(l) ==
    /\ load[l].pc = "stop"
    /\ LoadEnds(l)
    /\ \E q \in load[l].seen :
        \/ q.slot \notin refusing /\ RemoveClaimed(q) /\ UNCHANGED refusing
        \/ NotStopped(q) /\ UNCHANGED leaked
    /\ UNCHANGED <<revision, cleaner, sweepVars, scale>>

-----------------------------------------------------------------------------
(***************************************************************************)
(* Edits of the configuration, and the cleanup of quarantined rows.        *)
(***************************************************************************)
CleanOnly == UNCHANGED <<reqVars, load, rest>>

Stale(s, rev) == rows[s].state \in Active /\ rows[s].rev # rev

\* AdvanceModelConfigRevisions; ApplyConfigRevisions cleans up what it returns.
Edit(c) ==
    /\ cleaner[c] = NoTodo
    /\ \E rev \in (IF Returns THEN Revision \ {revision} ELSE Revision \cap {revision + 1}) :
        /\ revision' = rev
        /\ rows' = [s \in Slots |->
                      IF Stale(s, rev)
                      THEN [rows[s] EXCEPT !.state = "unloading", !.leased = FALSE]
                      ELSE rows[s]]
        /\ cleaner' = [cleaner EXCEPT ![c].todo = {ClaimOf(s) : s \in {t \in Slots :
                                                                    Stale(t, rev)}}]
    /\ UNCHANGED leaked
    /\ CleanOnly

Due(s) == rows[s].state = "unloading" /\ ~rows[s].leased

\* ClaimModelCleanupRetries, with a batch of one row.
ClaimRetries(c) ==
    /\ cleaner[c] = NoTodo
    /\ \E s \in Slots :
        /\ Due(s)
        /\ rows' = [rows EXCEPT ![s].leased = TRUE]
        /\ cleaner' = [cleaner EXCEPT ![c].todo = {ClaimOf(s)}]
    /\ UNCHANGED <<revision, leaked>>
    /\ CleanOnly

\* StopModelReplica: the worker answers that the process is gone, which it never
\* does while it knows the process by another address ...
StopsReplica(c) ==
    /\ cleaner[c].ended = {}
    /\ \E q \in cleaner[c].todo :
        /\ q.slot \notin refusing
        /\ cleaner' = [cleaner EXCEPT ![c].todo = @ \ {q}, ![c].ended = {q}]
    /\ UNCHANGED <<revision, rows, leaked>>
    /\ CleanOnly

\* ... or not.
StopFails(c) ==
    /\ cleaner[c].ended = {}
    /\ \E q \in cleaner[c].todo :
        /\ cleaner' = [cleaner EXCEPT ![c].todo = @ \ {q}]
        /\ NotStopped(q)
    /\ UNCHANGED <<revision, leaked, reqVars, load, sweepVars, scale>>

RemovesRow(c) ==
    /\ \E q \in cleaner[c].ended : RemoveClaimed(q)
    /\ cleaner' = [cleaner EXCEPT ![c].ended = {}]
    /\ UNCHANGED revision
    /\ CleanOnly

\* The administrator whose edit it cleans up after leaves, or the frontend ends:
\* what is left of it fails on its context.
CutShort(c) ==
    /\ cleaner[c] # NoTodo
    /\ cleaner' = [cleaner EXCEPT ![c] = NoTodo]
    /\ UNCHANGED <<revision, rows, leaked>>
    /\ CleanOnly

\* The lease or the backoff is over.
LeaseLapses(s) ==
    /\ rows[s].leased
    /\ rows' = [rows EXCEPT ![s].leased = FALSE]
    /\ UNCHANGED <<revision, reqVars, load, cleaner, rest, leaked>>

-----------------------------------------------------------------------------
(***************************************************************************)
(* Passes over the rows: the sweeper, evictions, and what drops rows.      *)
(***************************************************************************)
SweepOnly == UNCHANGED <<revision, reqVars, load, cleaner, scale, refusing>>

Suspect(s) == Serving(s) /\ rows[s].inFlight > 0 /\ ~rows[s].fresh

SweepBegins ==
    LET found == {<<s, rows[s].id>> : s \in {t \in Slots : Suspect(t)}} IN
    /\ sweep.pc = "idle"
    /\ sweep' = [pc |-> "sweep", todo |-> found, seen |-> {p[2] : p \in found}, hit |-> {}]
    /\ UNCHANGED <<rows, leaked, streak>>
    /\ SweepOnly

\* A backend answers promptly unless it is inside a request; one that serves
\* several at once may answer then, too.
Answers(s) == \A r \in Requests : ~(req[r].pc = "call" /\ req[r].slot = s)

Probed(p) ==
    /\ p \in sweep.todo
    /\ sweep.hit = {}
    /\ \/ /\ ~Answers(p[1])
          /\ streak' = [streak EXCEPT ![p[2]] = 0]
          /\ sweep' = [sweep EXCEPT !.todo = @ \ {p}]
       \/ /\ streak' = [streak EXCEPT ![p[2]] = IF @ < 2 THEN @ + 1 ELSE @]
          /\ sweep' = [sweep EXCEPT !.todo = @ \ {p},
                                    !.hit = IF streak[p[2]] >= 1 THEN {p} ELSE {}]
    /\ UNCHANGED <<rows, leaked>>
    /\ SweepOnly

\* Two passes in a row found it idle.
Reset(p) ==
    /\ p \in sweep.hit
    /\ sweep' = [sweep EXCEPT !.hit = {}]
    /\ streak' = [streak EXCEPT ![p[2]] = 0]
    /\ IF rows[p[1]].id = p[2]
       THEN /\ rows' = [rows EXCEPT ![p[1]].inFlight = 0]
            /\ leaked' = [leaked EXCEPT ![p[1]] = 0]
       ELSE UNCHANGED <<rows, leaked>>
    /\ SweepOnly

\* Wrong form: the streaks of the rows just probed are dropped.
SweepEndsClean ==
    /\ sweep.pc = "sweep" /\ sweep.todo = {} /\ sweep.hit = {}
    /\ sweep' = NoSweep
    /\ streak' = [l \in Loads |-> 0]
    /\ UNCHANGED <<rows, leaked>>
    /\ SweepOnly

\* pruneInFlightIdle.
SweepEnds ==
    /\ sweep.pc = "sweep" /\ sweep.todo = {} /\ sweep.hit = {}
    /\ sweep' = NoSweep
    /\ streak' = [l \in Loads |-> IF l \in sweep.seen THEN streak[l] ELSE 0]
    /\ UNCHANGED <<rows, leaked>>
    /\ SweepOnly

\* Half an hour passes without a call.
Ages(s) ==
    /\ rows[s].fresh
    /\ rows' = [rows EXCEPT ![s].fresh = FALSE]
    /\ UNCHANGED <<revision, reqVars, load, cleaner, rest, leaked>>

\* evictLRUAndFreeNodeFrom, for the room of this or another model.
Evict(s) ==
    /\ Serving(s)
    /\ rows[s].inFlight = 0
    /\ Removed(s)
    /\ UNCHANGED <<revision, reqVars, load, cleaner, rest>>

\* scaleDownIdle lists the idle rows, and removes them afterwards.
FoundIdle(s) ==
    /\ scale = None
    /\ Serving(s) /\ rows[s].inFlight = 0 /\ ~rows[s].fresh
    /\ scale' = s
    /\ UNCHANGED <<revision, rows, reqVars, load, cleaner, sweepVars, refusing, leaked>>

ScaledDown(s) ==
    /\ scale = s
    /\ scale' = None
    /\ Removed(s)
    /\ UNCHANGED <<revision, reqVars, load, cleaner, sweepVars, refusing>>

\* The reconciler, the health monitor, MarkOffline, an unload: the row goes.
Reaped(s) ==
    /\ Exists(s)
    /\ Removed(s)
    /\ UNCHANGED <<revision, reqVars, load, cleaner, rest>>

\* The process dies, or another request than an exact stop ends it.
ProcessEnds(s) ==
    /\ s \in refusing
    /\ refusing' = refusing \ {s}
    /\ UNCHANGED <<revision, rows, reqVars, load, cleaner, sweepVars, scale, leaked>>

\* What the requests of f leave in the counter of s.
Abandoned(f, s) ==
    LET mine == {r \in Requests : Home[r] = f /\ req[r].slot = s}
    IN  Cardinality({r \in mine : req[r].held}) + Cardinality({r \in mine : req[r].counted})

\* Frontend f is killed: none of its deferred calls run.  The sweeper's streaks
\* are those of whichever frontend holds the lock of the pass.
Crash(f) ==
    /\ req' = [r \in Requests |->
                 IF Home[r] = f /\ req[r].pc # "idle" THEN Failed ELSE req[r]]
    /\ stored' = [stored EXCEPT ![f] = None]
    /\ releasing' = {r \in releasing : Home[r] # f}
    /\ load' = [l \in Loads |-> IF Home[l] = f /\ load[l].pc # "idle"
                                THEN [NoLoad EXCEPT !.pc = "done"] ELSE load[l]]
    /\ cleaner' = [c \in Cleaners |-> IF Home[c] = f THEN NoTodo ELSE cleaner[c]]
    /\ leaked' = [s \in Slots |-> leaked[s] + Abandoned(f, s)]
    /\ UNCHANGED <<revision, rows, rest>>

-----------------------------------------------------------------------------
RequestStep(r) ==
    \/ \E s \in Slots : FindAndLock(r, s)
    \/ NoReplica(r) \/ ReservationReturned(r) \/ ReservationLost(r) \/ DropRow(r)
    \/ GiveUp(r) \/ Routed(r) \/ Release(r) \/ BeginCall(r) \/ ModelGone(r)
    \/ EndCall(r) \/ FirstComplete(r) \/ Leave(r)

LoadStepOf(l) ==
    \/ \E s \in Slots : Schedule(l, s) \/ \E r \in Requests : ScheduleInline(r, l, s)
    \/ InstallFails(l) \/ RecordStaging(l) \/ StagingRefused(l) \/ RecordLoading(l)
    \/ LoadFails(l) \/ CheckRevision(l) \/ RemoveLifecycleRow(l) \/ Publish(l)
    \/ PublishRefused(l) \/ StopStaleLoad(l)

CleanerStep(c) ==
    \/ Edit(c) \/ ClaimRetries(c) \/ StopsReplica(c) \/ StopFails(c) \/ RemovesRow(c)
    \/ CutShort(c)

SweepStep ==
    \/ SweepBegins \/ SweepEnds
    \/ \E p \in Slots \X Loads : Probed(p) \/ Reset(p)

Pass(s) ==
    \/ LeaseLapses(s) \/ Ages(s) \/ Evict(s) \/ FoundIdle(s) \/ ScaledDown(s) \/ Reaped(s)
    \/ ProcessEnds(s)

Next ==
    \/ \E r \in Requests : RequestStep(r)
    \/ \E l \in Loads : LoadStepOf(l)
    \/ \E c \in Cleaners : CleanerStep(c)
    \/ SweepStep
    \/ \E s \in Slots : Pass(s)
    \/ \E f \in Frontends : Crash(f)

\* The cleanup and the reconciler run on tickers, time passes, and a worker that
\* is asked again and again to stop a process does so in the end, unless it knows
\* the process by another address: then it refuses for as long as the process runs.
Fairness ==
    /\ \A c \in Cleaners :
        /\ WF_vars(ClaimRetries(c)) /\ SF_vars(StopsReplica(c)) /\ SF_vars(RemovesRow(c))
    /\ \A s \in Slots : WF_vars(LeaseLapses(s)) /\ WF_vars(Ages(s))
    /\ WF_vars(SweepStep)

Spec == Init /\ [][Next]_vars
FairSpec == Spec /\ Fairness

-----------------------------------------------------------------------------
Holders(s) == {r \in Requests : req[r].slot = s /\ req[r].held}
Callers(s) == {r \in Requests : req[r].slot = s /\ req[r].counted}

\* A row that serves, or will, is of the current revision: whatever loads and
\* edits overlap, no replica of an old configuration is left where a request
\* could find it.  (setNodeModelRevision, AdvanceModelConfigRevisions)
StaleRowsQuarantined == \A s \in Slots : rows[s].state \in Active => rows[s].rev = revision

\* Every unit of a counter is one that a request will give back, or that was left
\* by a kill, or by a client that went away while its reservation was returned: no
\* other end of a route, a call or a load leaves the counter too high.
\* (newRouteResult, track, tryWarmPath, DecrementInFlight)
CountsAreBacked ==
    \A s \in Slots :
        rows[s].inFlight <= Cardinality(Holders(s)) + Cardinality(Callers(s)) + leaked[s]

\* A cleanup removes no row that was written after it had read the row that it
\* stopped, as long as a configuration does not come back.  ("prevents cleanup
\* from deleting that replacement", RemoveClaimedModelCleanup)
CleanupSparesReplacement ==
    [][\A c \in Cleaners : \A q \in cleaner[c].ended :
        RemovesRow(c) /\ Exists(q.slot) /\ rows'[q.slot] = NoRow =>
            rows[q.slot].writer = q.writer]_vars

\* A quarantined row is cleaned up, or its slot is loaded again, in the end, also
\* when the frontend that has leased it is killed and the administrator who made
\* the edit leaves; unless the worker runs its process under another address than
\* the row's, and refuses to stop it.  (ClaimModelCleanupRetries, stopModelExact)
QuarantineEnds ==
    \A s \in Slots : rows[s].state = "unloading"
                        ~> rows[s].state # "unloading" \/ s \in refusing

\* A counter that nobody will give back does not pin its replica for ever: as
\* soon as no request comes any more, and none is inside the backend, it is reset.
\* (sweepLeakedInFlight)
LeaksAreSwept ==
    \A s \in Slots : []<>(rows[s].inFlight = 0 \/ rows[s].fresh \/ ~Answers(s) \/ ~Serving(s))

-----------------------------------------------------------------------------
(***************************************************************************)
(* What comments of the code say, and the code does not do.                *)
(***************************************************************************)
\* "In-flight returns to 0 when the model is idle": when no request is under way,
\* no frontend was killed and no client left during a probe, no replica is kept
\* from eviction.  (inflight.go)
IdleReplicaIsFree ==
    (releasing = {} /\ \A r \in Requests : req[r].pc \in {"idle", "done"})
        => \A s \in Slots : rows[s].inFlight <= leaked[s]

\* "The row also reserves the replica slot against concurrent schedulers": two
\* loads never write to the same slot.  (scheduleAndLoad)
OneLoadPerSlot ==
    \A l, m \in Loads :
        ({load[l].pc, load[m].pc} \subseteq {"staging", "loading"} /\ load[l].slot = load[m].slot)
            => l = m

\* The eviction logic knows "which models are actively serving and should not be
\* unloaded": a replica with a call inside is not one that Evict may take.
\* (InFlightTrackingClient)
NeverEvictedInUse ==
    \A r \in Requests : LET s == req[r].slot IN
        req[r].pc = "call" /\ Serving(s) => rows[s].inFlight > 0

\* A release tied to the route's teardown "is what stops the reservation leaking",
\* by a "client disconnect", too: only the end of a frontend leaves a unit that
\* nobody gives back.  (newRouteResult)
OnlyKillsLeak ==
    [][\A s \in Slots : leaked'[s] > leaked[s] => \E f \in Frontends : Crash(f)]_vars

\* A cleanup intent "must not be erased by the ordinary failed-load cleanup
\* path".  (scheduleAndLoad)
CleanupIsDurable ==
    [][\A l \in Loads : RemoveLifecycleRow(l) => rows[load[l].slot].state # "unloading"]_vars

=============================================================================
