------------------------------- MODULE LoadJob -------------------------------
(***************************************************************************)
(* The distributed cold load of one model (core/services/nodes):           *)
(* requests on several replicas find no loaded copy, one of them claims    *)
(* the model's job row and loads in the background, the others wait for    *)
(* that row.  The row is a record in a shared database; the owner keeps it *)
(* alive with heartbeats, records a failure in it, and deletes it.         *)
(*                                                                         *)
(* Time appears as its order: a row without a heartbeat for                *)
(* loadJobOrphanWindow is orphaned; a runner that reaches the database     *)
(* heartbeats, records or deletes well before that window is over, and the *)
(* failure grace is shorter than the window.                               *)
(***************************************************************************)
EXTENDS FiniteSets, Integers

CONSTANTS
    Replicas,
    Requests,
    Home,               \* Home[r]: the replica that serves request r
    NoRequest,
    MaxRounds,          \* maxColdLoadRounds
    MaxClaims,          \* bound: jobs that are created
    MaxEvictions,       \* bound: evictions of the loaded model
    MaxCrashes,         \* bound: crashes of a replica
    MaxCuts,            \* bound: times a replica loses the database
    MaxFailures,        \* bound: failing loads
    ClientsLeave,       \* environment: a client may disconnect
    WaitBudget          \* NEURODESK_MODEL_LOAD_WAIT is not 0

Claim == 1..MaxClaims

ASSUME LoadJobAssumption ==
    /\ Replicas # {}
    /\ Home \in [Requests -> Replicas]
    /\ NoRequest \notin Requests
    /\ MaxRounds \in Nat \ {0}
    /\ {MaxClaims, MaxEvictions, MaxCrashes, MaxCuts, MaxFailures} \subseteq Nat
    /\ {ClientsLeave, WaitBudget} \subseteq BOOLEAN

VARIABLES
    job,                \* the row of the model, or NoJob
    claimer,            \* the request that holds the model's advisory lock
    claims,             \* number of rows created so far
    phase,              \* phase[c]: the step of the load that claim c started
    owner,              \* owner[c]: the replica that runs it
    loaded,             \* whether a replica row in state loaded exists
    registered,         \* requests whose waiter channel is in loadWaiters
    woken,              \* requests whose waiter channel is closed
    pc,                 \* pc[r]: the step r is about to take
    round,              \* round[r]: rounds of routeViaLoadJob r began
    mine,               \* mine[r]: the claim r made last, or 0
    gone,               \* requests whose client disconnected
    cut,                \* replicas that do not reach the database
    wasCut,             \* replicas that did not at some time
    evictions, crashes, cuts, failures

jobVars == <<job, claimer, claims>>
loadVars == <<phase, owner, loaded>>
waitVars == <<registered, woken>>
requestVars == <<pc, round, mine>>
envVars == <<gone, cut, wasCut, evictions, crashes, cuts, failures>>
vars == <<jobVars, loadVars, waitVars, requestVars, envVars>>

-----------------------------------------------------------------------------
NoJob == [claim |-> 0, state |-> "none", orphaned |-> FALSE]

Job == [claim : Claim, state : {"running", "failed"}, orphaned : BOOLEAN]

\* The runner goroutine of startLoadJob; in "grace" its AfterFunc is armed.
RunnerPhases == {"loading", "finishing", "failing", "wakeDone", "wakeFailed", "grace"}

\* Steps of a request that is inside routeViaLoadJob.
RouteSteps == {"round", "claim", "create", "claimed", "clean", "cleanWake",
               "waiting", "warm", "inline"}

Answers == {"served", "failed", "exhausted", "timedOut", "died"}

TypeOK ==
    /\ job \in Job \cup {NoJob}
    /\ claimer \in Requests \cup {NoRequest}
    /\ claims \in 0..MaxClaims
    /\ phase \in [Claim -> RunnerPhases \cup {"none", "ended"}]
    /\ owner \in [Claim -> Replicas]
    /\ loaded \in BOOLEAN
    /\ registered \subseteq Requests
    /\ woken \subseteq Requests
    /\ pc \in [Requests -> RouteSteps \cup Answers \cup {"start"}]
    /\ round \in [Requests -> 0..MaxRounds]
    /\ mine \in [Requests -> 0..MaxClaims]
    /\ gone \subseteq Requests
    /\ cut \subseteq wasCut /\ wasCut \subseteq Replicas
    /\ evictions \in 0..MaxEvictions
    /\ crashes \in 0..MaxCrashes
    /\ cuts \in 0..MaxCuts
    /\ failures \in 0..MaxFailures

Init ==
    /\ job = NoJob
    /\ claimer = NoRequest
    /\ claims = 0
    /\ phase = [c \in Claim |-> "none"]
    /\ owner \in [Claim -> {CHOOSE p \in Replicas : TRUE}]
    /\ loaded = FALSE
    /\ registered = {}
    /\ woken = {}
    /\ pc = [r \in Requests |-> "start"]
    /\ round = [r \in Requests |-> 0]
    /\ mine = [r \in Requests |-> 0]
    /\ gone = {}
    /\ cut = {}
    /\ wasCut = {}
    /\ evictions = 0
    /\ crashes = 0
    /\ cuts = 0
    /\ failures = 0

Goto(r, step) == pc' = [pc EXCEPT ![r] = step]
PhaseGoto(c, step) == phase' = [phase EXCEPT ![c] = step]

Connected(r) == Home[r] \notin cut

\* A query on the request's own context goes through.
Asks(r) == Connected(r) /\ r \notin gone

\* closeLoadWaiters on replica p.
CloseLoadWaiters(p) ==
    LET here == {r \in registered : Home[r] = p} IN
    /\ woken' = woken \cup here
    /\ registered' = registered \ here

-----------------------------------------------------------------------------
(***************************************************************************)
(* A request: routeViaLoadJob.                                             *)
(***************************************************************************)

\* Route: reading the model's revision fails, or the warm path serves or misses.
Route(r) ==
    /\ pc[r] = "start"
    /\ \/ ~Connected(r) /\ Goto(r, "failed")
       \/ Connected(r) /\ loaded /\ Goto(r, "served")
       \/ Connected(r) /\ ~loaded /\ Goto(r, "round")
    /\ UNCHANGED <<jobVars, loadVars, waitVars, round, mine, envVars>>

\* A round begins: loadWaiterChan, before the claim.
LoadWaiterChan(r) ==
    /\ pc[r] = "round"
    /\ round[r] < MaxRounds
    /\ round' = [round EXCEPT ![r] = @ + 1]
    /\ registered' = registered \cup {r}
    /\ woken' = woken \ {r}
    /\ Goto(r, "claim")
    /\ UNCHANGED <<jobVars, loadVars, mine, envVars>>

\* "the load finished but the model is not available"
OutOfRounds(r) ==
    /\ pc[r] = "round"
    /\ round[r] = MaxRounds
    /\ Goto(r, "exhausted")
    /\ UNCHANGED <<jobVars, loadVars, waitVars, round, mine, envVars>>

\* ClaimLoadJob up to its decision: the lock is free, and a live row is there.
ClaimFindsJob(r) ==
    /\ pc[r] = "claim"
    /\ Asks(r)
    /\ claimer = NoRequest
    /\ job # NoJob /\ ~job.orphaned
    /\ Goto(r, IF job.state = "failed" THEN "failed" ELSE "waiting")
    /\ UNCHANGED <<jobVars, loadVars, waitVars, round, mine, envVars>>

\* No row, or an orphaned one: the lock stays held.
ClaimTakes(r) ==
    /\ pc[r] = "claim"
    /\ Asks(r)
    /\ claimer = NoRequest
    /\ job = NoJob \/ job.orphaned
    /\ claimer' = r
    /\ Goto(r, "create")
    /\ UNCHANGED <<job, claims, loadVars, waitVars, round, mine, envVars>>

\* The row of the orphan goes, the fresh pending row comes, the lock is free.
ClaimCreates(r) ==
    /\ pc[r] = "create"
    /\ Asks(r)
    /\ claims < MaxClaims
    /\ claims' = claims + 1
    /\ job' = [claim |-> claims + 1, state |-> "running", orphaned |-> FALSE]
    /\ claimer' = NoRequest
    /\ owner' = [owner EXCEPT ![claims + 1] = Home[r]]
    /\ mine' = [mine EXCEPT ![r] = claims + 1]
    /\ Goto(r, "claimed")
    /\ UNCHANGED <<phase, loaded, waitVars, round, envVars>>

\* The claim fails, also because the client left: the load runs inline.
ClaimFails(r) ==
    /\ pc[r] \in {"claim", "create"}
    /\ ~Asks(r)
    /\ claimer' = IF claimer = r THEN NoRequest ELSE claimer
    /\ Goto(r, "inline")
    /\ UNCHANGED <<job, claims, loadVars, waitVars, round, mine, envVars>>

InlineLoadSucceeds(r) ==
    /\ pc[r] = "inline"
    /\ Connected(r)
    /\ loaded' = TRUE
    /\ Goto(r, "served")
    /\ UNCHANGED <<jobVars, phase, owner, waitVars, round, mine, envVars>>

InlineLoadFails(r) ==
    /\ pc[r] = "inline"
    /\ Goto(r, "failed")
    /\ UNCHANGED <<jobVars, loadVars, waitVars, round, mine, envVars>>

\* tryWarmPath after the claim: the model has been loaded in the meantime.
ClaimedAlreadyLoaded(r) ==
    /\ pc[r] = "claimed"
    /\ Asks(r)
    /\ loaded
    /\ Goto(r, "clean")
    /\ UNCHANGED <<jobVars, loadVars, waitVars, round, mine, envVars>>

\* finishLoadJob of such a request: the row first, then the waiters.
CleanJob(r) ==
    /\ pc[r] = "clean"
    /\ job' = IF Asks(r) THEN NoJob ELSE job
    /\ Goto(r, "cleanWake")
    /\ UNCHANGED <<claimer, claims, loadVars, waitVars, round, mine, envVars>>

CleanWakes(r) ==
    /\ pc[r] = "cleanWake"
    /\ CloseLoadWaiters(Home[r])
    /\ Goto(r, "served")
    /\ UNCHANGED <<jobVars, loadVars, round, mine, envVars>>

StartLoadJob(r) ==
    /\ pc[r] = "claimed"
    /\ ~loaded \/ ~Asks(r)
    /\ PhaseGoto(mine[r], "loading")
    /\ Goto(r, "waiting")
    /\ UNCHANGED <<jobVars, owner, loaded, waitVars, round, mine, envVars>>

(***************************************************************************)
(* waitForLoadJob.                                                         *)
(***************************************************************************)
Woken(r) ==
    /\ pc[r] = "waiting"
    /\ r \in woken
    /\ Goto(r, "warm")
    /\ UNCHANGED <<jobVars, loadVars, waitVars, round, mine, envVars>>

\* Wrong form: only the channel ends the wait.
PollNot(r) == FALSE

PollFindsNoJob(r) ==
    /\ pc[r] = "waiting"
    /\ Asks(r)
    /\ job = NoJob
    /\ Goto(r, "warm")
    /\ UNCHANGED <<jobVars, loadVars, waitVars, round, mine, envVars>>

PollFindsFailure(r) ==
    /\ pc[r] = "waiting"
    /\ Asks(r)
    /\ job.state = "failed"
    /\ Goto(r, "failed")
    /\ UNCHANGED <<jobVars, loadVars, waitVars, round, mine, envVars>>

\* The client left, or the wait budget is spent: loadingAnswer.
WaitEnds(r) ==
    /\ pc[r] = "waiting"
    /\ r \in gone \/ WaitBudget
    /\ Goto(r, "timedOut")
    /\ UNCHANGED <<jobVars, loadVars, waitVars, round, mine, envVars>>

WarmPathServes(r) ==
    /\ pc[r] = "warm"
    /\ Asks(r)
    /\ loaded
    /\ Goto(r, "served")
    /\ UNCHANGED <<jobVars, loadVars, waitVars, round, mine, envVars>>

WarmPathMisses(r) ==
    /\ pc[r] = "warm"
    /\ ~loaded \/ ~Asks(r)
    /\ Goto(r, "round")
    /\ UNCHANGED <<jobVars, loadVars, waitVars, round, mine, envVars>>

-----------------------------------------------------------------------------
(***************************************************************************)
(* The background load.  Every write names the model, not the claim.       *)
(***************************************************************************)
Reaches(c) == owner[c] \notin cut

\* The row after UpdateLoadJob or FailLoadJob, which touch updated_at.
Written(state) == [claim |-> job.claim, state |-> state, orphaned |-> FALSE]

\* UpdateLoadJob: a row that is not there stays absent.
Heartbeat(c) ==
    /\ phase[c] = "loading"
    /\ Reaches(c)
    /\ job # NoJob
    /\ job' = Written("running")
    /\ UNCHANGED <<claimer, claims, loadVars, waitVars, requestVars, envVars>>

LoadSucceeds(c) ==
    /\ phase[c] = "loading"
    /\ Reaches(c)
    /\ loaded' = TRUE
    /\ PhaseGoto(c, "finishing")
    /\ UNCHANGED <<jobVars, owner, waitVars, requestVars, envVars>>

LoadFails(c) ==
    /\ phase[c] = "loading"
    /\ failures < MaxFailures
    /\ failures' = failures + 1
    /\ PhaseGoto(c, "failing")
    /\ UNCHANGED <<jobVars, owner, loaded, waitVars, requestVars, gone, cut, wasCut,
                   evictions, crashes, cuts>>

\* finishLoadJob: DeleteLoadJob, whose error is only logged.
FinishDeletes(c) ==
    /\ phase[c] = "finishing"
    /\ job' = IF Reaches(c) THEN NoJob ELSE job
    /\ PhaseGoto(c, "wakeDone")
    /\ UNCHANGED <<claimer, claims, owner, loaded, waitVars, requestVars, envVars>>

\* Wrong form: the row goes as soon as the failure is recorded.
FailDeletes(c) ==
    /\ phase[c] = "failing"
    /\ job' = IF Reaches(c) THEN NoJob ELSE job
    /\ PhaseGoto(c, "wakeFailed")
    /\ UNCHANGED <<claimer, claims, owner, loaded, waitVars, requestVars, envVars>>

\* FailLoadJob, whose error is only logged.
FailRecords(c) ==
    /\ phase[c] = "failing"
    /\ job' = IF Reaches(c) /\ job # NoJob
              THEN Written("failed") ELSE job
    /\ PhaseGoto(c, "wakeFailed")
    /\ UNCHANGED <<claimer, claims, owner, loaded, waitVars, requestVars, envVars>>

RunnerWakes(c) ==
    /\ phase[c] \in {"wakeDone", "wakeFailed"}
    /\ CloseLoadWaiters(owner[c])
    /\ PhaseGoto(c, IF phase[c] = "wakeDone" THEN "ended" ELSE "grace")
    /\ UNCHANGED <<jobVars, owner, loaded, requestVars, envVars>>

\* loadJobFailureGrace after the failure.
GraceDeletes(c) ==
    /\ phase[c] = "grace"
    /\ job' = IF Reaches(c) THEN NoJob ELSE job
    /\ PhaseGoto(c, "ended")
    /\ UNCHANGED <<claimer, claims, owner, loaded, waitVars, requestVars, envVars>>

-----------------------------------------------------------------------------
(***************************************************************************)
(* The environment.                                                        *)
(***************************************************************************)

\* Wrong form: only bytes count, and a long checkpoint load moves none.
OrphanWindowOfBytes ==
    /\ job # NoJob /\ ~job.orphaned
    /\ job' = [job EXCEPT !.orphaned = TRUE]
    /\ UNCHANGED <<claimer, claims, loadVars, waitVars, requestVars, envVars>>

(***************************************************************************)
(* loadJobOrphanWindow passes without a write to the row: whoever would    *)
(* have touched it is gone or does not reach the database.                 *)
(***************************************************************************)
OrphanWindow ==
    /\ job # NoJob /\ ~job.orphaned
    /\ \A c \in Claim : phase[c] \in RunnerPhases => ~Reaches(c)
    /\ \A r \in Requests : pc[r] \in {"claimed", "clean"} => ~Connected(r)
    /\ job' = [job EXCEPT !.orphaned = TRUE]
    /\ UNCHANGED <<claimer, claims, loadVars, waitVars, requestVars, envVars>>

Evict ==
    /\ loaded
    /\ evictions < MaxEvictions
    /\ evictions' = evictions + 1
    /\ loaded' = FALSE
    /\ UNCHANGED <<jobVars, phase, owner, waitVars, requestVars, gone, cut, wasCut,
                   crashes, cuts, failures>>

Disconnect ==
    /\ ClientsLeave
    /\ \E r \in Requests : pc[r] \in RouteSteps /\ gone' = gone \cup {r}
    /\ UNCHANGED <<jobVars, loadVars, waitVars, requestVars, cut, wasCut, evictions,
                   crashes, cuts, failures>>

Cut ==
    /\ cuts < MaxCuts
    /\ cuts' = cuts + 1
    /\ \E p \in Replicas \ cut : cut' = cut \cup {p} /\ wasCut' = wasCut \cup {p}
    /\ UNCHANGED <<jobVars, loadVars, waitVars, requestVars, gone, evictions, crashes,
                   failures>>

Reconnect ==
    /\ \E p \in cut : cut' = cut \ {p}
    /\ UNCHANGED <<jobVars, loadVars, waitVars, requestVars, gone, wasCut, evictions,
                   crashes, cuts, failures>>

\* The process of replica p dies, and its database sessions with it.
Crash ==
    /\ crashes < MaxCrashes
    /\ crashes' = crashes + 1
    /\ \E p \in Replicas :
        /\ phase' = [c \in Claim |->
               IF owner[c] = p /\ phase[c] \in RunnerPhases THEN "ended" ELSE phase[c]]
        /\ pc' = [r \in Requests |->
               IF Home[r] = p /\ pc[r] \in RouteSteps THEN "died" ELSE pc[r]]
        /\ claimer' = IF claimer # NoRequest /\ Home[claimer] = p THEN NoRequest
                      ELSE claimer
    /\ UNCHANGED <<job, claims, owner, loaded, waitVars, round, mine, gone, cut, wasCut,
                   evictions, cuts, failures>>

-----------------------------------------------------------------------------
ClaimStep(r) ==
    \/ LoadWaiterChan(r) \/ OutOfRounds(r) \/ ClaimFindsJob(r) \/ ClaimTakes(r)
    \/ ClaimCreates(r) \/ ClaimFails(r)

ClaimedStep(r) ==
    \/ ClaimedAlreadyLoaded(r) \/ CleanJob(r) \/ CleanWakes(r) \/ StartLoadJob(r)

InlineStep(r) == InlineLoadSucceeds(r) \/ InlineLoadFails(r)

WaitStep(r) ==
    \/ Woken(r) \/ PollFindsNoJob(r) \/ PollFindsFailure(r) \/ WaitEnds(r)
    \/ WarmPathServes(r) \/ WarmPathMisses(r)

RequestStep(r) == ClaimStep(r) \/ ClaimedStep(r) \/ InlineStep(r) \/ WaitStep(r)

RunnerStep(c) ==
    \/ LoadSucceeds(c) \/ LoadFails(c) \/ FinishDeletes(c) \/ FailRecords(c)
    \/ RunnerWakes(c) \/ GraceDeletes(c)

Next ==
    \/ \E r \in Requests : Route(r) \/ RequestStep(r)
    \/ \E c \in Claim : Heartbeat(c) \/ RunnerStep(c)
    \/ OrphanWindow \/ Evict \/ Disconnect \/ Cut \/ Reconnect \/ Crash

Spec == Init /\ [][Next]_vars

(***************************************************************************)
(* Goroutines run, a load ends one way or the other (its deadline extends  *)
(* only while bytes move), and time passes over an orphaned row.           *)
(***************************************************************************)
Fairness ==
    /\ \A r \in Requests : WF_vars(RequestStep(r))
    /\ \A c \in Claim : WF_vars(RunnerStep(c))
    /\ WF_vars(OrphanWindow)

FairSpec == Spec /\ Fairness

-----------------------------------------------------------------------------
Loading == {c \in Claim : phase[c] = "loading"}

(***************************************************************************)
(* As long as the database is reachable and no client leaves, the row is   *)
(* the record of the load that runs: it was created for it, nobody has     *)
(* taken it over, deleted it or marked it failed.  So at most one load     *)
(* runs, with crashing runners, failing loads and evictions.               *)
(***************************************************************************)
RowIsTheLoader ==
    \A c \in Loading : job.claim = c /\ job.state = "running" /\ ~job.orphaned

(***************************************************************************)
(* "Keep the row briefly so a request arriving right now reports this      *)
(* failure instead of starting a duplicate load": nobody claims the model  *)
(* between the end of a failed load and the end of its grace period.       *)
(***************************************************************************)
NoRetryStorm ==
    [][\A r \in Requests : ClaimCreates(r) =>
          \A c \in Claim : phase[c] \notin {"failing", "wakeFailed", "grace"}]_vars

(***************************************************************************)
(* Every request is answered, although nobody tells a waiter on another    *)
(* replica that the load has ended.  Without a bound on the wait this    *)
(* needs owners that live, that reach the database, and whose client stays. *)
(***************************************************************************)
OwnersLost == crashes > 0 \/ wasCut # {} \/ gone # {}

RequestsAnswered ==
    \A r \in Requests :
        pc[r] \in RouteSteps ~> pc[r] \in Answers \/ (~WaitBudget /\ OwnersLost)

-----------------------------------------------------------------------------
(***************************************************************************)
(* What the comments say and the code does not do.                         *)
(***************************************************************************)

(***************************************************************************)
(* "Exactly one row per trackingKey may be active at a time; that          *)
(* uniqueness is what de-duplicates concurrent loaders across replicas":   *)
(* no second load runs beside one that the row records.                    *)
(***************************************************************************)
OneLoader ==
    /\ Cardinality(Loading) <= 1
    /\ \A r \in Requests : pc[r] = "inline" => Loading = {}

(***************************************************************************)
(* "a stalled DB write must not have its perfectly healthy multi-GB        *)
(* transfer stolen and restarted from zero": nobody claims a model that a  *)
(* replica loads which has always reached the database.                    *)
(***************************************************************************)
HealthyLoadNotRestarted ==
    [][\A r \in Requests : ClaimCreates(r) =>
          \A c \in Loading : owner[c] \in wasCut]_vars

(***************************************************************************)
(* "a second round only happens when the model was evicted between the job *)
(* finishing and the waiter re-checking".                                  *)
(***************************************************************************)
RoundsFollowEvictions == \A r \in Requests : round[r] <= 1 + evictions
=============================================================================
