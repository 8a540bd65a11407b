# NeuroDesk in TLA+

Models of the concurrent control plane of NeuroDesk (`src/NeuroDesk`, a Go
server that serves AI models from backend processes, and `src/NeuroDeskApp`, a
desktop shell around it), their model-checking runs, and proofs. Paths below
are relative to `src/NeuroDesk` unless they start with `src/`.

## 1. The system

Requests name a model. The server finds or starts a backend process for it,
calls the process over gRPC, and stops the process when the model is unloaded,
idle, stuck, or in the way. With several frontends, the models run on worker
nodes, and the frontends coordinate through a shared database. A realtime
session keeps one connection for a spoken conversation.

| Component | State | Operations | What is hard | What makes it correct |
|---|---|---|---|---|
| Operation locks, `pkg/model/operation_locks.go` | reference-counted map of weighted semaphores, one per model | acquire shared or exclusive with a context, release | entries are created and dropped while others use them; cancellation; writer starvation | one semaphore per model, exclusion, nobody starves |
| Model loader, `pkg/model/loader.go`, `initializers.go`, `process.go` | `store`, `loading`, failure records, processes | load, probe, reap, shut down, force, clean up | coalesced loads, retries, dead processes, deadlines | one load at a time, shutdowns alone, no lost process, everyone returns |
| Watchdog, `pkg/model/watchdog.go` | per address: model, calls, busy and idle marks, last use | add, track calls, enforce the LRU limit and the groups, three periodic checks | state is read under the mutex and acted on later by name; loads in progress | limits hold, busy marks follow calls, only eligible models are evicted |
| Watchdog restart, `core/application/watchdog.go`, `startup.go` | the current watchdog, its stop channel, its `Run` and handler goroutines | start, stop, restart | two channels and two mutexes; several administrators | no double close, one `Run`, restarts return |
| Load job, `core/services/nodes/model_load_job.go`, `load_job_runner.go` | one database row per model; runner, waiters, rounds per request | claim, heartbeat, finish, fail, wait | crashed or cut-off owners, failed loads, waiters on other replicas | the row belongs to the load that runs, no retry storm, every request answered |
| Router, registry, reconciler, health monitor, model cleanup, `core/services/nodes` | one database row per replica: state, configuration revision, in-flight counter, cleanup lease | route, reserve, load, publish, edit, clean up, sweep, evict, scale down | several frontends act on the same rows, one statement at a time; frontends crash | no stale configuration serves; counters are given back; a cleanup spares the row written since |
| Realtime session, `core/http/endpoints/openai` (`realtime*.go`, `coordinator`, `respcoord`, `turncoord`, `conncoord`, `compactcoord`, `ttscoord`) | the conversation and its memory; five state machines, their sinks and goroutines | client events, turn detection, response, compaction, speech pipeline, teardown | client loop, VAD, response and compaction goroutines race with the teardown | one live response, children end before their parent, no item of the conversation is lost |
| Worker supervisor, `core/services/worker` | processes, ports (held, free, quarantined, claimed), installed directories | install, upgrade, stop, exact stop, delete | handlers of one key overlap; processes die; rows of the controller name ports | a port has one live process; a row reaches only its own process while its claim lasts |
| Gallery operations, `core/services/galleryop`, `core/services/distributed/gallery.go` | one database row per operation, a status of it on every frontend, its cancel functions on one | admit, wait, install, report, stop, reap, boot | statuses travel by broadcasts and are overwritten; stops and reapers act on any frontend; frontends crash | an outcome is recorded and stays, the last word arrives, a stop ends the operation, orphans end |
| Admission, job dispatcher, advisory lock, state synchronisation (`core/services`, `core/http/middleware`) | queues, counters, claimed rows | see `PROJECT.json` | cancellation, restart, lossy messages | not modelled |

`PROJECT.json` lists all components, also those that are not modelled, and the
hazards of the code at the lines where they bite.

How they interact: a request takes the operation lock in shared mode around
`checkIsLoaded` and `loadModel`, a shutdown takes it exclusively. Before a load
the watchdog enforces the groups and the LRU limit by calling `ShutdownModel`
of other models; its checks call `ShutdownModel` and `ShutdownModelForce` from
its own goroutine. Every gRPC client reports the start and the end of its calls
to the watchdog. In distributed mode the router replaces the local process
start, and the load job decides which replica of the frontend loads. The router
then writes the replica's row and asks the worker's supervisor over NATS to
start the process; the row's address is the port the supervisor answered with.
Models and backends are installed by gallery operations, one after the other on
the frontend that admitted them; the frontends tell one another of every status
and every stop over NATS, and keep a row per operation for those that boot later.

## 2. Modules

| Module | Code | State and actions |
|---|---|---|
| `WeightedLock` | the weighted semaphore as `operation_locks.go` uses it (external library) | a first-come-first-served queue and the holders; request, grant, cancel, release |
| `OperationLocks` | `operation_locks.go` | `entries[modelID]`, the counts, one semaphore per entry; `CaptureExisting`/`CaptureNew` are the critical section of `acquireContext`, `ReleaseReference` that of `releaseReference` |
| `ModelSlot` | abstract specification of a loader for one model | the registered handle and the running processes |
| `ModelLoader` | `loader.go`, `initializers.go`, `process.go` | one model; `store`, `loading`, cooldown, processes, the health memo, the operation lock (`INSTANCE WeightedLock`), and for every goroutine the step it is about to take; one action per critical section of `ml.mu`, per remote call and per wait |
| `WatchDog` | `watchdog.go`, the enforcement in `initializers.go`, the call frame of `pkg/grpc/client.go` | several models and their addresses; tracking data, requests that enforce, load and call, the goroutine `Run` |
| `WatchdogRestart` | `core/application/watchdog.go`, `startup.go`, `Run` and `Shutdown` of `watchdog.go` | every watchdog ever created, its channels, mutex and goroutines; administrators that stop or restart; models that register and call meanwhile |
| `LoadJob` | `model_load_job.go`, `load_job_runner.go`, the part of `router.go` that calls them | the row, the advisory lock, every load ever claimed, every request's place in `routeViaLoadJob`, the waiters' channels |
| `SessionTree` | abstract specification of the end of a session | how many levels are closed, and the workers of each level |
| `Conversation` | `realtime_compaction.go`, `realtime_compactcoord.go`, `compactcoord` | `items` by their order of arrival, the memory as the set of items folded into it, the coordinator and the step of the compaction goroutine |
| `RealtimeSession` | `realtime.go`, `realtime_stream.go`, `realtime_conncoord.go`, `realtime_respcoord.go`, `realtime_turncoord.go` and their coordinators | extends `Conversation`; the session goroutine (`conn`), every run of turn detection (`vpc`) and every response ever issued (`rpc`), their contexts (`cancelled`, `vadEnded`) and the state of `respcoord`; one action per event, per `Apply`, per critical section of `conv.Lock` and per call of a model or tool |
| `Supervisor` | `core/services/worker` (`supervisor.go`, `install.go`, `lifecycle.go`), the controller's side in `core/services/nodes` (`unloader.go`, `model_cleanup.go`, `router.go`) | `proc` (the operating system's processes), `entry` (`s.processes`), `nextPort`, `freePorts`, `quarantined`, `affinity`, the directories on disk, the locks of the backends, one handler per request, the controller's `rows`; one action per critical section of `s.mu`, per `proc.Stop`, per change of files and per controller call |
| `ReplicaRows` | `core/services/nodes`: `registry.go`, `router.go`, `model_router.go`, `inflight.go`, `model_cleanup.go`, `reconciler.go`, `health.go` | `rows`, the current `revision`, the step of every request, load, cleanup and sweep, the frontend each of them runs on; one action per database statement or transaction |
| `GalleryOps` | `core/services/galleryop` (`service.go`, `enqueue.go`, `models.go`, `backends.go`, the progress coalescers), `core/services/distributed/gallery.go`, the start of a frontend in `core/application/startup.go` | one operation: `status[f]` (`g.statuses`), `cancellations`, its `row`, the broadcasts each frontend has not handled (`progress`, `cancels`), the step of its handler (`op`), of every stop and of every frontend's reaper; one action per critical section of the service's mutex, per database statement and per broadcast |
| `ModelLoaderProofs`, `WatchDogProofs`, `WatchdogRestartProofs`, `LoadJobProofs`, `RealtimeProofs`, `SupervisorProofs`, `ReplicaRowsProofs`, `GalleryOpsProofs` | | theorems (section 5) |
| `MC*` | | constants for TLC |

Module headers name the granularity. In all of them one action is one critical
section of the code (a mutex, a database transaction, a channel operation) or
one call to the outside; what the code does between two critical sections
without shared state is part of the earlier one. A definition whose comment
begins "Wrong form" is a plausible slip of the code, kept next to the right
form; no specification uses it. The runs are sensitive to these slips:
`PROJECT.json` lists under `mutants` which property each of them breaks.

Abstractions that matter:

* `ModelLoader` has one model. Nothing the loader does for one model waits while
  it holds `ml.mu`, so models do not wait for each other.
* `WatchDog` sees the loader as `running` and `loading`: one load of a model at
  a time, and a shutdown excludes a load of the same model. `ModelLoader` shows
  both (`SingleFlight`, `ShutdownIsAlone`). Memory above the threshold is a
  nondeterministic event. Shutdowns of one enforcement run in any order; the
  checks of `Run` are taken in any order, since a check that finds nothing
  changes nothing. Not modelled: size-aware eviction, the unpaired `Mark` and
  `UnMark`, thresholds that are changed at run time.
* `WatchdogRestart` leaves out the end of the whole application, which ends
  the watchdogs by their context.
* `LoadJob` has one tracking key. Scheduling, staging and the remote load are
  the action `LoadSucceeds` or `LoadFails`. Time is its order: the heartbeat
  (1 s) is shorter than the failure grace (15 s), which is shorter than the
  orphan window (60 s), so a row can only be orphaned when nobody alive and
  connected would touch it. The reconciler's sweep of abandoned loads, the
  prefix cache and the revisions of configurations are left out.
* `RealtimeSession` leaves out the audio: what a tick of turn detection makes of
  the buffer is a choice among the outcomes that `vadTick` has. Transcription,
  prediction, speech and tools appear by their outcome, and requests with a
  client's own items as events before them. The
  length test of `maybeCompact` and its `trigger` are two steps, since items
  and coordinator have different locks. Items are unique by number; a client
  that reuses the id of an item is not modelled, nor are the classifier mode,
  sound detection, the speech pipeline (`ttscoord`) and the WebRTC decoder.
* `Supervisor` has one worker. Install and upgrade handlers hold the lock of
  their backend; the other subscriptions take one message after the other.
  Downloads are the identity of the directory they leave (`disk`, `dirs`); a
  readiness deadline that a process survives is the constant
  `SurvivesDeadline`, an advertised host that is not the loopback address
  `OtherHost`. Draining at the end of the worker is left out.
* `ReplicaRows` has the rows of one model. A port stays with its slot, as
  `Supervisor` shows, so rows carry no address. Every frontend action belongs
  to a frontend (`Home`) that may be killed, and then runs no deferred call.
  Times are flags: `fresh` (`last_used` is recent) and `leased`
  (`cleanup_next_retry_at` lies ahead), which lapse by themselves. `Reaped`
  stands for every pass that drops a row (health monitor, dead-process pass,
  node offline, unload). Whether a probe of a busy backend is answered is open,
  since some backends serve in parallel. Edits move the revision forward,
  except with `Returns`, where one may bring back an earlier configuration.
  The clients of the requests in `Impatient` may leave while their request is
  routed. The code then goes on with a cancelled context until a statement fails
  on it; the model takes the departure where it is found (`FoundGone`): the
  reservation is not made, a removal does not happen, and a reservation that was
  made stays (`ReservationLost`), since probe, decrement and removal use the
  request's context and only log. The history `leaked` counts what kills and
  such departures leave in a counter. The clean-up after an edit runs on the
  administrator's request, and may be cut short by it (`CutShort`). A worker in
  `OtherHost` may refuse an exact stop because it knows the process by the
  loopback address; it then does so (`refusing`) until the process ends in
  another way (`ProcessEnds`).

* `GalleryOps` has one operation, admitted by the frontend `Home`, with a context
  and a cached key (`WithContext`, the web interface) or without. The other
  operations keep the worker busy (`Deliver` need not come), and `FindDuplicate`
  may find one of them. `UpdateStatus` is three steps: the map, the row, the
  broadcast; the last two are written from an object that a stop may change in
  between (`by`, `Current`). Statuses and stops are two subscriptions, each in
  order, with no order between them. `ListStale` and `CleanStale`, and the look
  of `failStaleStatus` at the map with the write that follows, are one step
  each. A row turns stale (`Ages`) when half an hour passes without a write, and
  only when nothing is on its way (`Quiet`): deliveries, stops, boots and reapers
  are over within that time. Deletions, the progress per node and the cache of
  operations (`OpCache`) are left out but for the key it writes at admission.

## 3. Runs

| Run | Question | Instance | Why it is enough |
|---|---|---|---|
| `operation_locks` | Is the reference-counted map one fair lock? | 3 goroutines, 4 entries, fair | Three goroutines give a holder, a waiter and one that drops an entry; a fourth entry is never needed at once |
| `loader` | Single flight, lone shutdowns, empty slots, no lost process, `ModelSlot`, everyone returns | 2 requests, 1 shutdown, 2 processes, 1 crash, 1 failing stop, forced shutdowns after a busy one, fair | Leader, follower and the one that stops; each fault once, at any point. A third request was tried on the safety part (below) |
| `watchdog_checks` | Busy marks, eligibility of evictions, loads end | 2 models, one pinned, limit 1, 2 requests, all three checks, an API unload, shutdowns may run out of time, fair | Enforcement competes with the checks for one evictable model |
| `watchdog_serial` | Limit, groups and tracking | 4 models, two in one group, one pinned, limit 2, 3 requests that load one after the other, no checks | Groups and limit each decide some eviction; a third load is needed to exceed the limit |
| `watchdog_restart` | No double close, one `Run` | 3 administrators, 1 model, both kinds of settings | The second restart differs from the first (handler), the third repeats the second |
| `load_job` | The row is the loader's; no retry storm | 3 requests, 2 replicas, 3 claims, 1 crash, 1 failure, 1 eviction | Owner, local and remote waiter; a claim after a failure and after a crash |
| `load_job_answers` | Every request is answered | 2 requests on 2 replicas, 3 claims, 1 failure, 1 cut, clients may leave, no wait budget, fair | The remote waiter has only its polling |
| `realtime_session` | One live response, the order of the end, nothing outlives the session, it ends, compactions end | 1 run of turn detection, 2 responses, compaction of 3 items down to 1, fair | A response, the one that supersedes it, a compaction triggered by the last one while the session ends |
| `realtime_conversation` | No item is lost, the memory is older than what is live | 2 responses of at most 2 turns, streamed or not, 2 items of the client, tools up to 3 items, 1 deletion, compaction of 3 items down to 1 | Items are appended, rolled back and deleted during a summary, and a second compaction follows the first. Without turn detection, whose only effect on the items is a response with a cancelled context |
| `supervisor` | No port is lost or shared, a live process keeps its port, a claimed row is not misrouted, an install does not answer with a replaced directory | 2 keys of one backend, 2 ports, 3 processes, any 3 of 7 requests of the 5 kinds, 2 directories | Two keys compete for the last port; a third process is needed while two old ones are stopped or referred to; two handlers on one key and one on the other overlap at every step |
| `replica_rows` | No stale row serves, counters are given back or known to be lost, quarantined rows are cleaned up where the worker does not refuse, leaked counters are swept | 1 slot, of a worker that may refuse exact stops (`OtherHost`), 2 requests of one frontend, the client of one may leave (`Impatient`), 1 load, 1 cleaner, 2 frontends that may be killed, 2 revisions, fair | The second request replaces the release that the frontend keeps for the first; a kill in every step, a departure in every step of a route. One client that leaves is enough to lose a unit beside the units of a request that stays. A second slot adds only rows that share no statement with the first. `MCReplicaRowsLoads.cfg` checks two loads beside one another, with one request, and `CleanupSparesReplacement`, which the theorem `ReplacementsAreSpared` proves for any number of loads (1.1 million states) |
| `gallery_ops` | A settled row stays, an outcome is recorded, the last word arrives, orphans end, stops arrive | 2 frontends, 1 operation of the web interface, 1 stop, 1 progress report, 1 crash, each frontend at most 1 status behind, fair | The frontend that runs the operation and one that only hears of it; each may stop it, reap its row, crash and boot. A second status in a queue only repeats the overwriting of the first |

Two variations of these instances were checked too: the safety part of
`loader` with a third request (no `ForceConfigured`, `Symmetry`, 1.3 million
states), and `realtime_session` with a second run of turn detection beside the
first and one response (`MaxVADs = 2`, `MaxResponses = 1`, `MaxItems = 1`,
`MaxCallItems = 1`).

Bounds are constants (`MaxHandle`, `MaxCrashes`, `MaxAddress`, `MaxUnloads`,
`MaxClaims`, ...) that appear in the guards of the action they bound. They
bound how often the environment acts (a crash, an unload, an eviction) or how
many fresh names exist. Where a fresh name is the limit, running out has an
outcome the code has too (a start that fails) or ends the run.
`CHECK_DEADLOCK FALSE` is set where requests are finite: a state where all have
finished is the intended end. `operation_locks` runs for ever and checks for
deadlock.

What holds is conditional, and the conditions are the interesting part:

* `NoOrphanProcess` and `IsOneSlot` hold until the first process dies by itself
  or the first stop fails (`Calm`). After a crash, a request may reap by name a
  backend it did not probe; after a failing stop a process is only logged.
* `NothingEscapes` needs shutdowns that finish (`DeadlinesExpire = FALSE`).
* `LimitKept` and `GroupsExclusive` need loads one after the other as well, and
  the busy and the idle check off: both untrack an address before the model has
  stopped, and an enforcement in between counts one model too few and does not
  see a conflict.
* `RequestsAnswered` without a wait budget needs owners that live, reach the
  database and keep their client until they have begun to load.
* `PortReserved` and `ClaimProtects` need a readiness deadline that really ends
  the process (`SurvivesDeadline = FALSE`): a start that gives up releases the
  port whether its stop succeeded or not.
* `ClaimProtects` speaks of rows whose key kept its claim on the port (`lost`):
  once every port is used up, the allocator takes a port from another key.
* `CleanupSparesReplacement` needs edits that do not bring an earlier
  configuration back (`Returns = FALSE`), since the revision is a hash of the
  configuration.
* `OrphanEnds` leaves out operations that are stopped, and those whose row was
  closed without a broadcast (`unheard`): by a boot, or by a reaper that does not
  know the operation. `CancelArrives` speaks of stops that are accepted while the
  cancel functions are stored and the row is active and fresh, with no reaper at
  work (`live`). `FinalWordArrives` speaks of frontends that were told (`heard`):
  one that boots while the last word is broadcast is not.
* `CountsAreBacked` counts as lost (`leaked`) what a killed frontend had, and the
  reservation of a client that leaves while its route is probed; any other end of
  a request has to give its units back. Lost units go only when the sweeper
  resets the counter or the row is dropped or written anew (`LeaksAreSwept`).
* `QuarantineEnds` leaves out a slot from the moment its worker refuses to stop
  the process under the row's address (`refusing`); without that disjunct it
  fails for a worker in `OtherHost`, and holds if there is none (section 6).
* `CountsAreBacked` is an upper bound, too. The counter may be lower than the calls
  it should cover, since a release that is replaced, or meant for a row dropped
  meanwhile, decrements whatever row the slot has now (section 6).

## 4. Fairness

* Goroutines that can take a step do (weak fairness per goroutine); it is what
  the Go scheduler gives. A mutex, or a channel that is ready again and again
  in a `select`, needs strong fairness (`WatchdogRestart`): Go's mutexes do
  not starve a waiter and `select` chooses at random.
* Deadlines expire (`Deadline` in `ModelLoader`, `ShutdownTargetFails` in
  `WatchDog`), since they are timers.
* Nothing obliges a client to send, a backend to answer an inference call, a
  process to crash or a connection to return. `RequestsReturn` assumes in its
  statement that `LoadModel` calls answer. `LoadJob` assumes that a load ends
  one way or the other: its deadline is extended only while bytes arrive.
* In `RealtimeSession` calls of models and tools end once their context is
  cancelled, since the context goes with each of them, and a summary also by
  its timeout; a call that nobody cancels may hang. The `select` of `handleVAD`
  does not choose the ticker for ever over a closed channel (strong fairness).
* In `ReplicaRows` the retries of the cleanup and the sweep run on tickers,
  and leases and recent uses lapse with time (weak fairness). A worker that
  is asked again and again to stop a process does so in the end, and the row
  is then removed (strong fairness: a frontend may be killed in between, but
  not for ever). That is not assumed of a worker that refuses the stop for
  its address: `StopsReplica` is disabled for its slot while the process
  runs, and nothing obliges the process to end. Nothing obliges a request to
  come, a backend to answer or a load to finish. `LeaksAreSwept` says of a
  slot that is not used any more, whose backend answers probes, that its
  counter returns to zero.

* In `GalleryOps` goroutines that can run do, statuses and stops that were sent
  are handled, the reapers' tickers fire, a frontend that crashed boots, and half
  an hour passes in which nothing is on its way (weak fairness). The worker need
  not take an operation, and an installation need not end, unless its context is
  cancelled.

## 5. Theorems

TLAPS checks these for all values of the constants that satisfy the named
assumptions.

`ModelLoaderProofs`, under `LoaderAssumption` (the sets of goroutines are
disjoint, the bounds are naturals; crashes and failing stops included):
`Typing`, `LoadsAreCoalesced`, `ShutdownExcludesLoads`, `NothingIsOverwritten`,
`NoProcessIsOrphaned`, and `LoaderIsOneSlot`, the refinement of `ModelSlot`.
None of the first three safety properties is inductive. The invariant `IInv` adds
that the semaphore excludes, that the step of a goroutine tells the mode in
which it holds the lock (`LockMatchesPC`), and that every queued goroutine is
queued once and is at the step its grant continues (`QueueMatchesPC`); the last
needs the fact about removing an element of the queue (`RemoveAtProperties`). A
shutdown then is alone because the exclusive mode is, and a leader's slot stays
empty because only a shutdown or another leader could change it.
`NoOrphanProcess` and the refinement speak of a loader none of whose processes
crashed and none of whose stops failed (`Calm`, which a step cannot restore:
`CalmBefore`). `Served` says what is then true of the processes: each is the
stored one, or belongs to a leader that has not published it yet; whoever probes
or stops a process has the stored one at hand, so nobody reaps. It rests on
`IInv`: there is one leader, its slot is empty, and a shutdown has the lock to
itself (`Apart`). The refinement is then shown step by step: a leader's start
finds no process at all (`NoProcessBefore`), the process it publishes is the one
it started (`ProcessOfLeader`), and a shutdown forgets the stored process after
it ended (`ProcessOfShutdown`).

The last part of that module is about the lock the loader takes for granted.
`EntriesAreOneLock` shows that the counted map of `OperationLocks` implements
`WeightedLock`, for the goroutines of the loader, any finite number of them, and
any set of entries (`ThreadsAssumption`, `EntriesAssumption`); with it,
`CountMatchesUsers` and `ExclusiveHolderIsAlone`. The invariant `OneEntry` says
that every goroutine at work has the entry in the map, that the count is their
number, and that the entry's semaphore knows just who waits and who holds
(`Matches`). The count is what keeps it: an entry leaves the map only when nobody
has it, so its semaphore is then free (`ReleaseReferenceStutters`), and what a
goroutine sees of the lock is the same before and after (`SeenStays`).

`WatchDogProofs`, under `WatchDogAssumption`, for any number of models, requests,
addresses and attempts: `TablesTyped`, `MarksFollowCalls` and
`PinnedAndBusyAreSpared` in every environment; `NoModelEscapes` while shutdowns
do not run out of time (`~DeadlinesExpire`), whichever checks are on;
`LimitHolds` and `GroupsStayApart` if loads also follow one another and the busy
and the idle check are off, which is the environment of `watchdog_serial`.
`LimitHolds` needs fewer pinned models than the limit as well: with as many, an
enforcement finds nothing that it may evict, asks for no other attempt, and the
load goes on beyond the limit.
`BusyMatchesCalls` is inductive only with the calls of an address distinct
(`Marks`), and with `Places`: a process has an address of its own and the
watchdog knows it under the right name, so that the call of `Free` before a stop
falls on an address without calls. For places a step is one of four: a process starts, fails
to start, is published, or nothing new is used (`Keeps`, `StepKinds`).
`NothingEscapes` becomes inductive as `Covered`, which speaks of processes that
are not published yet too, and counts only targets that a thread is about to
stop (`Doomed`); `Selected` says that the address `evictLRUModel` untracks late is
not used any more. The limit and the groups then are one argument: when the
shutdowns of an enforcement are over nobody is doomed (`NobodyDoomed`), so the
watchdog has every loaded model (`AllTracked`), and what it decided from its own
table (`Room`, `Conflicts`) holds of the loaded models; counting is an injection
of the loaded models into the tracked addresses (`RoomIsRoom`). The place of an address
in the LRU order (`lastUsed`) matters to none of these and is left out of
`Typed`; its typing is left to TLC, since the provers have no facts about
`SelectSeq`.

`WatchdogRestartProofs`, under `RestartAssumption`, for any number
of administrators, restarts and loads: `TypeCorrect`, `NoChannelIsClosedTwice`,
`OneRunIsActive`. The invariant (`IInv`): whoever is inside a stop or a restart
holds `watchdogMutex` (`Holding`), so the channel that was read is the one that
is closed (`Channels`), and the watchdog that was read is the one whose `Run` is
awaited (`Replaced`); therefore every `Run` but the current one has ended
(`Runs`). `Numbered` counts the watchdogs by the administrators that started
one, which is why their numbers never run out.

`LoadJobProofs`, under `LoadJobAssumption`: `JobTyping` without further
conditions; `LoadsOwnTheirRow` and `FailuresAreReported` while the database is
reachable (`MaxCuts = 0`) and no client leaves, for any number of replicas,
requests, claims, crashes, failures and evictions. The invariant (`JobInvariance`)
says which row a runner in every phase finds (`RunnersRow`), that a request
between its claim and its load has the row of that claim to itself
(`ClaimedRow`, `ClaimedAlone`), that a row is created only under the advisory
lock (`CreateLocked`), and that claims not yet made have no phase
(`FreshClaims`). TLC checks the same invariant on the instance of `load_job`.

`RealtimeProofs`, under `SessionAssumption`, for any number of runs of turn
detection, responses and items: `OneResponseIsLive`,
`NothingOutlivesTheSession`, and `SessionEndsInOrder`, the refinement of
`SessionTree`; under `CompactionAssumption` as well, for any trigger and limit
of the compaction, `NothingIsForgotten` and `MemoryStaysOlder`. The invariant (`IInv`) is `Shape`, `OneLive` and `Ended`. `Ended`
says, for each step of the teardown, which levels have been closed and have no
worker left: it is what makes `NoneOutlivesSession` inductive, since a response
that runs proves that the teardown has not passed its join, whatever else the
response does to the conversation. `Shape` is only as much typing as this
needs. The refinement has one lemma for each kind of step (`IssueIsTree`,
`BodyIsTree`, `EventIsTree`, `TeardownIsTree`, `DetectIsTree`,
`CompactingIsTree`): most steps leave the levels and their workers alone and
stutter.
The conversation has an invariant of its own (`Kept`), which needs nothing of
the teardown: from the start of a summary to its commit the memory is the one
the compaction began with, because only its goroutine changes it. A step does
one thing to the items or to the coordinator (`StepKinds`): it appends, removes
the item with an identity (`RemoveKeepsItems`), or compacts. A commit compares
the oldest items with those it copied, so what it cuts off is exactly what was
summarised (`CommitKeepsItems`). That a cut stays within the items needs the
maximum of a set (`CutInItems`, `MaxProperties`, from the library's theorem on
well-founded orders), and a removal needs what is left of a sequence without one
element (`RemoveAtProperties`).

`SupervisorProofs`, under `SupervisorAssumption`: `TypeCorrect`,
`PortsAreKept` and `AnswersStayIntact` for all constants, `PortsAreReserved` and `ClaimsProtect` while a
readiness deadline ends its process. Every action that touches ports is one of
three: it leaves them alone (`Quiet`), it drops an entry (`Drops`), or it spawns;
each invariant has one lemma for each (`QuietPorts`, `DropsPorts`,
`SpawnPorts`, ...). `PortReserved` is not inductive: `Reserved` adds
that the process of a start that is being given up has ended (`Ended`).
`ClaimProtects` follows from `Reserved` and `Named`, which says of every port in
a row or in an install's answer that its key claims it, or has lost it.
`AnswersIntact` has an invariant of its own (`Judged`). An install or upgrade at
work has the lock of its backend (`Locked`), and only such a request replaces a
directory with another or starts a process of the backend (`DiskKinds`,
`EntryKinds`); so what an install knows about the process under its key survives
the steps of all others (`Stable`), with one exception: a stop that fails clears
the mark `stopping`, and says so in `survived` (`Stays`). `Knows` states, for each
step of an install, what it knows: between the check of the directory and the
answer the process may still be one that is being stopped (`Spared`), and the
answer is given only if it is not (`Sound`).

`ReplicaRowsProofs`, under `ReplicaRowsAssumption`, for any number of slots,
frontends, requests, loads, cleaners and revisions: `RowsTypeCorrect`,
`NoStaleRowServes`, `CountsStayBacked`, and, for edits that only move forward,
`ReplacementsAreSpared`. Most statements only lower a row: they drop it, take it
out of service, or decrement it (`Lowers`); what remains is a load that writes
its row, an increment, and a crash. `CountsStayBacked` counts the units of a
slot (`Units`) and shows that a step moves at most one, that a crash leaves to
`leaked` what its requests had, and that a client which goes away during the
probe leaves its reservation there (`ReservationLost`); every other step keeps
`leaked` or resets it together with the counter. `ReplacementsAreSpared` needs
`Sparing`: rows being unloaded, and claims of a cleanup, are of an older
revision than the model's (`UnloadingOld`, `ClaimsSpared`); a load writes only
the model's (`Progress`), so a row of the claim's revision is still the row
that was read.

`GalleryOpsProofs`, under `GalleryOpsAssumption`, for any number of frontends,
stops, reports and crashes: `TypeCorrect`, `SettledRowStays`,
`SuccessIsRecorded` and `LastWordArrives`. The handler's control flow is a
relation of its own (`HandlerMoves`), from which `Pairs`, what it may be saying
before which step, and `Succeeds` follow without looking at the other
variables; `TypeOK` is inductive only together with `Pairs`. That a success is
recorded needs `Created`: once the handler is past `CreateRow` there is a row,
and no statement removes one. `Told` speaks of the last status that was sent to
a frontend instead of the one it shows, so merging, marking and reaping keep it;
it holds only where the handler is silent (it waits, ends, or is done), and
`Early` says that nobody was told of an end before the operation first waits.

Not proved, only model-checked: everything about liveness and fairness, which
the proof system does not cover. Every other property that a run checks is stated
by a theorem. The `TypeOK` of a module without a typing theorem is stated for its
reader.

## 6. What the code does not keep

The last section of a module states what comments or documentation of the code
say and the code does not do, or what one might expect of it. None of this is
among the runs of section 3. Where a configuration is named it ends in a
counterexample; elsewhere the constants that differ from the named one are
given.

Model loader:

* `pkg/model/process.go:53` says that callers of `deleteProcess` "serialize this
  operation per model". `checkIsLoaded` calls it (`loader.go:705`) with the
  operation lock shared: two requests probe a dead backend, and the slower one
  deletes, by name, the fresh backend that the faster one has loaded
  (`ReapsWhatItProbed`, `MCModelLoaderReap.cfg`).
* The cleanup of a failed load stops the model that another request has loaded
  meanwhile (`CleanupUnloadsNothing`, `MCModelLoaderCleanup.cfg`).
* A waiter retries once for every leader that fails before it (`RetriesOnce`;
  `MCModelLoader.cfg` with 3 requests, one handle, no faults).
* A forced shutdown gives up because a `LoadModel` call holds the operation
  lock (`ForceIgnoresCalls`; one request, no faults).
* A call starts between the last look at `IsBusy` and the stop
  (`GracefulWaitsForCalls`, `MCModelLoaderGraceful.cfg`).

Watchdog:

* Two requests for two models read an empty `ml.loading` before either
  registers its load, and the LRU limit is exceeded, though
  `pkg/model/initializers.go:387` says that it "accounts for models that are
  currently being loaded by other goroutines" (`LimitKept`,
  `MCWatchDogLimit.cfg`). Two members of a group are both loaded in the same
  way (`GroupsExclusive`; `MCWatchDogSerial.cfg` with 2 models, 2 requests, no
  limit, `SerialLoads = FALSE`).
* A model whose eviction runs out of time stays loaded and untracked
  (`NothingEscapes`; `MCWatchDogSerial.cfg` with 2 models, limit 1,
  `DeadlinesExpire = TRUE`).
* The idle mark of an old address stops, by name, the process loaded since
  (`StopsWhatWasIdle`; `MCWatchDogChecks.cfg` with 1 model, no limit, nothing
  pinned).
* `core/application/watchdog.go:180` waits "for the old watchdog's Run()
  goroutine to fully shut down". With only an LRU limit there is no `Run`, and
  `RestartWatchdog` waits for ever with the mutex held (`RestartReturns`,
  `MCWatchdogRestartLRUOnly.cfg`).
* Models loaded during a restart are forgotten (`KnowsLoadedModels`), busy
  marks are copied and never end (`BusyIsInFlight`), and the watchdog of boot is
  not stopped by `StopWatchdog` (`StopStops`): `MCWatchdogRestart.cfg` with one
  administrator and `FairSpec`.

Load job:

* `model_load_job.go:33` grants the window of an orphan so that a healthy
  transfer is not "stolen and restarted from zero". An owner that lost the
  database returns and deletes (`model_load_job.go:266`) or fails the row of its
  successor by the tracking key; the successor's healthy load is started again
  by the next claim (`HealthyLoadNotRestarted`, `MCLoadJobStolen.cfg`).
* A client that leaves during the claim causes an inline load beside the
  recorded one (`OneLoader`, `MCLoadJobLeave.cfg`).
* Late wakeups use up rounds (`RoundsFollowEvictions`; `MCLoadJobAnswers.cfg`
  with one eviction and no faults).

Realtime session:

* Two overlapping responses with `max_output_tokens` save and restore the same
  field of the model's configuration; the later one restores the limit of the
  earlier one for good (`LimitIsRestored`, `MCRealtimeLimit.cfg`).
* The cut between memory and live items is moved only while the first kept item
  is an output, so with two calls in a row, or an item between a call and its
  output, the pair is split, though `realtime_compaction.go:164` says "never
  split" (`PairsTogether`, `MCRealtimePairs.cfg`).
* When a streamed prediction fails at once, the outcome stays completed, and
  `response.done` follows the error (`FailureIsRecorded`,
  `MCRealtimeFailure.cfg`).
* A superseded response runs, and appends, until it looks at its context
  (`OneAppender`, after `docs/design/realtime-state-machines.md:287`;
  `MCRealtimeConversation.cfg` without client items, not streamed).

Worker supervisor:

* A process that survives a failed stop at its readiness deadline gives its port
  to the next start (`PortReserved`, `MCSupervisorDeadline.cfg`).
* `lifecycle.go:218` says of a delete that a key is appended "only after its
  process is confirmed gone". An install that runs beside the delete starts the
  key again before the files are removed (`lifecycle.go:245`), and the new
  process runs without its directory (`DeletedAreGone`,
  `MCSupervisorDelete.cfg`).
* A row reaches another model's process without any port having been stolen: a
  key that finds its claimed port held takes another one
  (`NoMisroute`, `MCSupervisorMisroute.cfg`).
* With an advertised host that is not the loopback address, an install that
  finds its process answers with an address which a later exact stop does not
  match (`MismatchMeansReplaced`, `MCSupervisorAddress.cfg`).
* An exact stop, once past its comparison, stops the replacement that was
  started under the same key and port (`NeverAReplacement`; two installs and two
  exact stops, 3 ports), and an install answers with an entry that is being
  stopped (`NotAdvertisedStopping`; two installs and one stop, 3 ports).

Replica rows (with `MCReplicaRows.cfg` and `MCReplicaRowsLoads.cfg`):

* Two loads read a free slot and write to it one after the other
  (`OneLoadPerSlot`), and the cleanup of a failed load removes a row that an
  edit has quarantined meanwhile (`CleanupIsDurable`).
* Once a configuration comes back, its row is indistinguishable from the one
  that was stopped (`CleanupSparesReplacement`, `MCReplicaRowsReturns.cfg`).
* A frontend keeps the release of one request at a time; a second one replaces
  it, and a route that gives up leaves a unit in the counter
  (`IdleReplicaIsFree`).
* A client that disconnects between `FindAndLockNodeWithModel` and the end of the
  probe takes the way of a failed probe, and both decrements of `tryWarmPath`
  (`router.go:726`, `:741`) are made on its cancelled context and only logged:
  one unit stays with no request, no call and no killed frontend (`OnlyKillsLeak`),
  although `newRouteResult` says how "client disconnect" is kept from "leaking"
  (`router.go:1972-1975`). Only the sweeper gives it back. The releases of later steps
  use `context.Background()`. The same request goes on to the cold load, and may
  load the model for a client that is gone.
* A worker that advertises another host than `127.0.0.1` rewrites the address in
  its answer to an install (`lifecycle.go:100`), and the row has that address;
  `stopModelExact` compares it with the loopback address of the process
  (`supervisor.go:882`) and refuses on every retry. A row quarantined by an edit
  stays `unloading` for as long as the process lives (`QuarantineEnds` without
  `refusing`); it is the other side of `MismatchMeansReplaced`.
* A decrement meant for a dropped row lowers the counter
  of its successor, and a replica with a call inside may be evicted
  (`NeverEvictedInUse`).

Gallery operations:

* `models.go:64` skips an installation "if another instance is already processing
  this element". `FindDuplicate` returns the active row with the smallest ID
  (`First` orders by the primary key), so the caller whose ID is the smallest
  finds itself and installs beside the other.
* A boot closes stale rows without a broadcast, and so does a reaper on a frontend
  that does not know the operation; peers go on showing it as active (the
  disjunct `unheard` of `OrphanEnds`).
* What is broadcast between `Hydrate` and `SubscribeBroadcasts` is lost to the
  frontend that boots, which may show an operation as active for ever (`heard` in
  `FinalWordArrives`).
* A stop and an older status come over two subscriptions, and `mergeStatus`
  overwrites whatever it finds, also a cancellation; without further statuses the
  operation is shown as active (the disjunct `Stopped` of `OrphanEnds`).
* A stop of an operation without a context that still waits is accepted, but
  nobody has its functions, and it runs (`WithContext` in `CancelArrives`).
* `applyCancel` does nothing when the status is cancelled already; on the
  frontend that runs the operation this may be so because a peer's reaper
  broadcast an object that a stop had marked, and the operation runs on
  (`live` in `CancelArrives`).
* A cancelled operation ends as failed in memory, since `updateError` overwrites
  the status, while its row stays cancelled.

From the second restart on, `Shutdown` of one watchdog is called twice, by its
handler and by the restart; the later call waits on the full channel with the
mutex that `Run` needs (`RestartReturns` with two administrators and
`Kinds = {"run"}`). A client that leaves between the claim and the check that
the model is loaded leaves its row behind, since the row is deleted on the
request's context; without a wait budget the other requests poll that row for
ever (`RequestsAnswered` without its condition).

Seen beside the models: `evictLRU` and `scaleDownIdle` send `model.unload`
without an address, and the worker's handler then frees whichever backend it
finds first; `ModelRouterAdapter.ReleaseModel` has no caller.

## 7. Plan

Done: the core of one node (locks, loader, watchdog and its restart), the
distributed load job, the realtime session, the worker's supervisor, the replica
rows and the gallery operations, with proofs where section 5 names them.

Next, in this order:

1. Nodes: the sweep of abandoned loads, pending backend operations, ephemeral
   capacity, the leader loop and its advisory lock.
2. Realtime: the speech pipeline (`ttscoord`) and the audio buffer with its
   commits.
3. Services: two gallery operations of one element and their cache, admission,
   job dispatcher, state synchronisation between replicas.
4. Composition: `ReplicaRows` over `Supervisor`, with addresses in the rows;
   `LoadJob` over `ReplicaRows`.

Not modelled, and not planned: request translation, parsing, galleries and
configuration files (no concurrency of their own), the inference backends and
the peer-to-peer network (external), the desktop shell.
