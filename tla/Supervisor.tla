----------------------------- MODULE Supervisor -----------------------------
(***************************************************************************)
(* The worker's backend supervisor (core/services/worker/supervisor.go,    *)
(* install.go, lifecycle.go): the gRPC ports it hands out, the processes   *)
(* that hold them, and the NATS requests that start and stop them, beside  *)
(* the controller's rows that name an address (core/services/nodes).       *)
(*                                                                         *)
(* A process key is modelID#replica, and a row of this worker is keyed by  *)
(* the same pair.  A request is one NATS message with its handler.  Install *)
(* and upgrade handlers run in a goroutine under the lock of their         *)
(* backend; the others run one after the other on their subscription.      *)
(* Steps under s.mu are one action; a proc.Stop and what follows it are    *)
(* actions of their own.  Lists of ports are sets: which port of several   *)
(* is taken is left open.                                                  *)
(***************************************************************************)
EXTENDS FiniteSets, Integers

CONSTANTS
    Keys,               \* process keys
    Backends,           \* gallery backends, the names under which they install
    None,               \* no key, no backend, no request
    Installs,           \* requests: backend.install
    Forced,             \* the installs with Force
    Stops,              \* requests: backend.stop
    ExactStops,         \* requests: model.stop
    Deletes,            \* requests: backend.delete
    Upgrades,           \* requests: backend.upgrade
    MaxPort,            \* the ports are 1..MaxPort
    MaxProc,            \* bound on the processes alive or still referred to
    MaxRequests,        \* bound on the requests ever sent
    MaxDir,             \* bound on the directories ever installed
    SurvivesDeadline,   \* proc.Stop may fail at the readiness deadline
    OtherHost           \* the advertised host is not the loopback address

Requests == Installs \cup Stops \cup ExactStops \cup Deletes \cup Upgrades
Port == 1..MaxPort
Proc == 1..MaxProc

ASSUME SupervisorAssumption ==
    /\ MaxPort \in Nat /\ MaxProc \in Nat /\ MaxRequests \in Nat /\ MaxDir \in Nat \ {0}
    /\ None \notin Keys \cup Backends \cup Requests
    /\ Forced \subseteq Installs
    /\ Installs \cap (Stops \cup ExactStops \cup Deletes \cup Upgrades) = {}
    /\ Stops \cap (ExactStops \cup Deletes \cup Upgrades) = {}
    /\ ExactStops \cap (Deletes \cup Upgrades) = {} /\ Deletes \cap Upgrades = {}
    /\ SurvivesDeadline \in BOOLEAN /\ OtherHost \in BOOLEAN

VARIABLES
    proc,               \* proc[i]: process i, as the operating system knows it
    entry,              \* s.processes; survived, a history: a stop of it failed
    nextPort,           \* s.nextPort
    freePorts,          \* s.freePorts
    quarantined,        \* s.quarantinedPorts
    affinity,           \* s.portAffinity; port 0 is no claim
    lost,               \* history: <<k, p>> if k's claim on p went to another key, or k
                        \* left it for another port
    disk,               \* disk[b]: identity of b's directory, 0 if there is none
    dirs,               \* number of directories ever installed
    lock,               \* s.backendLocks: the request that holds b's lock
    req,                \* req[r]: the local state of r's handler
    rows                \* rows[k]: the controller's row of k

portVars == <<nextPort, freePorts, quarantined, affinity, lost>>
procVars == <<proc, entry>>
diskVars == <<disk, dirs>>
vars == <<procVars, portVars, diskVars, lock, req, rows>>

NoProc == [key |-> None, port |-> 0, alive |-> FALSE]
NoEntry == [id |-> 0, port |-> 0, backend |-> None, dir |-> 0, serving |-> FALSE,
            stopping |-> FALSE, survived |-> FALSE]
NoClaim == [port |-> 0, held |-> FALSE]
NoRow == [port |-> 0, state |-> "none", id |-> 0]

\* key, backend: of the message; target: the key it is stopping; id: the bp it
\* holds; port: an address it has read, expects or answers (0 is an error);
\* back: where it goes on after a stop; lenient: it ignores a failed stop;
\* report: it names the key among those it stopped.
Idle == [pc |-> "idle", key |-> None, backend |-> None, target |-> None, id |-> 0,
         port |-> 0, back |-> "idle", lenient |-> FALSE, report |-> FALSE,
         todo |-> {}, stopped |-> {}]

Steps ==
    {"idle", "queued", "lock", "addr", "judge", "find", "check", "spawn", "ready", "release",
     "list", "next", "begin", "kill", "finish", "files", "reply", "sent", "done"}

Handler ==
    [pc : Steps, key : Keys \cup {None}, backend : Backends \cup {None},
     target : Keys \cup {None}, id : 0..MaxProc, port : 0..MaxPort,
     back : {"idle", "find", "spawn", "next", "reply"}, lenient : BOOLEAN,
     report : BOOLEAN, todo : SUBSET Keys, stopped : SUBSET Keys]

TypeOK ==
    /\ proc \in [Proc -> [key : Keys \cup {None}, port : 0..MaxPort, alive : BOOLEAN]]
    /\ entry \in [Keys -> [id : 0..MaxProc, port : 0..MaxPort, backend : Backends \cup {None},
                           dir : 0..MaxDir, serving : BOOLEAN, stopping : BOOLEAN,
                           survived : BOOLEAN]]
    /\ nextPort \in 1..(MaxPort + 1)
    /\ freePorts \subseteq Port
    /\ quarantined \subseteq Port
    /\ affinity \in [Keys -> [port : 0..MaxPort, held : BOOLEAN]]
    /\ lost \subseteq Keys \X Port
    /\ disk \in [Backends -> 0..MaxDir]
    /\ dirs \in 0..MaxDir
    /\ lock \in [Backends -> Requests \cup {None}]
    /\ req \in [Requests -> Handler]
    /\ rows \in [Keys -> [port : 0..MaxPort, state : {"none", "loaded", "unloading"},
                          id : 0..MaxProc]]

Init ==
    /\ proc = [i \in Proc |-> NoProc]
    /\ entry = [k \in Keys |-> NoEntry]
    /\ nextPort = 1
    /\ freePorts = {}
    /\ quarantined = {}
    /\ affinity = [k \in Keys |-> NoClaim]
    /\ lost = {}
    /\ disk = [b \in Backends |-> 1]
    /\ dirs = 1
    /\ lock = [b \in Backends |-> None]
    /\ req = [r \in Requests |-> Idle]
    /\ rows = [k \in Keys |-> NoRow]

-----------------------------------------------------------------------------
(***************************************************************************)
(* Processes and entries.                                                  *)
(***************************************************************************)
Tracked(k) == entry[k].id # 0
Alive(k) == Tracked(k) /\ proc[entry[k].id].alive
PortOf(k) == entry[k].port
Live == {i \in Proc : proc[i].alive}
HeldPorts == {PortOf(k) : k \in {j \in Keys : Tracked(j)}}

\* backendDirIntact: the directory the process runs out of is still installed.
DirIntact(k) == entry[k].dir = disk[entry[k].backend]

\* processMatchesBackend.
MatchesBackend(k, b) == Tracked(k) /\ entry[k].backend = b /\ DirIntact(k)

\* resolveProcessKeysForBackend.
KeysForBackend(b) == {k \in Keys : Tracked(k) /\ entry[k].backend = b}

Dies(i) == proc' = [proc EXCEPT ![i] = NoProc]

-----------------------------------------------------------------------------
(***************************************************************************)
(* The port allocator.                                                     *)
(***************************************************************************)
Owned(p) == \E k \in Keys : affinity[k].port = p

\* Wrong form: a released port keeps no claim.
ReleasedUnclaimed(k) == [affinity EXCEPT ![k] = NoClaim]

\* releasePortForKey of the port of k's process, with the end of its entry.
\* claimPort takes the port from any other owner.
Released(k) ==
    [j \in Keys |-> IF j = k THEN [port |-> PortOf(k), held |-> FALSE]
                    ELSE IF affinity[j].port = PortOf(k) THEN NoClaim ELSE affinity[j]]

DropEntry(k) ==
    /\ entry' = [entry EXCEPT ![k] = NoEntry]
    /\ quarantined' = quarantined \cup {PortOf(k)}
    /\ affinity' = Released(k)
    /\ UNCHANGED <<nextPort, freePorts, lost>>

\* allocatePort(k): k's own port if it is out of quarantine, then a port that
\* nobody claims, then a port never handed out, then one that another key claims.
Choices(k) ==
    LET unowned == {p \in freePorts : ~Owned(p)}
    IN  IF affinity[k].port \in freePorts THEN {affinity[k].port}
        ELSE IF unowned # {} THEN unowned
        ELSE IF nextPort <= MaxPort THEN {nextPort}
        ELSE freePorts

\* claimPort(k, p): the port changes hands, and k gives up its former one.
ClaimPort(k, p) ==
    [j \in Keys |-> IF j = k THEN [port |-> p, held |-> TRUE]
                    ELSE IF affinity[j].port = p THEN NoClaim ELSE affinity[j]]

\* The claims that end: of the others on p, and of k on its former port.
Lost(k, p) ==
    {<<j, p>> : j \in {i \in Keys \ {k} : affinity[i].port = p}}
        \cup {<<k, q>> : q \in {affinity[k].port} \ {0, p}}

TakePort(k, p) ==
    /\ nextPort' = IF p = nextPort THEN nextPort + 1 ELSE nextPort
    /\ freePorts' = freePorts \ {p}
    /\ affinity' = ClaimPort(k, p)
    /\ lost' = (lost \cup Lost(k, p)) \ {<<k, p>>}

\* sweepQuarantine, at any time: only an allocation looks at the free ports.
QuarantineEnds(p) ==
    /\ p \in quarantined
    /\ quarantined' = quarantined \ {p}
    /\ freePorts' = freePorts \cup {p}
    /\ UNCHANGED <<nextPort, affinity, lost, procVars, diskVars, lock, req, rows>>

\* sweepAffinity.  The window outlives every row and answer that names the port.
AffinityLapses(k) ==
    /\ affinity[k].port # 0
    /\ ~affinity[k].held
    /\ rows[k].port # affinity[k].port
    /\ \A r \in Installs : req[r].key = k => req[r].port # affinity[k].port
    /\ affinity' = [affinity EXCEPT ![k] = NoClaim]
    /\ UNCHANGED <<nextPort, freePorts, quarantined, lost, procVars, diskVars, lock,
                   req, rows>>

-----------------------------------------------------------------------------
(***************************************************************************)
(* Handlers.                                                               *)
(***************************************************************************)
\* Callbacks of one subscription run one after the other.
Turn(r, kind) == \A q \in kind \ {r} : req[q].pc \in {"idle", "queued", "sent", "done"}

Goto(r, step) == req' = [req EXCEPT ![r].pc = step]

\* The handler of r answers; port 0 is an error or an answer without address.
Answer(r, p) == req' = [req EXCEPT ![r].pc = "reply", ![r].port = p, ![r].id = 0]

\* stopBackendExact(k, force), then go on at back.
StopFirst(r, k, back, lenient) ==
    req' = [req EXCEPT ![r].pc = "begin", ![r].target = k, ![r].back = back,
                       ![r].lenient = lenient]

\* Wrong form: the lock of the backend is not waited for.
LockBackendFree(r) ==
    LET b == req[r].backend IN
    /\ req[r].pc = "lock"
    /\ lock' = [lock EXCEPT ![b] = r]
    /\ Goto(r, IF r \in Upgrades \cup Forced THEN "list" ELSE "addr")
    /\ UNCHANGED <<procVars, portVars, diskVars, rows>>

\* lockBackend, of an install or an upgrade.
LockBackend(r) ==
    LET b == req[r].backend IN
    /\ req[r].pc = "lock"
    /\ lock[b] = None
    /\ lock' = [lock EXCEPT ![b] = r]
    /\ Goto(r, IF r \in Upgrades \cup Forced THEN "list" ELSE "addr")
    /\ UNCHANGED <<procVars, portVars, diskVars, rows>>

-----------------------------------------------------------------------------
(***************************************************************************)
(* stopBackendExact: mark the entry, stop the process, end the entry.      *)
(***************************************************************************)
\* It returns: ok tells whether it failed to stop a process.
Returned(r, ok) ==
    LET q == req[r] IN
    req' = [req EXCEPT ![r] =
              IF ok \/ q.lenient
              THEN [q EXCEPT !.pc = q.back, !.id = 0, !.target = None,
                             !.stopped = IF ok /\ q.report THEN @ \cup {q.target} ELSE @]
              ELSE [q EXCEPT !.pc = "reply", !.id = 0, !.target = None, !.port = 0]]

BeginBackendStop(r) ==
    LET k == req[r].target IN
    /\ req[r].pc = "begin"
    /\ IF Tracked(k) /\ ~entry[k].stopping
       THEN /\ entry' = [entry EXCEPT ![k].stopping = TRUE]
            /\ req' = [req EXCEPT ![r].pc = "kill", ![r].id = entry[k].id]
       ELSE /\ Returned(r, TRUE)
            /\ UNCHANGED entry
    /\ UNCHANGED <<proc, portVars, diskVars, lock, rows>>

\* Free, unless forced, and proc.Stop: an error may leave the process alive.
StopProcess(r) ==
    /\ req[r].pc = "kill"
    /\ Dies(req[r].id) \/ UNCHANGED proc
    /\ Goto(r, "finish")
    /\ UNCHANGED <<entry, portVars, diskVars, lock, rows>>

\* Wrong form: the entry ends although the process survived the stop.
FinishAnyway(r) ==
    LET k == req[r].target IN
    /\ req[r].pc = "finish"
    /\ IF entry[k].id # req[r].id
       THEN UNCHANGED <<entry, portVars>>
       ELSE DropEntry(k)
    /\ Returned(r, TRUE)
    /\ UNCHANGED <<proc, diskVars, lock, rows>>

FinishBackendStop(r) ==
    LET k == req[r].target IN
    /\ req[r].pc = "finish"
    /\ \/ /\ entry[k].id # req[r].id
          /\ Returned(r, TRUE)
          /\ UNCHANGED <<entry, portVars>>
       \/ /\ entry[k].id = req[r].id
          /\ Alive(k)
          /\ entry' = [entry EXCEPT ![k].stopping = FALSE, ![k].survived = TRUE]
          /\ Returned(r, FALSE)
          /\ UNCHANGED portVars
       \/ /\ entry[k].id = req[r].id
          /\ ~Alive(k)
          /\ DropEntry(k)
          /\ Returned(r, TRUE)
    /\ UNCHANGED <<proc, diskVars, lock, rows>>

\* The keys a handler stops one after the other.
StopNext(r) ==
    /\ req[r].pc = "next"
    /\ \/ /\ req[r].todo = {}
          /\ IF r \in Stops THEN Answer(r, 0)
             ELSE Goto(r, IF r \in Deletes THEN "files" ELSE "find")
       \/ \E k \in req[r].todo :
            req' = [req EXCEPT ![r].pc = "begin", ![r].target = k,
                               ![r].todo = req[r].todo \ {k}, ![r].back = "next",
                               ![r].lenient = r \in Stops,
                               ![r].report = r \in Deletes \/ (r \in Upgrades /\ Tracked(k))]
    /\ UNCHANGED <<procVars, portVars, diskVars, lock, rows>>

-----------------------------------------------------------------------------
(***************************************************************************)
(* backend.install.                                                        *)
(***************************************************************************)
\* The fast path: the address of the key's entry ...
ReadAddr(r) ==
    LET k == req[r].key IN
    /\ req[r].pc = "addr"
    /\ req' = [req EXCEPT ![r].pc = IF Tracked(k) THEN "judge" ELSE "find",
                          ![r].port = IF Tracked(k) THEN PortOf(k) ELSE 0]
    /\ UNCHANGED <<procVars, portVars, diskVars, lock, rows>>

\* ... is the answer if the process may serve the backend and is alive.
JudgeProcess(r) ==
    LET k == req[r].key IN
    /\ req[r].pc = "judge"
    /\ \/ /\ MatchesBackend(k, req[r].backend)
          /\ Alive(k)
          /\ Answer(r, req[r].port)
       \/ /\ ~(MatchesBackend(k, req[r].backend) /\ Alive(k))
          /\ StopFirst(r, k, "find", MatchesBackend(k, req[r].backend))
    /\ UNCHANGED <<procVars, portVars, diskVars, lock, rows>>

\* findBackend, or the gallery, which replaces the directory or fails.
FindOrInstall(r) ==
    LET b == req[r].backend
        then == IF r \in Upgrades THEN "reply" ELSE "check" IN
    /\ req[r].pc = "find"
    /\ \/ /\ r \in Installs \ Forced
          /\ disk[b] # 0
          /\ req' = [req EXCEPT ![r].pc = "check", ![r].port = 0]
          /\ UNCHANGED diskVars
       \/ /\ r \in Upgrades \cup Forced \/ disk[b] = 0
          /\ \/ /\ dirs < MaxDir
                /\ dirs' = dirs + 1
                /\ disk' = [disk EXCEPT ![b] = dirs + 1]
                /\ req' = [req EXCEPT ![r].pc = then, ![r].port = 0]
             \/ /\ Answer(r, 0)
                /\ UNCHANGED diskVars
    /\ UNCHANGED <<procVars, portVars, lock, rows>>

\* startBackend first stops a process whose directory was replaced.
CheckDirectory(r) ==
    LET k == req[r].key IN
    /\ req[r].pc = "check"
    /\ IF Tracked(k) /\ ~DirIntact(k)
       THEN StopFirst(r, k, "spawn", FALSE)
       ELSE Goto(r, "spawn")
    /\ UNCHANGED <<procVars, portVars, diskVars, lock, rows>>

\* startBackend finds the key being stopped, or running.
AlreadyThere(r) ==
    LET k == req[r].key IN
    /\ req[r].pc = "spawn"
    /\ \/ /\ Tracked(k) /\ entry[k].stopping
          /\ Answer(r, 0)
       \/ /\ Alive(k) /\ ~entry[k].stopping
          /\ Answer(r, PortOf(k))
    /\ UNCHANGED <<procVars, portVars, diskVars, lock, rows>>

\* Wrong form: a dead process is reaped without releasing its port.
ReapedOnly(k) == quarantined

\* A dead process is reaped first: its port goes into quarantine.
Reaped(k) == IF Tracked(k) THEN quarantined \cup {PortOf(k)} ELSE quarantined

\* A process that is not alive, and that nothing refers to.
Unused(i) ==
    /\ ~proc[i].alive
    /\ \A k \in Keys : entry[k].id # i /\ rows[k].id # i
    /\ \A r \in Requests : req[r].id # i

MaySpawn(r) ==
    LET k == req[r].key IN
    /\ req[r].pc = "spawn"
    /\ ~entry[k].stopping
    /\ ~Alive(k)

SpawnProcess(r) ==
    LET k == req[r].key
        b == req[r].backend IN
    /\ MaySpawn(r)
    /\ disk[b] # 0
    /\ \E i \in Proc, p \in Choices(k) :
        /\ Unused(i) /\ \A j \in 1..(i - 1) : ~Unused(j)
        /\ TakePort(k, p)
        /\ proc' = [proc EXCEPT ![i] = [key |-> k, port |-> p, alive |-> TRUE]]
        /\ entry' = [entry EXCEPT ![k] = [id |-> i, port |-> p, backend |-> b,
                                          dir |-> disk[b], serving |-> FALSE,
                                          stopping |-> FALSE, survived |-> FALSE]]
        /\ req' = [req EXCEPT ![r].pc = "ready", ![r].id = i, ![r].port = p]
    /\ quarantined' = Reaped(k)
    /\ UNCHANGED <<diskVars, lock, rows>>

\* The process does not start: its port goes through quarantine, too.
SpawnFails(r) ==
    LET k == req[r].key IN
    /\ MaySpawn(r)
    /\ \E p \in Choices(k) :
        /\ nextPort' = IF p = nextPort THEN nextPort + 1 ELSE nextPort
        /\ freePorts' = freePorts \ {p}
        /\ affinity' = [ClaimPort(k, p) EXCEPT ![k].held = FALSE]
        /\ lost' = (lost \cup Lost(k, p)) \ {<<k, p>>}
        /\ quarantined' = Reaped(k) \cup {p}
    /\ entry' = [entry EXCEPT ![k] = NoEntry]
    /\ Answer(r, 0)
    /\ UNCHANGED <<proc, diskVars, lock, rows>>

\* ErrNoFreePort.
NoFreePort(r) ==
    LET k == req[r].key IN
    /\ MaySpawn(r)
    /\ Choices(k) = {}
    /\ IF Tracked(k) THEN DropEntry(k) ELSE UNCHANGED <<entry, portVars>>
    /\ Answer(r, 0)
    /\ UNCHANGED <<proc, diskVars, lock, rows>>

\* The health check reaches whatever listens on the port: markBackendServing.
BecomesReady(r) ==
    LET k == req[r].key IN
    /\ req[r].pc = "ready"
    /\ \E i \in Live : proc[i].port = req[r].port
    /\ IF entry[k].id = req[r].id /\ ~entry[k].stopping
       THEN /\ entry' = [entry EXCEPT ![k].serving = TRUE]
            /\ Answer(r, req[r].port)
       ELSE /\ Answer(r, 0)
            /\ UNCHANGED entry
    /\ UNCHANGED <<proc, portVars, diskVars, lock, rows>>

DiesDuringStart(r) ==
    /\ req[r].pc = "ready"
    /\ ~proc[req[r].id].alive
    /\ Goto(r, "release")
    /\ UNCHANGED <<procVars, portVars, diskVars, lock, rows>>

\* The deadline of readiness: proc.Stop, whose error is only logged.
ReadinessTimeout(r) ==
    /\ req[r].pc = "ready"
    /\ Dies(req[r].id) \/ (SurvivesDeadline /\ UNCHANGED proc)
    /\ Goto(r, "release")
    /\ UNCHANGED <<entry, portVars, diskVars, lock, rows>>

ReleaseBackendStart(r) ==
    LET k == req[r].key IN
    /\ req[r].pc = "release"
    /\ IF entry[k].id = req[r].id
       THEN DropEntry(k)
       ELSE UNCHANGED <<entry, portVars>>
    /\ Answer(r, 0)
    /\ UNCHANGED <<proc, diskVars, lock, rows>>

-----------------------------------------------------------------------------
(***************************************************************************)
(* backend.stop, backend.delete, backend.upgrade and model.stop.           *)
(***************************************************************************)
\* resolveStopTargets and resolveProcessKeysForBackend.
ListKeys(r) ==
    LET q == req[r] IN
    /\ q.pc = "list"
    /\ req' = [req EXCEPT ![r].pc = "next",
                          ![r].todo = IF r \in Stops THEN {k \in {q.key} : Tracked(k)}
                                      ELSE KeysForBackend(q.backend) \cup ({q.key} \ {None})]
    /\ UNCHANGED <<procVars, portVars, diskVars, lock, rows>>

\* DeleteBackendFromSystem.
RemoveFiles(r) ==
    /\ req[r].pc = "files"
    /\ disk' = [disk EXCEPT ![req[r].backend] = 0]
    /\ Goto(r, "reply")
    /\ UNCHANGED <<procVars, portVars, dirs, lock, rows>>

\* stopModelExact compares the address it recorded with the one it was told.
SameAddress(r) == ~OtherHost /\ PortOf(req[r].key) = req[r].port

\* It answers whether the process is gone: back = "reply" if it is.
StopModelExact(r) ==
    LET k == req[r].key IN
    /\ r \in ExactStops
    /\ req[r].pc = "queued"
    /\ Turn(r, ExactStops)
    /\ \/ /\ ~Tracked(k)
          /\ req' = [req EXCEPT ![r].pc = "reply", ![r].back = "reply"]
          /\ UNCHANGED entry
       \/ /\ Tracked(k)
          /\ ~SameAddress(r) \/ entry[k].stopping
          /\ Goto(r, "reply")
          /\ UNCHANGED entry
       \/ /\ Tracked(k) /\ ~entry[k].stopping
          /\ SameAddress(r)
          /\ entry' = [entry EXCEPT ![k].stopping = TRUE]
          /\ req' = [req EXCEPT ![r].pc = "kill", ![r].target = k, ![r].id = entry[k].id,
                                ![r].back = "reply"]
    /\ UNCHANGED <<proc, portVars, diskVars, lock, rows>>

-----------------------------------------------------------------------------
(***************************************************************************)
(* The controller: it sends the requests and keeps the rows.               *)
(***************************************************************************)
MaySend(r) ==
    /\ req[r].pc = "idle"
    /\ Cardinality({q \in Requests : req[q].pc # "idle"}) < MaxRequests

Send(r, kind, step, k, b) ==
    /\ r \in kind
    /\ MaySend(r)
    /\ req' = [req EXCEPT ![r].pc = step, ![r].key = k, ![r].backend = b]
    /\ UNCHANGED <<procVars, portVars, diskVars, lock, rows>>

\* NextFreeReplicaIndex: the key has no row, or one that is being unloaded.
SendInstall(r, k, b) == rows[k].state # "loaded" /\ Send(r, Installs, "lock", k, b)
SendStop(r, k) == Turn(r, Stops) /\ Send(r, Stops, "list", k, None)
SendDelete(r, b) == Turn(r, Deletes) /\ Send(r, Deletes, "list", None, b)
SendUpgrade(r, b) == Send(r, Upgrades, "lock", None, b)

\* StopModelReplica names the address of the row.
SendExactStop(r, k) ==
    /\ r \in ExactStops
    /\ MaySend(r)
    /\ rows[k].state = "unloading"
    /\ req' = [req EXCEPT ![r].pc = "queued", ![r].key = k, ![r].port = rows[k].port]
    /\ UNCHANGED <<procVars, portVars, diskVars, lock, rows>>

\* replyJSON, and the release of the backend's lock.
Reply(r) ==
    /\ req[r].pc = "reply"
    /\ Goto(r, "sent")
    /\ lock' = [b \in Backends |-> IF lock[b] = r THEN None ELSE lock[b]]
    /\ UNCHANGED <<procVars, portVars, diskVars, rows>>

Done(r) == req' = [req EXCEPT ![r] = [Idle EXCEPT !.pc = "done"]]

\* An answer that is an error, or comes after the controller's timeout.
AnswerUnused(r) ==
    /\ req[r].pc = "sent"
    /\ Done(r)
    /\ UNCHANGED <<procVars, portVars, diskVars, lock, rows>>

\* scheduleAndLoad: the load goes to the address; a row stays if it succeeds.
RowLoaded(r) ==
    LET k == req[r].key IN
    /\ r \in Installs
    /\ req[r].pc = "sent"
    /\ req[r].port # 0
    /\ \/ \E i \in Live :
            /\ proc[i].port = req[r].port
            /\ rows' = [rows EXCEPT ![k] = [port |-> req[r].port, state |-> "loaded",
                                            id |-> i]]
       \/ rows' = [rows EXCEPT ![k] = NoRow]
    /\ Done(r)
    /\ UNCHANGED <<procVars, portVars, diskVars, lock>>

\* dropStoppedReplicaRows.
RowsDropped(r) ==
    /\ r \in Deletes \cup Upgrades
    /\ req[r].pc = "sent"
    /\ rows' = [k \in Keys |-> IF k \in req[r].stopped THEN NoRow ELSE rows[k]]
    /\ Done(r)
    /\ UNCHANGED <<procVars, portVars, diskVars, lock>>

\* Cleanup: RemoveClaimedModelCleanup if the worker answers that it is gone.
Terminated(r) == req[r].back = "reply" /\ req[r].port # 0

RowCleaned(r) ==
    LET k == req[r].key IN
    /\ r \in ExactStops
    /\ req[r].pc = "sent"
    /\ Terminated(r)
    /\ rows[k].state = "unloading"
    /\ rows[k].port = req[r].port
    /\ rows' = [rows EXCEPT ![k] = NoRow]
    /\ Done(r)
    /\ UNCHANGED <<procVars, portVars, diskVars, lock>>

\* AdvanceModelConfigRevisions: the row waits for its cleanup.
RowUnloading(k) ==
    /\ rows[k].state = "loaded"
    /\ rows' = [rows EXCEPT ![k].state = "unloading"]
    /\ UNCHANGED <<procVars, portVars, diskVars, lock, req>>

\* A probe that fails, a reconciliation or an unload removes a row.
RowRemoved(k) ==
    /\ rows[k].state = "loaded"
    /\ rows' = [rows EXCEPT ![k] = NoRow]
    /\ UNCHANGED <<procVars, portVars, diskVars, lock, req>>

\* A process ends by itself: out of memory, a fault of the device.
ProcessDies(i) ==
    /\ proc[i].alive
    /\ Dies(i)
    /\ UNCHANGED <<entry, portVars, diskVars, lock, req, rows>>

-----------------------------------------------------------------------------
InstallStep(r) ==
    \/ ReadAddr(r) \/ JudgeProcess(r) \/ CheckDirectory(r) \/ AlreadyThere(r)
    \/ SpawnProcess(r) \/ SpawnFails(r) \/ NoFreePort(r)
    \/ BecomesReady(r) \/ DiesDuringStart(r) \/ ReadinessTimeout(r)
    \/ ReleaseBackendStart(r)

StopStep(r) ==
    \/ BeginBackendStop(r) \/ StopProcess(r) \/ FinishBackendStop(r) \/ StopNext(r)
    \/ ListKeys(r) \/ RemoveFiles(r) \/ StopModelExact(r)

ControllerStep(r) ==
    \/ \E k \in Keys, b \in Backends : SendInstall(r, k, b)
    \/ \E k \in Keys : SendStop(r, k) \/ SendExactStop(r, k)
    \/ \E b \in Backends : SendDelete(r, b) \/ SendUpgrade(r, b)
    \/ AnswerUnused(r) \/ RowLoaded(r) \/ RowsDropped(r) \/ RowCleaned(r)

Next ==
    \/ \E r \in Requests :
        \/ InstallStep(r) \/ StopStep(r) \/ ControllerStep(r)
        \/ LockBackend(r) \/ FindOrInstall(r) \/ Reply(r)
    \/ \E k \in Keys : AffinityLapses(k) \/ RowUnloading(k) \/ RowRemoved(k)
    \/ \E p \in Port : QuarantineEnds(p)
    \/ \E i \in Proc : ProcessDies(i)

Spec == Init /\ [][Next]_vars

-----------------------------------------------------------------------------
\* Every port handed out is held by one entry, free, or in quarantine, and in
\* no two of them: neither a crash loop, nor a failed start, nor two handlers
\* that stop the same process lose a port or release it twice.  (reapDeadProcess,
\* releaseBackendStart and finishBackendStop of supervisor.go)
PortsPartitioned ==
    /\ HeldPorts \cup freePorts \cup quarantined = 1..(nextPort - 1)
    /\ freePorts \cap quarantined = {}
    /\ HeldPorts \cap (freePorts \cup quarantined) = {}
    /\ \A j, k \in Keys : Tracked(j) /\ Tracked(k) /\ j # k => PortOf(j) # PortOf(k)

\* A live process is the one its key's entry stands for, on that entry's port:
\* no other process is started on the port while it lives.  (finishBackendStop)
PortReserved ==
    \A i \in Live : entry[proc[i].key].id = i /\ PortOf(proc[i].key) = proc[i].port

\* A row reaches no other key's process as long as its key's claim on the port
\* was neither taken by another key, when the range was used up, nor left for
\* another port.  (allocatePort, claimPort and releasePortForKey)
ClaimProtects ==
    \A k \in Keys : \A i \in Live :
        /\ rows[k].state = "loaded"
        /\ rows[k].port = proc[i].port
        /\ <<k, proc[i].port>> \notin lost
        => proc[i].key = k

\* An install does not answer with a process of its backend whose directory was
\* replaced: such a process answers health checks and fails at the first load.
\* Not so if the files are being deleted, or if a stop of the process failed.
\* (processMatchesBackend, backendDirIntact and lockBackend)
AnswersIntact ==
    \A r \in Installs :
        LET k == req[r].key IN
        /\ req[r].pc = "reply"
        /\ req[r].port # 0
        /\ Alive(k)
        /\ PortOf(k) = req[r].port
        /\ entry[k].backend = req[r].backend
        => \/ entry[k].dir = disk[req[r].backend]
           \/ disk[req[r].backend] = 0 \/ entry[k].survived

-----------------------------------------------------------------------------
(***************************************************************************)
(* What comments of the code say, and the code does not do.                *)
(***************************************************************************)
\* "A stale row can therefore never resolve to a *different* model's backend",
\* as long as no port had to be stolen.  (allocatePort)
NoMisroute ==
    nextPort <= MaxPort =>
        \A k \in Keys : \A i \in Live :
            rows[k].state = "loaded" /\ rows[k].port = proc[i].port => proc[i].key = k

\* "a stale controller request can never stop a replacement under the same
\* key": the process it stops is the one that the row stood for.  (stopModelExact)
NeverAReplacement ==
    \A r \in ExactStops :
        req[r].pc = "kill" => rows[req[r].key].id \in {0, req[r].id}

\* An exact stop that is refused for its address meant another process: the one
\* of the row was replaced.  (stopModelExact, handleBackendInstall)
MismatchMeansReplaced ==
    \A r \in ExactStops :
        LET k == req[r].key IN
        req[r].pc = "reply" /\ req[r].back = "idle" /\ Alive(k) /\ ~entry[k].stopping =>
            rows[k].id # entry[k].id

\* "A key is appended only after its process is confirmed gone": when the files
\* are removed no process of the listed keys still runs.  (handleBackendDelete)
DeletedAreGone ==
    \A r \in Deletes : \A k \in req[r].stopped :
        req[r].pc = "reply" /\ Alive(k) => entry[k].backend # req[r].backend

\* A stopping entry "must not be advertised as ready".  (startBackend)
NotAdvertisedStopping ==
    [][\A r \in Installs :
        req[r].pc = "judge" /\ req'[r].pc = "reply" => ~entry[req[r].key].stopping]_vars

=============================================================================
