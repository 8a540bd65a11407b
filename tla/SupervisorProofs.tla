-------------------------- MODULE SupervisorProofs --------------------------
(***************************************************************************)
(* Supervisor for every number of keys, ports and requests.  Its typing    *)
(* and the partition of the ports hold as they are.  That a live process   *)
(* keeps its port, and that a claim keeps a row from another key's         *)
(* process, hold if the process that misses its deadline of readiness can  *)
(* be stopped (~SurvivesDeadline).  That an install answers with a sound   *)
(* process holds in any case.                                              *)
(*                                                                         *)
(* The step of a handler is split in two: what it makes of its own state   *)
(* (Moves) and what it does to processes, entries and ports: it leaves     *)
(* them alone but for flags and deaths (Quiet), ends an entry (Drops), or  *)
(* takes a port.  Each invariant is then shown once for every kind.        *)
(***************************************************************************)
EXTENDS Supervisor, TLAPS

-----------------------------------------------------------------------------
(***************************************************************************)
(* Typing, with what a handler knows at each step.                         *)
(***************************************************************************)
Ends == {"idle", "done"}
Stopping == {"begin", "kill", "finish"}
Starting == {"addr", "judge", "check", "spawn", "ready", "release"}

ShapeOf(r, q) ==
    /\ r \notin Deletes \cup Upgrades /\ q.pc \notin Ends => q.key \in Keys
    /\ r \in Installs /\ q.pc \notin Ends => q.backend \in Backends
    /\ q.pc \in Starting \/ q.back = "spawn" => r \in Installs
    /\ q.pc \in {"lock", "find"} \/ q.back = "find" => r \in Installs \cup Upgrades
    /\ q.pc \in {"list", "next"} \/ q.back = "next" => r \notin ExactStops
    /\ q.pc \in Stopping => q.target \in Keys /\ q.back # "idle"
    /\ q.pc \in {"ready", "release", "kill", "finish"} => q.id \in Proc
    /\ q.pc = "ready" => q.port \in Port
    /\ q.pc = "idle" => q = Idle
    /\ q.pc = "done" => q.port = 0

Typed ==
    /\ TypeOK
    /\ \A r \in Requests : ShapeOf(r, req[r])
    /\ \A i \in Live : proc[i].key \in Keys /\ proc[i].port \in Port
    /\ \A k \in Keys : Tracked(k) => PortOf(k) \in Port /\ entry[k].backend \in Backends

\* The handler of r goes on as h; a port it learns is one of its key.
Learns(r, h) ==
    \/ h.port = 0
    \/ h.port = req[r].port /\ h.key = req[r].key
    \/ Tracked(h.key) /\ h.port = PortOf(h.key)

Moves(r, h) ==
    /\ h \in Handler
    /\ ShapeOf(r, h)
    /\ req' = [req EXCEPT ![r] = h]
    /\ r \in Installs => Learns(r, h)
    /\ h.pc = "release" => ~proc'[h.id].alive \/ SurvivesDeadline

\* The state before and after a request is one of a handler.
LEMMA IdleTyped == Idle \in Handler
BY SupervisorAssumption DEF SupervisorAssumption, Idle, Handler, Steps

\* A move keeps every handler well typed and at a step of its kind.
LEMMA HandlerTyped ==
    ASSUME Typed, NEW r \in Requests, NEW h, Moves(r, h)
    PROVE  /\ req' \in [Requests -> Handler]
           /\ \A q \in Requests : ShapeOf(q, req[q])'
<1>1. req \in [Requests -> Handler]
  BY DEF Typed, TypeOK
<1>2. req' \in [Requests -> Handler]
  BY <1>1 DEF Moves
<1>3. ASSUME NEW q \in Requests PROVE ShapeOf(q, req'[q])
  <2>1. CASE q = r
    BY <2>1, <1>1 DEF Moves
  <2>2. CASE q # r
    BY <2>2, <1>1 DEF Moves, Typed
  <2> QED
    BY <2>1, <2>2
<1>4. \A q \in Requests : ShapeOf(q, req[q])' <=> ShapeOf(q, req'[q])
  BY DEF ShapeOf
<1> QED
  BY <1>2, <1>3, <1>4

\* A handler goes on at s.
LEMMA GotoMoves ==
    ASSUME Typed, NEW r \in Requests, NEW s \in Steps \ (Ends \cup {"ready"}), Goto(r, s),
           req[r].pc \notin Ends,
           s \in Starting => r \in Installs,
           s \in {"lock", "find"} => r \in Installs \cup Upgrades,
           s \in {"list", "next"} => r \notin ExactStops,
           s \in Stopping => req[r].target \in Keys /\ req[r].back # "idle",
           s \in {"release", "kill", "finish"} => req[r].id \in Proc,
           s = "release" => ~proc'[req[r].id].alive \/ SurvivesDeadline
    PROVE  \E h : Moves(r, h)
<1> DEFINE h == [req[r] EXCEPT !.pc = s]
<1>1. req \in [Requests -> Handler] /\ req[r] \in Handler /\ ShapeOf(r, req[r])
  BY DEF Typed, TypeOK
<1>2. h \in Handler /\ h.pc = s /\ h.port = req[r].port /\ h.key = req[r].key
      /\ h.id = req[r].id
  BY <1>1 DEF Handler
<1>3. ShapeOf(r, h)
  BY <1>1, s \notin Ends, s # "ready" DEF ShapeOf, Handler, Ends
<1>4. req' = [req EXCEPT ![r] = h]
  BY <1>1 DEF Goto
<1> QED
  BY <1>2, <1>3, <1>4 DEF Moves, Learns

\* A handler answers.
LEMMA AnswerMoves ==
    ASSUME Typed, NEW r \in Requests, NEW p \in 0..MaxPort, Answer(r, p),
           req[r].pc \notin Ends,
           r \in Installs => p = 0 \/ p = req[r].port
                               \/ (Tracked(req[r].key) /\ p = PortOf(req[r].key))
    PROVE  \E h : Moves(r, h)
<1> DEFINE h == [req[r] EXCEPT !.pc = "reply", !.port = p, !.id = 0]
<1>0. 0 \in 0..MaxProc
  BY SupervisorAssumption DEF SupervisorAssumption
<1>1. req \in [Requests -> Handler] /\ req[r] \in Handler /\ ShapeOf(r, req[r])
  BY DEF Typed, TypeOK
<1>2. h \in Handler /\ h.pc = "reply" /\ h.port = p /\ h.key = req[r].key
  BY <1>0, <1>1 DEF Handler, Steps
<1>3. ShapeOf(r, h)
  BY <1>1 DEF ShapeOf, Handler, Ends, Stopping, Starting
<1>4. req' = [req EXCEPT ![r] = h]
  BY <1>1 DEF Answer, Handler
<1> QED
  BY <1>2, <1>3, <1>4 DEF Moves, Learns

\* A handler stops a process before it goes on.
LEMMA StopFirstMoves ==
    ASSUME Typed, NEW r \in Installs, NEW k \in Keys, NEW back \in {"find", "spawn"},
           NEW lenient \in BOOLEAN, StopFirst(r, k, back, lenient), req[r].pc \notin Ends
    PROVE  \E h : Moves(r, h)
<1> DEFINE h == [req[r] EXCEPT !.pc = "begin", !.target = k, !.back = back,
                               !.lenient = lenient]
<1>1. req \in [Requests -> Handler] /\ req[r] \in Handler /\ ShapeOf(r, req[r])
  BY DEF Typed, TypeOK, Requests
<1>2. h \in Handler /\ h.pc = "begin" /\ h.port = req[r].port /\ h.key = req[r].key
  BY <1>1 DEF Handler, Steps
<1>3. ShapeOf(r, h)
  BY <1>1 DEF ShapeOf, Handler, Ends, Stopping, Starting
<1>4. req' = [req EXCEPT ![r] = h]
  BY <1>1 DEF StopFirst, Handler
<1> QED
  BY <1>2, <1>3, <1>4 DEF Moves, Learns, Requests

\* A handler returns from a stop.
LEMMA ReturnedMoves ==
    ASSUME Typed, NEW r \in Requests, NEW ok \in BOOLEAN, Returned(r, ok),
           req[r].pc \in Stopping
    PROVE  \E h : Moves(r, h)
<1>0. 0 \in 0..MaxProc /\ 0 \in 0..MaxPort
  BY SupervisorAssumption DEF SupervisorAssumption
<1>1. req \in [Requests -> Handler] /\ req[r] \in Handler /\ ShapeOf(r, req[r])
  BY DEF Typed, TypeOK
<1>2. CASE ok \/ req[r].lenient
  <2> DEFINE stopped == IF ok /\ req[r].report THEN req[r].stopped \cup {req[r].target}
                        ELSE req[r].stopped
             h == [req[r] EXCEPT !.pc = req[r].back, !.id = 0, !.target = None,
                                 !.stopped = stopped]
  <2>1. stopped \in SUBSET Keys /\ req[r].back \in Steps
    BY <1>1 DEF ShapeOf, Handler, Steps
  <2> HIDE DEF stopped
  <2>2. /\ h \in Handler /\ h.pc = req[r].back /\ h.port = req[r].port
        /\ h.key = req[r].key /\ h.back = req[r].back /\ h.backend = req[r].backend
    BY <2>1, <1>0, <1>1 DEF Handler
  <2>3. h.pc \in {"find", "spawn", "next", "reply"}
    BY <2>1, <2>2, <1>1 DEF ShapeOf, Handler
  <2>4. ShapeOf(r, h)
    BY <2>1, <2>2, <2>3, <1>1 DEF ShapeOf, Ends, Stopping, Starting
  <2>5. req' = [req EXCEPT ![r] = h]
    BY <1>1, <1>2 DEF Returned, stopped
  <2> QED
    BY <2>1, <2>2, <2>3, <2>4, <2>5 DEF Moves, Learns
<1>3. CASE ~(ok \/ req[r].lenient)
  <2> DEFINE h == [req[r] EXCEPT !.pc = "reply", !.id = 0, !.target = None, !.port = 0]
  <2>1. h \in Handler /\ h.pc = "reply" /\ h.port = 0
    BY <1>0, <1>1 DEF Handler, Steps
  <2>2. ShapeOf(r, h)
    BY <1>1 DEF ShapeOf, Handler, Ends, Stopping, Starting
  <2>3. req' = [req EXCEPT ![r] = h]
    BY <1>1, <1>3 DEF Returned
  <2> QED
    BY <2>1, <2>2, <2>3 DEF Moves, Learns
<1> QED
  BY <1>2, <1>3

\* A handler has ended, and its answer is used or not.
LEMMA DoneMoves ==
    ASSUME Typed, NEW r \in Requests, Done(r)
    PROVE  \E h : Moves(r, h)
<1> DEFINE h == [Idle EXCEPT !.pc = "done"]
<1>1. h \in Handler /\ h.pc = "done" /\ h.port = 0 /\ h.back = "idle"
  BY IdleTyped DEF Handler, Idle, Steps
<1>2. ShapeOf(r, h)
  BY <1>1 DEF ShapeOf, Ends, Stopping, Starting
<1>3. req' = [req EXCEPT ![r] = h]
  BY DEF Done
<1> QED
  BY <1>1, <1>2, <1>3 DEF Moves, Learns

-----------------------------------------------------------------------------
(***************************************************************************)
(* Every step of a handler but the start of a process.                     *)
(***************************************************************************)
HandlerStep(r) ==
    \/ ReadAddr(r) \/ JudgeProcess(r) \/ CheckDirectory(r) \/ AlreadyThere(r)
    \/ SpawnFails(r) \/ NoFreePort(r) \/ BecomesReady(r) \/ DiesDuringStart(r)
    \/ ReadinessTimeout(r) \/ ReleaseBackendStart(r)
    \/ StopStep(r) \/ ControllerStep(r) \/ LockBackend(r) \/ FindOrInstall(r) \/ Reply(r)

\* Every such step is a move.
LEMMA HandlerMoves ==
    ASSUME Typed, NEW r \in Requests, HandlerStep(r)
    PROVE  \E h : Moves(r, h)
<1>1. req \in [Requests -> Handler] /\ req[r] \in Handler /\ ShapeOf(r, req[r])
  BY DEF Typed, TypeOK
<1>2. 0 \in 0..MaxPort /\ 0 \in 0..MaxProc
  BY SupervisorAssumption DEF SupervisorAssumption
<1>3. \A k \in Keys : PortOf(k) \in 0..MaxPort /\ entry[k].id \in 0..MaxProc
  BY DEF Typed, TypeOK, PortOf
<1>4. r \in Installs => r \notin Deletes \cup Upgrades
  BY SupervisorAssumption DEF SupervisorAssumption
<1>6. req[r].pc \in Starting => r \in Installs /\ req[r].key \in Keys
  BY <1>1, <1>4 DEF ShapeOf, Ends, Starting
<1>7. req[r].pc \in Stopping => req[r].target \in Keys /\ req[r].back # "idle"
  BY <1>1 DEF ShapeOf
<1>8. req[r].pc \in {"ready", "release", "kill", "finish"} => req[r].id \in Proc
  BY <1>1 DEF ShapeOf
<1>9. req[r].port \in 0..MaxPort
  BY <1>1 DEF Handler
<1> HIDE DEF Ends, Stopping, Starting
<1>ReadAddr. CASE ReadAddr(r)
  <2> DEFINE k == req[r].key
             s == IF Tracked(k) THEN "judge" ELSE "find"
             p == IF Tracked(k) THEN PortOf(k) ELSE 0
             h == [req[r] EXCEPT !.pc = s, !.port = p]
  <2>1. r \in Installs /\ k \in Keys
    BY <1>ReadAddr, <1>6 DEF ReadAddr, Starting
  <2>2. p \in 0..MaxPort /\ s \in {"judge", "find"}
    BY <2>1, <1>2, <1>3
  <2>3. req' = [req EXCEPT ![r] = h] /\ req[r].pc = "addr"
    BY <1>ReadAddr DEF ReadAddr
  <2>4. p = 0 \/ (Tracked(k) /\ p = PortOf(k))
    OBVIOUS
  <2> HIDE DEF s, p
  <2>5. /\ h \in Handler /\ h.pc = s /\ h.port = p /\ h.key = k /\ h.back = req[r].back
        /\ h.backend = req[r].backend
    BY <2>2, <1>1 DEF Handler, Steps
  <2>6. ShapeOf(r, h)
    BY <2>1, <2>2, <2>3, <2>5, <1>1 DEF ShapeOf, Ends, Stopping, Starting
  <2> QED
    BY <2>2, <2>3, <2>4, <2>5, <2>6 DEF Moves, Learns
<1>JudgeProcess. CASE JudgeProcess(r)
  <2>1. req[r].pc = "judge" /\ req[r].pc \notin Ends /\ r \in Installs /\ req[r].key \in Keys
    BY <1>JudgeProcess, <1>6 DEF JudgeProcess, Starting, Ends
  <2>2. CASE Answer(r, req[r].port)
    BY <2>1, <2>2, <1>9, AnswerMoves
  <2>3. CASE StopFirst(r, req[r].key, "find", MatchesBackend(req[r].key, req[r].backend))
    <3>1. MatchesBackend(req[r].key, req[r].backend) \in BOOLEAN
      BY DEF MatchesBackend, Tracked, DirIntact
    <3> QED
      BY <2>1, <2>3, <3>1, StopFirstMoves
  <2> QED
    BY <2>2, <2>3, <1>JudgeProcess DEF JudgeProcess
<1>CheckDirectory. CASE CheckDirectory(r)
  <2>1. req[r].pc = "check" /\ req[r].pc \notin Ends /\ r \in Installs /\ req[r].key \in Keys
    BY <1>CheckDirectory, <1>6 DEF CheckDirectory, Starting, Ends
  <2>2. CASE StopFirst(r, req[r].key, "spawn", FALSE)
    BY <2>1, <2>2, StopFirstMoves
  <2>3. CASE Goto(r, "spawn")
    BY <2>1, <2>3, GotoMoves DEF Steps, Ends, Stopping
  <2> QED
    BY <2>2, <2>3, <1>CheckDirectory DEF CheckDirectory
<1>AlreadyThere. CASE AlreadyThere(r)
  <2>1. req[r].pc = "spawn" /\ req[r].pc \notin Ends /\ r \in Installs /\ req[r].key \in Keys
    BY <1>AlreadyThere, <1>6 DEF AlreadyThere, Starting, Ends
  <2>2. CASE Answer(r, 0)
    BY <2>1, <2>2, <1>2, AnswerMoves
  <2>3. CASE Alive(req[r].key) /\ Answer(r, PortOf(req[r].key))
    BY <2>1, <2>3, <1>3, AnswerMoves DEF Alive
  <2> QED
    BY <2>2, <2>3, <1>AlreadyThere DEF AlreadyThere
<1>SpawnFails. CASE SpawnFails(r)
  BY <1>SpawnFails, <1>2, AnswerMoves DEF SpawnFails, MaySpawn, Ends
<1>NoFreePort. CASE NoFreePort(r)
  BY <1>NoFreePort, <1>2, AnswerMoves DEF NoFreePort, MaySpawn, Ends
<1>BecomesReady. CASE BecomesReady(r)
  <2>1. Answer(r, req[r].port) \/ Answer(r, 0)
    BY <1>BecomesReady DEF BecomesReady
  <2> QED
    BY <2>1, <1>BecomesReady, <1>2, <1>9, AnswerMoves DEF BecomesReady, Ends
<1>DiesDuringStart. CASE DiesDuringStart(r)
  <2>1. Goto(r, "release") /\ req[r].id \in Proc /\ ~proc'[req[r].id].alive
        /\ r \in Installs /\ req[r].pc \notin Ends
    BY <1>DiesDuringStart, <1>6, <1>8 DEF DiesDuringStart, Starting, Ends, procVars
  <2> QED
    BY <2>1, GotoMoves DEF Steps, Ends, Stopping
<1>ReadinessTimeout. CASE ReadinessTimeout(r)
  <2>1. Goto(r, "release") /\ req[r].id \in Proc /\ r \in Installs /\ req[r].pc \notin Ends
    BY <1>ReadinessTimeout, <1>6, <1>8 DEF ReadinessTimeout, Starting, Ends
  <2>2. ~proc'[req[r].id].alive \/ SurvivesDeadline
    BY <2>1, <1>ReadinessTimeout DEF ReadinessTimeout, Dies, NoProc, Typed, TypeOK
  <2> QED
    BY <2>1, <2>2, GotoMoves DEF Steps, Ends, Stopping
<1>ReleaseBackendStart. CASE ReleaseBackendStart(r)
  BY <1>ReleaseBackendStart, <1>2, AnswerMoves DEF ReleaseBackendStart, Ends
<1>BeginBackendStop. CASE BeginBackendStop(r)
  <2>1. req[r].pc = "begin" /\ req[r].pc \in Stopping /\ req[r].target \in Keys
    BY <1>BeginBackendStop, <1>7 DEF BeginBackendStop, Stopping
  <2>2. CASE Returned(r, TRUE)
    BY <2>1, <2>2, ReturnedMoves
  <2>3. CASE /\ Tracked(req[r].target)
             /\ req' = [req EXCEPT ![r].pc = "kill", ![r].id = entry[req[r].target].id]
    <3> DEFINE i == entry[req[r].target].id
               h == [req[r] EXCEPT !.pc = "kill", !.id = i]
    <3>1. i \in 0..MaxProc /\ i \in Proc
      BY <2>1, <2>3, <1>3, SupervisorAssumption DEF Tracked, Proc, SupervisorAssumption
    <3>2. req' = [req EXCEPT ![r] = h]
      BY <2>3
    <3> HIDE DEF i
    <3>3. /\ h \in Handler /\ h.pc = "kill" /\ h.id = i /\ h.port = req[r].port /\ h.key = req[r].key
          /\ h.backend = req[r].backend /\ h.back = req[r].back /\ h.target = req[r].target
      BY <3>1, <1>1 DEF Handler, Steps
    <3>4. ShapeOf(r, h)
      BY <3>1, <3>3, <2>1, <1>1 DEF ShapeOf, Ends, Stopping, Starting
    <3> QED
      BY <3>2, <3>3, <3>4 DEF Moves, Learns
  <2> QED
    BY <2>2, <2>3, <1>BeginBackendStop DEF BeginBackendStop
<1>StopProcess. CASE StopProcess(r)
  <2>1. Goto(r, "finish") /\ req[r].pc = "kill" /\ req[r].pc \in Stopping
        /\ req[r].pc \notin Ends
    BY <1>StopProcess DEF StopProcess, Stopping, Ends
  <2> QED
    BY <2>1, <1>7, <1>8, GotoMoves DEF Steps, Ends, Starting
<1>FinishBackendStop. CASE FinishBackendStop(r)
  <2>1. req[r].pc \in Stopping
    BY <1>FinishBackendStop DEF FinishBackendStop, Stopping
  <2>2. Returned(r, TRUE) \/ Returned(r, FALSE)
    BY <1>FinishBackendStop DEF FinishBackendStop
  <2> QED
    BY <2>1, <2>2, ReturnedMoves
<1>StopNext. CASE StopNext(r)
  <2>1. req[r].pc = "next" /\ req[r].pc \notin Ends /\ r \notin ExactStops
    BY <1>StopNext, <1>1 DEF StopNext, Ends, ShapeOf
  <2>2. CASE Answer(r, 0)
    BY <2>1, <2>2, <1>2, AnswerMoves
  <2>3. CASE ~(r \in Stops) /\ Goto(r, IF r \in Deletes THEN "files" ELSE "find")
    BY <2>1, <2>3, GotoMoves DEF Steps, Ends, Starting, Stopping, Requests
  <2>4. ASSUME NEW k \in req[r].todo,
               req' = [req EXCEPT ![r].pc = "begin", ![r].target = k,
                          ![r].todo = req[r].todo \ {k}, ![r].back = "next",
                          ![r].lenient = r \in Stops,
                          ![r].report = r \in Deletes \/ (r \in Upgrades /\ Tracked(k))]
        PROVE  \E h : Moves(r, h)
    <3> DEFINE todo == req[r].todo \ {k}
               lenient == r \in Stops
               report == r \in Deletes \/ (r \in Upgrades /\ Tracked(k))
               h == [req[r] EXCEPT !.pc = "begin", !.target = k, !.todo = todo,
                          !.back = "next", !.lenient = lenient, !.report = report]
    <3>1. k \in Keys /\ todo \subseteq Keys
      BY <1>1 DEF Handler
    <3>2. lenient \in BOOLEAN /\ report \in BOOLEAN
      BY DEF Tracked
    <3>3. req' = [req EXCEPT ![r] = h]
      BY <2>4
    <3> HIDE DEF todo, lenient, report
    <3>4. /\ h \in Handler /\ h.pc = "begin" /\ h.port = req[r].port /\ h.key = req[r].key
          /\ h.backend = req[r].backend /\ h.back = "next" /\ h.target = k
      BY <3>1, <3>2, <1>1 DEF Handler, Steps
    <3>5. ShapeOf(r, h)
      BY <3>1, <3>4, <2>1, <1>1 DEF ShapeOf, Ends, Stopping, Starting
    <3> QED
      BY <3>3, <3>4, <3>5 DEF Moves, Learns
  <2> QED
    BY <2>2, <2>3, <2>4, <1>StopNext DEF StopNext
<1>ListKeys. CASE ListKeys(r)
  <2> DEFINE todo == IF r \in Stops THEN {k \in {req[r].key} : Tracked(k)}
                     ELSE KeysForBackend(req[r].backend) \cup ({req[r].key} \ {None})
             h == [req[r] EXCEPT !.pc = "next", !.todo = todo]
  <2>1. req[r].pc = "list" /\ req' = [req EXCEPT ![r] = h]
    BY <1>ListKeys DEF ListKeys
  <2>2. req[r].key \in Keys \cup {None} /\ (r \in Stops => req[r].key \in Keys)
    BY <2>1, <1>1, SupervisorAssumption DEF ShapeOf, Handler, Ends, SupervisorAssumption
  <2>3. todo \subseteq Keys
    BY <2>2 DEF KeysForBackend
  <2> HIDE DEF todo
  <2>4. /\ h \in Handler /\ h.pc = "next" /\ h.port = req[r].port /\ h.key = req[r].key
        /\ h.backend = req[r].backend /\ h.back = req[r].back
    BY <2>3, <1>1 DEF Handler, Steps
  <2>5. ShapeOf(r, h)
    BY <2>4, <2>1, <1>1 DEF ShapeOf, Ends, Stopping, Starting
  <2> QED
    BY <2>1, <2>4, <2>5 DEF Moves, Learns
<1>RemoveFiles. CASE RemoveFiles(r)
  BY <1>RemoveFiles, GotoMoves DEF RemoveFiles, Steps, Ends, Starting, Stopping
<1>StopModelExact. CASE StopModelExact(r)
  <2>1. r \in ExactStops /\ r \notin Installs /\ req[r].pc = "queued" /\ req[r].key \in Keys
    BY <1>StopModelExact, <1>1, SupervisorAssumption
       DEF StopModelExact, ShapeOf, Ends, SupervisorAssumption
  <2>2. CASE req' = [req EXCEPT ![r].pc = "reply", ![r].back = "reply"]
    <3> DEFINE h == [req[r] EXCEPT !.pc = "reply", !.back = "reply"]
    <3>1. /\ h \in Handler /\ h.pc = "reply" /\ h.back = "reply" /\ h.key = req[r].key
      BY <1>1 DEF Handler, Steps
    <3>2. ShapeOf(r, h)
      BY <3>1, <2>1, <1>1 DEF ShapeOf, Ends, Stopping, Starting
    <3>3. req' = [req EXCEPT ![r] = h]
      BY <2>2
    <3> QED
      BY <3>1, <3>2, <3>3, <2>1 DEF Moves
  <2>3. CASE Goto(r, "reply")
    BY <2>1, <2>3, GotoMoves DEF Steps, Ends, Starting, Stopping
  <2>4. CASE /\ Tracked(req[r].key)
             /\ req' = [req EXCEPT ![r].pc = "kill", ![r].target = req[r].key,
                                   ![r].id = entry[req[r].key].id, ![r].back = "reply"]
    <3> DEFINE k == req[r].key
               i == entry[k].id
               h == [req[r] EXCEPT !.pc = "kill", !.target = k, !.id = i, !.back = "reply"]
    <3>1. i \in 0..MaxProc /\ i \in Proc
      BY <2>1, <2>4, <1>3, SupervisorAssumption DEF Tracked, Proc, SupervisorAssumption
    <3>2. req' = [req EXCEPT ![r] = h]
      BY <2>4
    <3> HIDE DEF i
    <3>3. /\ h \in Handler /\ h.pc = "kill" /\ h.id = i /\ h.back = "reply" /\ h.key = req[r].key
          /\ h.target = k
      BY <3>1, <2>1, <1>1 DEF Handler, Steps
    <3>4. ShapeOf(r, h)
      BY <3>1, <3>3, <2>1, <1>1 DEF ShapeOf, Ends, Stopping, Starting
    <3> QED
      BY <3>2, <3>3, <3>4, <2>1 DEF Moves
  <2> QED
    BY <2>2, <2>3, <2>4, <1>StopModelExact DEF StopModelExact
<1>Controller. CASE ControllerStep(r)
  <2>1. ASSUME NEW kind, NEW step \in {"lock", "list"}, NEW k \in Keys \cup {None},
               NEW b \in Backends \cup {None}, Send(r, kind, step, k, b),
               step = "lock" => r \in Installs \cup Upgrades,
               step = "list" => r \notin ExactStops,
               k \in Keys \/ r \in Deletes \cup Upgrades,
               r \in Installs => b \in Backends
        PROVE  \E h : Moves(r, h)
    <3> DEFINE h == [req[r] EXCEPT !.pc = step, !.key = k, !.backend = b]
    <3>1. req[r] = Idle /\ req[r].port = 0 /\ req[r].back = "idle"
      BY <2>1, <1>1 DEF Send, MaySend, ShapeOf, Idle
    <3>2. /\ h \in Handler /\ h.pc = step /\ h.key = k /\ h.backend = b /\ h.port = 0
          /\ h.back = "idle"
      BY <2>1, <3>1, <1>1 DEF Handler, Steps
    <3>3. ShapeOf(r, h)
      BY <3>2, <2>1 DEF ShapeOf, Ends, Stopping, Starting
    <3>4. req' = [req EXCEPT ![r] = h]
      BY <2>1 DEF Send
    <3> QED
      BY <3>2, <3>3, <3>4, <2>1 DEF Moves, Learns
  <2>2. ASSUME NEW k \in Keys, NEW b \in Backends, SendInstall(r, k, b)
        PROVE  \E h : Moves(r, h)
    BY <2>1, <2>2 DEF SendInstall, Send
  <2>3. ASSUME NEW k \in Keys, SendStop(r, k) PROVE \E h : Moves(r, h)
    <3>1. r \notin Installs /\ r \notin ExactStops
      BY <2>3, SupervisorAssumption DEF SendStop, Send, SupervisorAssumption
    <3> QED
      BY <3>1, <2>1, <2>3 DEF SendStop
  <2>4. ASSUME NEW b \in Backends, SendDelete(r, b) \/ SendUpgrade(r, b)
        PROVE  \E h : Moves(r, h)
    <3>1. r \notin Installs /\ r \notin ExactStops /\ r \in Deletes \cup Upgrades
      BY <2>4, SupervisorAssumption DEF SendDelete, SendUpgrade, Send, SupervisorAssumption
    <3>2. SendUpgrade(r, b) => r \in Upgrades
      BY DEF SendUpgrade, Send
    <3> QED
      BY <3>1, <3>2, <2>1, <2>4 DEF SendDelete, SendUpgrade
  <2>5. ASSUME NEW k \in Keys, SendExactStop(r, k) PROVE \E h : Moves(r, h)
    <3> DEFINE p == rows[k].port
               h == [req[r] EXCEPT !.pc = "queued", !.key = k, !.port = p]
    <3>1. p \in 0..MaxPort
      BY DEF Typed, TypeOK
    <3>2. req' = [req EXCEPT ![r] = h]
      BY <2>5 DEF SendExactStop
    <3>3. req[r] = Idle /\ req[r].back = "idle"
      BY <2>5, <1>1 DEF SendExactStop, MaySend, ShapeOf, Idle
    <3>4. r \notin Installs
      BY <2>5, SupervisorAssumption DEF SendExactStop, SupervisorAssumption
    <3> HIDE DEF p
    <3>5. h \in Handler /\ h.pc = "queued" /\ h.key = k /\ h.back = "idle"
      BY <3>1, <3>3, <1>1 DEF Handler, Steps
    <3>6. ShapeOf(r, h)
      BY <3>4, <3>5 DEF ShapeOf, Ends, Stopping, Starting
    <3> QED
      BY <3>2, <3>4, <3>5, <3>6 DEF Moves
  <2>6. CASE AnswerUnused(r) \/ RowLoaded(r) \/ RowsDropped(r) \/ RowCleaned(r)
    BY <2>6, DoneMoves DEF AnswerUnused, RowLoaded, RowsDropped, RowCleaned
  <2> QED
    BY <2>2, <2>3, <2>4, <2>5, <2>6, <1>Controller DEF ControllerStep
<1>LockBackend. CASE LockBackend(r)
  <2>1. req[r].pc = "lock" /\ req[r].pc \notin Ends /\ r \in Installs \cup Upgrades
        /\ r \notin ExactStops
    BY <1>LockBackend, <1>1, SupervisorAssumption
       DEF LockBackend, Ends, ShapeOf, SupervisorAssumption
  <2>2. Goto(r, "list") \/ (r \in Installs /\ Goto(r, "addr"))
    BY <2>1, <1>LockBackend DEF LockBackend
  <2> QED
    BY <2>1, <2>2, GotoMoves DEF Steps, Ends, Starting, Stopping
<1>FindOrInstall. CASE FindOrInstall(r)
  <2>1. req[r].pc = "find" /\ req[r].pc \notin Ends /\ r \in Installs \cup Upgrades
    BY <1>FindOrInstall, <1>1 DEF FindOrInstall, Ends, ShapeOf
  <2>2. CASE Answer(r, 0)
    BY <2>1, <2>2, <1>2, AnswerMoves
  <2>3. ASSUME NEW s \in {"check", "reply"}, s = "check" => r \in Installs,
               req' = [req EXCEPT ![r].pc = s, ![r].port = 0]
        PROVE  \E h : Moves(r, h)
    <3> DEFINE h == [req[r] EXCEPT !.pc = s, !.port = 0]
    <3>1. /\ h \in Handler /\ h.pc = s /\ h.port = 0 /\ h.key = req[r].key
          /\ h.backend = req[r].backend /\ h.back = req[r].back
      BY <1>1, <1>2 DEF Handler, Steps
    <3>2. ShapeOf(r, h)
      BY <3>1, <2>1, <2>3, <1>1 DEF ShapeOf, Ends, Stopping, Starting
    <3>3. req' = [req EXCEPT ![r] = h]
      BY <2>3
    <3> QED
      BY <3>1, <3>2, <3>3 DEF Moves, Learns
  <2> QED
    BY <2>1, <2>2, <2>3, <1>FindOrInstall DEF FindOrInstall
<1>Reply. CASE Reply(r)
  BY <1>Reply, GotoMoves DEF Reply, Steps, Ends, Starting, Stopping
<1> QED
  BY <1>ReadAddr, <1>JudgeProcess, <1>CheckDirectory, <1>AlreadyThere, <1>SpawnFails,
     <1>NoFreePort, <1>BecomesReady, <1>DiesDuringStart, <1>ReadinessTimeout,
     <1>ReleaseBackendStart, <1>BeginBackendStop, <1>StopProcess, <1>FinishBackendStop,
     <1>StopNext, <1>ListKeys, <1>RemoveFiles, <1>StopModelExact, <1>Controller,
     <1>LockBackend, <1>FindOrInstall, <1>Reply DEF HandlerStep, StopStep

-----------------------------------------------------------------------------
(***************************************************************************)
(* The ways in which a step changes processes, entries and ports.          *)
(***************************************************************************)
PortTyped ==
    /\ proc \in [Proc -> [key : Keys \cup {None}, port : 0..MaxPort, alive : BOOLEAN]]
    /\ entry \in [Keys -> [id : 0..MaxProc, port : 0..MaxPort, backend : Backends \cup {None},
                           dir : 0..MaxDir, serving : BOOLEAN, stopping : BOOLEAN,
                           survived : BOOLEAN]]
    /\ nextPort \in 1..(MaxPort + 1)
    /\ freePorts \subseteq Port
    /\ quarantined \subseteq Port
    /\ affinity \in [Keys -> [port : 0..MaxPort, held : BOOLEAN]]
    /\ lost \subseteq Keys \X Port
    /\ \A i \in Live : proc[i].key \in Keys /\ proc[i].port \in Port
    /\ \A k \in Keys : Tracked(k) => PortOf(k) \in Port /\ entry[k].backend \in Backends

RestTyped ==
    /\ disk \in [Backends -> 0..MaxDir]
    /\ dirs \in 0..MaxDir
    /\ lock \in [Backends -> Requests \cup {None}]
    /\ rows \in [Keys -> [port : 0..MaxPort, state : {"none", "loaded", "unloading"},
                          id : 0..MaxProc]]

HandlersTyped ==
    /\ req \in [Requests -> Handler]
    /\ \A r \in Requests : ShapeOf(r, req[r])

\* Typing, in three parts: ports, handlers and the rest.
LEMMA TypedParts == Typed <=> PortTyped /\ RestTyped /\ HandlersTyped
BY DEF Typed, TypeOK, PortTyped, RestTyped, HandlersTyped

\* The same, of the next state.
LEMMA TypedPartsNext == PortTyped' /\ RestTyped' /\ HandlersTyped' => Typed'
BY DEF Typed, TypeOK, PortTyped, RestTyped, HandlersTyped

\* A process may die, and entries may change their flags.
Quiet ==
    /\ proc' = proc \/ \E i \in Proc : Dies(i)
    /\ \/ entry' = entry
       \/ \E k \in Keys, flag \in BOOLEAN :
            \/ entry' = [entry EXCEPT ![k].stopping = flag]
            \/ entry' = [entry EXCEPT ![k].serving = flag]
            \/ entry' = [entry EXCEPT ![k].stopping = FALSE, ![k].survived = flag]
    /\ UNCHANGED portVars

\* The entry of k ends.
Drops(k) == Tracked(k) /\ DropEntry(k) /\ UNCHANGED proc

\* A quiet step keeps the processes and ports of the entries.
LEMMA QuietKeeps ==
    ASSUME PortTyped, Quiet
    PROVE  /\ entry' \in [Keys -> [id : 0..MaxProc, port : 0..MaxPort,
                                   backend : Backends \cup {None}, dir : 0..MaxDir,
                                   serving : BOOLEAN, stopping : BOOLEAN,
                                   survived : BOOLEAN]]
           /\ \A k \in Keys : /\ entry'[k].id = entry[k].id
                              /\ entry'[k].port = entry[k].port
                              /\ entry'[k].backend = entry[k].backend
           /\ proc' \in [Proc -> [key : Keys \cup {None}, port : 0..MaxPort, alive : BOOLEAN]]
           /\ \A i \in Proc : proc'[i] = proc[i] \/ ~proc'[i].alive
<1> DEFINE Entry == [id : 0..MaxProc, port : 0..MaxPort, backend : Backends \cup {None},
                     dir : 0..MaxDir, serving : BOOLEAN, stopping : BOOLEAN,
                     survived : BOOLEAN]
<1>1. entry \in [Keys -> Entry]
  BY DEF PortTyped
<1>2. /\ entry' \in [Keys -> Entry]
      /\ \A k \in Keys : /\ entry'[k].id = entry[k].id
                         /\ entry'[k].port = entry[k].port
                         /\ entry'[k].backend = entry[k].backend
  <2>1. CASE entry' = entry
    BY <2>1, <1>1
  <2>2. ASSUME NEW k \in Keys, NEW flag \in BOOLEAN,
               \/ entry' = [entry EXCEPT ![k].stopping = flag]
               \/ entry' = [entry EXCEPT ![k].serving = flag]
               \/ entry' = [entry EXCEPT ![k].stopping = FALSE, ![k].survived = flag]
        PROVE  /\ entry' \in [Keys -> Entry]
               /\ \A j \in Keys : /\ entry'[j].id = entry[j].id
                                  /\ entry'[j].port = entry[j].port
                                  /\ entry'[j].backend = entry[j].backend
    <3>1. CASE entry' = [entry EXCEPT ![k].stopping = flag]
      BY <3>1, <1>1
    <3>2. CASE entry' = [entry EXCEPT ![k].serving = flag]
      BY <3>2, <1>1
    <3>3. CASE entry' = [entry EXCEPT ![k].stopping = FALSE, ![k].survived = flag]
      BY <3>3, <1>1
    <3> QED
      BY <2>2, <3>1, <3>2, <3>3
  <2> QED
    BY <2>1, <2>2 DEF Quiet
<1>3. NoProc \in [key : Keys \cup {None}, port : 0..MaxPort, alive : BOOLEAN]
  BY SupervisorAssumption DEF NoProc, SupervisorAssumption
<1>4. /\ proc' \in [Proc -> [key : Keys \cup {None}, port : 0..MaxPort, alive : BOOLEAN]]
      /\ \A i \in Proc : proc'[i] = proc[i] \/ ~proc'[i].alive
  <2>1. CASE proc' = proc
    BY <2>1 DEF PortTyped
  <2>2. ASSUME NEW i \in Proc, Dies(i)
        PROVE  /\ proc' \in [Proc -> [key : Keys \cup {None}, port : 0..MaxPort,
                                      alive : BOOLEAN]]
               /\ \A j \in Proc : proc'[j] = proc[j] \/ ~proc'[j].alive
    <3>1. ~NoProc.alive
      BY DEF NoProc
    <3> QED
      BY <2>2, <3>1, <1>3 DEF Dies, PortTyped
  <2> QED
    BY <2>1, <2>2 DEF Quiet
<1> QED
  BY <1>2, <1>4

\* A quiet step keeps ports well typed.
LEMMA QuietTyped == PortTyped /\ Quiet => PortTyped'
<1> SUFFICES ASSUME PortTyped, Quiet PROVE PortTyped'
  OBVIOUS
<1>1. UNCHANGED portVars
  BY DEF Quiet
<1>2. \A k \in Keys : Tracked(k)' => PortOf(k)' \in Port /\ entry'[k].backend \in Backends
  BY QuietKeeps DEF PortTyped, Tracked, PortOf
<1>3. \A i \in Live' : proc'[i].key \in Keys /\ proc'[i].port \in Port
  BY QuietKeeps DEF PortTyped, Live
<1> QED
  BY <1>1, <1>2, <1>3, QuietKeeps DEF PortTyped, portVars

\* The end of an entry keeps ports well typed.
LEMMA DropsTyped == \A k \in Keys : PortTyped /\ Drops(k) => PortTyped'
<1> SUFFICES ASSUME NEW k \in Keys, PortTyped, Drops(k) PROVE PortTyped'
  OBVIOUS
<1>0. 0 \in 0..MaxProc /\ 0 \in 0..MaxPort /\ 0 \in 0..MaxDir
  BY SupervisorAssumption DEF SupervisorAssumption
<1>1. PortOf(k) \in Port /\ PortOf(k) \in 0..MaxPort
  BY DEF Drops, PortTyped, PortOf
<1>2. entry' \in [Keys -> [id : 0..MaxProc, port : 0..MaxPort, backend : Backends \cup {None},
                           dir : 0..MaxDir, serving : BOOLEAN, stopping : BOOLEAN,
                           survived : BOOLEAN]]
  <2>1. NoEntry \in [id : 0..MaxProc, port : 0..MaxPort, backend : Backends \cup {None},
                     dir : 0..MaxDir, serving : BOOLEAN, stopping : BOOLEAN,
                     survived : BOOLEAN]
    BY <1>0 DEF NoEntry
  <2> QED
    BY <2>1 DEF Drops, DropEntry, PortTyped
<1>3. affinity' \in [Keys -> [port : 0..MaxPort, held : BOOLEAN]]
  BY <1>0, <1>1 DEF Drops, DropEntry, Released, NoClaim, PortTyped
<1>4. \A j \in Keys : Tracked(j)' => PortOf(j)' \in Port /\ entry'[j].backend \in Backends
  BY DEF Drops, DropEntry, NoEntry, Tracked, PortOf, PortTyped
<1> QED
  BY <1>1, <1>2, <1>3, <1>4 DEF Drops, DropEntry, PortTyped, Live

\* A port comes from the free ones or from the unused part of the range.
LEMMA ChoiceTyped ==
    ASSUME PortTyped, NEW k \in Keys, NEW p \in Choices(k)
    PROVE  p \in freePorts \/ (p = nextPort /\ nextPort <= MaxPort)
BY DEF Choices

\* What an allocation writes is well typed.
LEMMA TakePortTyped ==
    ASSUME PortTyped, NEW k \in Keys, NEW p \in Choices(k)
    PROVE  /\ p \in Port
           /\ ClaimPort(k, p) \in [Keys -> [port : 0..MaxPort, held : BOOLEAN]]
           /\ Lost(k, p) \subseteq Keys \X Port
           /\ (IF p = nextPort THEN nextPort + 1 ELSE nextPort) \in 1..(MaxPort + 1)
<1> USE SupervisorAssumption DEF SupervisorAssumption
<1>1. p \in Port
  <2>1. CASE p \in freePorts
    BY <2>1 DEF PortTyped
  <2>2. CASE p = nextPort /\ nextPort <= MaxPort
    BY <2>2 DEF PortTyped, Port
  <2> QED
    BY <2>1, <2>2, ChoiceTyped
<1>2. ClaimPort(k, p) \in [Keys -> [port : 0..MaxPort, held : BOOLEAN]]
  BY <1>1 DEF ClaimPort, NoClaim, PortTyped, Port
<1>3. Lost(k, p) \subseteq Keys \X Port
  BY <1>1 DEF Lost, PortTyped, Port
<1>4. (IF p = nextPort THEN nextPort + 1 ELSE nextPort) \in 1..(MaxPort + 1)
  BY <1>1 DEF PortTyped, Port
<1> QED
  BY <1>1, <1>2, <1>3, <1>4

\* The start of a process keeps ports well typed.
LEMMA SpawnTyped ==
    ASSUME Typed, NEW r \in Requests, SpawnProcess(r)
    PROVE  PortTyped'
<1> DEFINE k == req[r].key
           b == req[r].backend
<1>0. PortTyped
  BY TypedParts
<1>1. req[r] \in Handler /\ ShapeOf(r, req[r]) /\ req[r].pc = "spawn"
  BY DEF Typed, TypeOK, SpawnProcess, MaySpawn
<1>2. k \in Keys /\ b \in Backends
  BY <1>1, SupervisorAssumption DEF ShapeOf, Ends, Starting, SupervisorAssumption
<1>3. PICK i \in Proc, p \in Choices(k) :
        /\ TakePort(k, p)
        /\ proc' = [proc EXCEPT ![i] = [key |-> k, port |-> p, alive |-> TRUE]]
        /\ entry' = [entry EXCEPT ![k] = [id |-> i, port |-> p, backend |-> b,
                                          dir |-> disk[b], serving |-> FALSE,
                                          stopping |-> FALSE, survived |-> FALSE]]
  BY DEF SpawnProcess
<1>4. p \in Port /\ i \in 0..MaxProc /\ disk[b] \in 0..MaxDir
  BY <1>0, <1>2, TakePortTyped DEF Typed, TypeOK, Proc
<1>5. p \in 0..MaxPort
  BY <1>4 DEF Port
<1> HIDE DEF k, b
<1>6. proc' \in [Proc -> [key : Keys \cup {None}, port : 0..MaxPort, alive : BOOLEAN]]
  BY <1>0, <1>2, <1>3, <1>5 DEF PortTyped
<1>7. entry' \in [Keys -> [id : 0..MaxProc, port : 0..MaxPort, backend : Backends \cup {None},
                           dir : 0..MaxDir, serving : BOOLEAN, stopping : BOOLEAN,
                           survived : BOOLEAN]]
  BY <1>0, <1>2, <1>3, <1>4, <1>5 DEF PortTyped
<1>8. quarantined' \subseteq Port
  BY <1>0, <1>2 DEF SpawnProcess, Reaped, PortTyped, k
<1>9. \A j \in Live' : proc'[j].key \in Keys /\ proc'[j].port \in Port
  BY <1>0, <1>2, <1>3, <1>4 DEF PortTyped, Live
<1>10. \A j \in Keys : Tracked(j)' => PortOf(j)' \in Port /\ entry'[j].backend \in Backends
  BY <1>0, <1>2, <1>3, <1>4 DEF PortTyped, Tracked, PortOf
<1>11. /\ nextPort' \in 1..(MaxPort + 1) /\ freePorts' \subseteq Port
       /\ affinity' \in [Keys -> [port : 0..MaxPort, held : BOOLEAN]]
       /\ lost' \subseteq Keys \X Port
  BY <1>0, <1>2, <1>3, TakePortTyped DEF TakePort, PortTyped
<1> QED
  BY <1>6, <1>7, <1>8, <1>9, <1>10, <1>11 DEF PortTyped

\* A failed start keeps ports well typed.
LEMMA SpawnFailsTyped ==
    ASSUME Typed, NEW r \in Requests, SpawnFails(r)
    PROVE  PortTyped'
<1> DEFINE k == req[r].key
<1>0. PortTyped /\ 0 \in 0..MaxProc /\ 0 \in 0..MaxPort /\ 0 \in 0..MaxDir
  BY TypedParts, SupervisorAssumption DEF SupervisorAssumption
<1>1. req[r] \in Handler /\ ShapeOf(r, req[r]) /\ req[r].pc = "spawn"
  BY DEF Typed, TypeOK, SpawnFails, MaySpawn
<1>2. k \in Keys
  BY <1>1, SupervisorAssumption DEF ShapeOf, Ends, Starting, SupervisorAssumption
<1>3. PICK p \in Choices(k) :
        /\ nextPort' = IF p = nextPort THEN nextPort + 1 ELSE nextPort
        /\ freePorts' = freePorts \ {p}
        /\ affinity' = [ClaimPort(k, p) EXCEPT ![k].held = FALSE]
        /\ lost' = (lost \cup Lost(k, p)) \ {<<k, p>>}
        /\ quarantined' = Reaped(k) \cup {p}
  BY DEF SpawnFails
<1>4. entry' = [entry EXCEPT ![k] = NoEntry] /\ proc' = proc
  BY DEF SpawnFails
<1> HIDE DEF k
<1>5. NoEntry \in [id : 0..MaxProc, port : 0..MaxPort, backend : Backends \cup {None},
                   dir : 0..MaxDir, serving : BOOLEAN, stopping : BOOLEAN,
                   survived : BOOLEAN]
  BY <1>0 DEF NoEntry
<1>6. entry' \in [Keys -> [id : 0..MaxProc, port : 0..MaxPort, backend : Backends \cup {None},
                           dir : 0..MaxDir, serving : BOOLEAN, stopping : BOOLEAN,
                           survived : BOOLEAN]]
  BY <1>0, <1>4, <1>5 DEF PortTyped
<1>7. \A j \in Keys : Tracked(j)' => PortOf(j)' \in Port /\ entry'[j].backend \in Backends
  BY <1>0, <1>4 DEF PortTyped, Tracked, PortOf, NoEntry
<1>8. /\ nextPort' \in 1..(MaxPort + 1) /\ freePorts' \subseteq Port
      /\ lost' \subseteq Keys \X Port /\ quarantined' \subseteq Port
  BY <1>0, <1>2, <1>3, TakePortTyped DEF PortTyped, Reaped
<1>9. affinity' \in [Keys -> [port : 0..MaxPort, held : BOOLEAN]]
  <2>1. \A c \in [Keys -> [port : 0..MaxPort, held : BOOLEAN]] :
            [c EXCEPT ![k].held = FALSE] \in [Keys -> [port : 0..MaxPort, held : BOOLEAN]]
    BY <1>2
  <2>2. ClaimPort(k, p) \in [Keys -> [port : 0..MaxPort, held : BOOLEAN]]
    BY <1>0, <1>2, TakePortTyped
  <2> QED
    BY <2>1, <2>2, <1>3
<1> QED
  BY <1>0, <1>4, <1>6, <1>7, <1>8, <1>9 DEF PortTyped, Live

\* A handler that starts no process leaves processes, entries and ports alone,
\* but for the flags, ends an entry, or fails to start.
LEMMA HandlerKinds ==
    ASSUME Typed, NEW r \in Requests, HandlerStep(r)
    PROVE  \/ Quiet
           \/ SpawnFails(r)
           \/ \E k \in Keys :
                /\ Drops(k)
                /\ ~Alive(k) \/ (req[r].pc = "release" /\ entry[k].id = req[r].id)
<1>1. req[r] \in Handler /\ ShapeOf(r, req[r])
  BY DEF Typed, TypeOK
<1>2. req[r].pc \in {"ready", "release", "kill", "finish"} => req[r].id \in Proc
  BY <1>1 DEF ShapeOf
<1>3. req[r].pc \in Starting => req[r].key \in Keys
  BY <1>1, SupervisorAssumption DEF ShapeOf, Ends, Starting, SupervisorAssumption
<1>4. req[r].pc \in Stopping => req[r].target \in Keys
  BY <1>1 DEF ShapeOf
<1>5. 0 \notin Proc
  BY DEF Proc
<1> HIDE DEF Ends, Stopping, Starting
<1>6. CASE UNCHANGED <<procVars, portVars>>
  BY <1>6 DEF Quiet, procVars
<1>NoFreePort. CASE NoFreePort(r)
  <2>1. req[r].key \in Keys /\ ~Alive(req[r].key)
    BY <1>NoFreePort, <1>3 DEF NoFreePort, MaySpawn, Starting
  <2> QED
    BY <2>1, <1>NoFreePort, <1>6 DEF NoFreePort, Drops, procVars
<1>BecomesReady. CASE BecomesReady(r)
  BY <1>BecomesReady, <1>3 DEF BecomesReady, Quiet, Starting
<1>ReadinessTimeout. CASE ReadinessTimeout(r)
  BY <1>ReadinessTimeout, <1>2 DEF ReadinessTimeout, Quiet
<1>ReleaseBackendStart. CASE ReleaseBackendStart(r)
  BY <1>ReleaseBackendStart, <1>2, <1>3, <1>5, <1>6
     DEF ReleaseBackendStart, Drops, Tracked, Starting, procVars
<1>BeginBackendStop. CASE BeginBackendStop(r)
  BY <1>BeginBackendStop, <1>4 DEF BeginBackendStop, Quiet, Stopping
<1>StopProcess. CASE StopProcess(r)
  BY <1>StopProcess, <1>2 DEF StopProcess, Quiet
<1>FinishBackendStop. CASE FinishBackendStop(r)
  <2>1. req[r].target \in Keys /\ req[r].id \in Proc
    BY <1>FinishBackendStop, <1>2, <1>4 DEF FinishBackendStop, Stopping
  <2> QED
    BY <2>1, <1>FinishBackendStop, <1>5, <1>6
       DEF FinishBackendStop, Drops, Quiet, Tracked, procVars
<1>StopModelExact. CASE StopModelExact(r)
  <2>1. req[r].key \in Keys
    BY <1>StopModelExact, <1>1, SupervisorAssumption
       DEF StopModelExact, ShapeOf, Ends, SupervisorAssumption
  <2> QED
    BY <2>1, <1>StopModelExact DEF StopModelExact, Quiet
<1>7. CASE \/ ReadAddr(r) \/ JudgeProcess(r) \/ CheckDirectory(r) \/ AlreadyThere(r)
           \/ DiesDuringStart(r) \/ StopNext(r) \/ ListKeys(r) \/ RemoveFiles(r)
           \/ LockBackend(r) \/ FindOrInstall(r) \/ Reply(r)
  BY <1>6, <1>7 DEF ReadAddr, JudgeProcess, CheckDirectory, AlreadyThere, DiesDuringStart,
       StopNext, ListKeys, RemoveFiles, LockBackend, FindOrInstall, Reply
<1>8. CASE ControllerStep(r)
  BY <1>6, <1>8 DEF ControllerStep, SendInstall, SendStop, SendExactStop, SendDelete,
       SendUpgrade, Send, AnswerUnused, RowLoaded, RowsDropped, RowCleaned
<1> QED
  BY <1>NoFreePort, <1>BecomesReady, <1>ReadinessTimeout, <1>ReleaseBackendStart,
     <1>BeginBackendStop, <1>StopProcess, <1>FinishBackendStop, <1>StopModelExact, <1>7, <1>8
     DEF HandlerStep, StopStep

\* A handler keeps files, locks and rows well typed.
LEMMA HandlerRest ==
    ASSUME Typed, NEW r \in Requests, HandlerStep(r)
    PROVE  RestTyped'
<1> USE SupervisorAssumption DEF SupervisorAssumption
<1>1. RestTyped
  BY TypedParts
<1>2. req[r] \in Handler /\ ShapeOf(r, req[r])
  BY DEF Typed, TypeOK
<1>3. CASE UNCHANGED <<diskVars, lock, rows>>
  BY <1>3, <1>1 DEF RestTyped, diskVars
<1>RemoveFiles. CASE RemoveFiles(r)
  <2>1. 0 \in 0..MaxDir /\ disk' = [disk EXCEPT ![req[r].backend] = 0]
    BY <1>RemoveFiles DEF RemoveFiles
  <2>2. disk' \in [Backends -> 0..MaxDir]
    BY <2>1, <1>1 DEF RestTyped
  <2> QED
    BY <2>2, <1>1, <1>RemoveFiles DEF RemoveFiles, RestTyped
<1>LockBackend. CASE LockBackend(r)
  BY <1>LockBackend, <1>1 DEF LockBackend, RestTyped, diskVars
<1>FindOrInstall. CASE FindOrInstall(r)
  BY <1>FindOrInstall, <1>1 DEF FindOrInstall, RestTyped, diskVars
<1>Reply. CASE Reply(r)
  BY <1>Reply, <1>1 DEF Reply, RestTyped, diskVars
<1>4. NoRow \in [port : 0..MaxPort, state : {"none", "loaded", "unloading"}, id : 0..MaxProc]
  BY DEF NoRow
<1>RowLoaded. CASE RowLoaded(r)
  <2>1. req[r].port \in 0..MaxPort /\ Live \subseteq 0..MaxProc
    BY <1>2 DEF Handler, Live, Proc
  <2>2. PICK row \in [port : 0..MaxPort, state : {"none", "loaded", "unloading"},
                      id : 0..MaxProc] : rows' = [rows EXCEPT ![req[r].key] = row]
    BY <2>1, <1>4, <1>RowLoaded DEF RowLoaded
  <2> QED
    BY <2>2, <1>1, <1>RowLoaded DEF RowLoaded, RestTyped, diskVars
<1>RowsDropped. CASE RowsDropped(r)
  BY <1>RowsDropped, <1>1, <1>4 DEF RowsDropped, RestTyped, diskVars
<1>RowCleaned. CASE RowCleaned(r)
  BY <1>RowCleaned, <1>1, <1>4 DEF RowCleaned, RestTyped, diskVars
<1>5. CASE \/ ReadAddr(r) \/ JudgeProcess(r) \/ CheckDirectory(r) \/ AlreadyThere(r)
           \/ SpawnFails(r) \/ NoFreePort(r) \/ BecomesReady(r) \/ DiesDuringStart(r)
           \/ ReadinessTimeout(r) \/ ReleaseBackendStart(r)
  BY <1>3, <1>5 DEF ReadAddr, JudgeProcess, CheckDirectory, AlreadyThere, SpawnFails,
       NoFreePort, BecomesReady, DiesDuringStart, ReadinessTimeout, ReleaseBackendStart
<1>6. CASE \/ BeginBackendStop(r) \/ StopProcess(r) \/ FinishBackendStop(r)
           \/ StopNext(r) \/ ListKeys(r) \/ StopModelExact(r)
  BY <1>3, <1>6 DEF BeginBackendStop, StopProcess, FinishBackendStop, StopNext, ListKeys,
       StopModelExact
<1>7. CASE \/ \E k \in Keys, b \in Backends : SendInstall(r, k, b)
           \/ \E k \in Keys : SendStop(r, k) \/ SendExactStop(r, k)
           \/ \E b \in Backends : SendDelete(r, b) \/ SendUpgrade(r, b)
           \/ AnswerUnused(r)
  BY <1>3, <1>7 DEF SendInstall, SendStop, SendExactStop, SendDelete, SendUpgrade, Send,
       AnswerUnused
<1> QED
  BY <1>RemoveFiles, <1>LockBackend, <1>FindOrInstall, <1>Reply, <1>RowLoaded,
     <1>RowsDropped, <1>RowCleaned, <1>5, <1>6, <1>7
     DEF HandlerStep, StopStep, ControllerStep

\* The handler that starts a process.
LEMMA SpawnMoves ==
    ASSUME Typed, NEW r \in Requests, SpawnProcess(r)
    PROVE  \E i \in Proc, p \in Port :
               LET h == [req[r] EXCEPT !.pc = "ready", !.id = i, !.port = p] IN
               /\ h \in Handler /\ ShapeOf(r, h)
               /\ req' = [req EXCEPT ![r] = h]
<1>1. req[r] \in Handler /\ ShapeOf(r, req[r]) /\ req[r].pc = "spawn"
  BY DEF Typed, TypeOK, SpawnProcess, MaySpawn
<1>2. req[r].key \in Keys
  BY <1>1, SupervisorAssumption DEF ShapeOf, Ends, Starting, SupervisorAssumption
<1>3. PICK i \in Proc, p \in Choices(req[r].key) :
          req' = [req EXCEPT ![r].pc = "ready", ![r].id = i, ![r].port = p]
  BY DEF SpawnProcess
<1>4. p \in Port /\ p \in 0..MaxPort /\ i \in 0..MaxProc
  BY <1>2, TakePortTyped, TypedParts DEF Port, Proc
<1> DEFINE h == [req[r] EXCEPT !.pc = "ready", !.id = i, !.port = p]
<1>5. /\ h \in Handler /\ h.pc = "ready" /\ h.id = i /\ h.port = p /\ h.key = req[r].key
      /\ h.backend = req[r].backend /\ h.back = req[r].back
  BY <1>1, <1>4 DEF Handler, Steps
<1>6. ShapeOf(r, h)
  BY <1>1, <1>4, <1>5 DEF ShapeOf, Ends, Stopping, Starting
<1>7. req' = [req EXCEPT ![r] = h]
  BY <1>3
<1> QED
  BY <1>4, <1>5, <1>6, <1>7

Environment ==
    \/ \E k \in Keys : AffinityLapses(k) \/ RowUnloading(k) \/ RowRemoved(k)
    \/ \E p \in Port : QuarantineEnds(p)
    \/ \E i \in Proc : ProcessDies(i)

\* A step is one of a handler or of what surrounds them.
LEMMA NextKinds ==
    Next => Environment \/ \E r \in Requests : HandlerStep(r) \/ SpawnProcess(r)
BY DEF Next, InstallStep, HandlerStep, Environment

\* What surrounds the handlers keeps the types.
LEMMA EnvironmentTyped == Typed /\ Environment => Typed'
<1> SUFFICES ASSUME Typed, Environment PROVE Typed'
  OBVIOUS
<1> USE SupervisorAssumption DEF SupervisorAssumption
<1>1. PortTyped /\ RestTyped /\ HandlersTyped
  BY TypedParts
<1>2. HandlersTyped'
  <2>1. req' = req
    BY DEF Environment, AffinityLapses, RowUnloading, RowRemoved, QuarantineEnds, ProcessDies
  <2> QED
    BY <2>1, <1>1 DEF HandlersTyped, ShapeOf
<1>3. RestTyped'
  BY <1>1 DEF Environment, AffinityLapses, RowUnloading, RowRemoved, QuarantineEnds,
       ProcessDies, RestTyped, NoRow, diskVars
<1>4. PortTyped'
  <2>1. CASE \E k \in Keys : RowUnloading(k) \/ RowRemoved(k)
    BY <2>1, <1>1, QuietTyped DEF RowUnloading, RowRemoved, Quiet, procVars
  <2>2. CASE \E i \in Proc : ProcessDies(i)
    BY <2>2, <1>1, QuietTyped DEF ProcessDies, Quiet
  <2>3. CASE \E p \in Port : QuarantineEnds(p)
    BY <2>3, <1>1 DEF QuarantineEnds, PortTyped, procVars, Live, Tracked, PortOf
  <2>4. CASE \E k \in Keys : AffinityLapses(k)
    BY <2>4, <1>1 DEF AffinityLapses, PortTyped, procVars, Live, Tracked, PortOf, NoClaim
  <2> QED
    BY <2>1, <2>2, <2>3, <2>4 DEF Environment
<1> QED
  BY <1>2, <1>3, <1>4, TypedPartsNext

\* Typing is inductive.
LEMMA StepTyped == Typed /\ [Next]_vars => Typed'
<1> SUFFICES ASSUME Typed, [Next]_vars PROVE Typed'
  OBVIOUS
<1>1. PortTyped /\ RestTyped /\ HandlersTyped
  BY TypedParts
<1>2. ASSUME NEW r \in Requests, HandlerStep(r) PROVE Typed'
  <2>1. HandlersTyped'
    BY <1>2, HandlerMoves, HandlerTyped DEF HandlersTyped
  <2>2. PortTyped'
    BY <1>1, <1>2, HandlerKinds, QuietTyped, DropsTyped, SpawnFailsTyped
  <2> QED
    BY <2>1, <2>2, <1>2, HandlerRest, TypedPartsNext
<1>3. ASSUME NEW r \in Requests, SpawnProcess(r) PROVE Typed'
  <2>1. HandlersTyped'
    <3>1. PICK h \in Handler : ShapeOf(r, h) /\ req' = [req EXCEPT ![r] = h]
      BY <1>3, SpawnMoves
    <3>2. req' \in [Requests -> Handler]
      BY <3>1, <1>1 DEF HandlersTyped
    <3>3. \A q \in Requests : ShapeOf(q, req'[q])
      BY <3>1, <1>1 DEF HandlersTyped
    <3> QED
      BY <3>2, <3>3 DEF HandlersTyped, ShapeOf
  <2>2. RestTyped'
    BY <1>1, <1>3 DEF SpawnProcess, RestTyped, diskVars
  <2> QED
    BY <2>1, <2>2, <1>3, SpawnTyped, TypedPartsNext
<1>4. CASE UNCHANGED vars
  <2>1. PortTyped'
    BY <1>4, <1>1, QuietTyped DEF vars, procVars, Quiet
  <2>2. RestTyped' /\ HandlersTyped'
    BY <1>4, <1>1 DEF vars, diskVars, RestTyped, HandlersTyped, ShapeOf
  <2> QED
    BY <2>1, <2>2, TypedPartsNext
<1> QED
  BY <1>2, <1>3, <1>4, NextKinds, EnvironmentTyped

\* It holds at first.
LEMMA InitTyped == Init => Typed
<1> SUFFICES ASSUME Init PROVE Typed
  OBVIOUS
<1> USE SupervisorAssumption DEF SupervisorAssumption
<1>1. TypeOK
  BY IdleTyped DEF Init, TypeOK, NoProc, NoEntry, NoClaim, NoRow
<1>2. \A r \in Requests : ShapeOf(r, req[r])
  BY DEF Init, ShapeOf, Idle, Stopping, Starting, Ends
<1>3. Live = {}
  BY DEF Init, Live, NoProc
<1>4. \A k \in Keys : ~Tracked(k)
  BY DEF Init, Tracked, NoEntry
<1> QED
  BY <1>1, <1>2, <1>3, <1>4 DEF Typed

\* The state of the worker and of the controller's rows keeps its type: no
\* handler works on a key, a port or a process that does not exist.
THEOREM TypeCorrect == Spec => []TypeOK
<1>1. Typed => TypeOK
  BY DEF Typed
<1> QED
  BY <1>1, InitTyped, StepTyped, PTL DEF Spec

-----------------------------------------------------------------------------
(***************************************************************************)
(* Ports.  An entry holds the claim on its port, and a port has one owner. *)
(***************************************************************************)
Held == \A k \in Keys : Tracked(k) => affinity[k].port = PortOf(k) /\ affinity[k].held

OneOwner ==
    \A j, k \in Keys : j # k /\ affinity[j].port = affinity[k].port => affinity[j].port = 0

Ports == PortsPartitioned /\ Held /\ OneOwner

\* A quiet step keeps the ports in their places.
LEMMA QuietPorts == PortTyped /\ Ports /\ Quiet => Ports'
<1> SUFFICES ASSUME PortTyped, Ports, Quiet PROVE Ports'
  OBVIOUS
<1>1. \A k \in Keys : Tracked(k)' = Tracked(k) /\ PortOf(k)' = PortOf(k)
  BY QuietKeeps DEF Tracked, PortOf
<1>2. HeldPorts' = HeldPorts
  BY <1>1 DEF HeldPorts
<1>3. UNCHANGED portVars
  BY DEF Quiet
<1>4. PortsPartitioned'
  BY <1>1, <1>2, <1>3 DEF Ports, PortsPartitioned, portVars
<1> QED
  BY <1>1, <1>3, <1>4 DEF Ports, Held, OneOwner, portVars

\* The end of an entry moves its port to quarantine and keeps every claim.
LEMMA DropsPorts ==
    ASSUME PortTyped, Ports, NEW k \in Keys, Drops(k)
    PROVE  Ports' /\ (\A j \in Keys : affinity'[j].port = affinity[j].port)
<1>0. PortOf(k) \in Port /\ 0 \notin Port /\ affinity[k].port = PortOf(k)
  BY DEF Drops, PortTyped, Port, Ports, Held
<1>1. \A j \in Keys : /\ Tracked(j)' <=> Tracked(j) /\ j # k
                      /\ j # k => PortOf(j)' = PortOf(j)
  BY DEF Drops, DropEntry, NoEntry, Tracked, PortOf, PortTyped
<1>2. HeldPorts = HeldPorts' \cup {PortOf(k)} /\ PortOf(k) \notin HeldPorts'
  BY <1>1 DEF HeldPorts, Drops, Ports, PortsPartitioned
<1>3. /\ affinity'[k] = [port |-> PortOf(k), held |-> FALSE]
      /\ \A j \in Keys \ {k} : affinity'[j] = affinity[j]
  BY <1>0 DEF Drops, DropEntry, Released, Ports, OneOwner
<1>4. PortsPartitioned'
  <2>1. quarantined' = quarantined \cup {PortOf(k)} /\ UNCHANGED <<nextPort, freePorts>>
    BY DEF Drops, DropEntry
  <2>2. \A i, j \in Keys : Tracked(i)' /\ Tracked(j)' /\ i # j => PortOf(i)' # PortOf(j)'
    BY <1>1 DEF Ports, PortsPartitioned
  <2>3. PortOf(k) \in HeldPorts
    BY <1>2
  <2>4. HeldPorts' \cup freePorts' \cup quarantined' = 1..(nextPort' - 1)
    BY <1>2, <2>1 DEF Ports, PortsPartitioned
  <2> QED
    BY <1>2, <2>1, <2>2, <2>3, <2>4 DEF Ports, PortsPartitioned
<1>5. Held' /\ OneOwner'
  BY <1>0, <1>1, <1>3 DEF Ports, Held, OneOwner
<1>6. \A j \in Keys : affinity'[j].port = affinity[j].port
  BY <1>0, <1>3
<1> QED
  BY <1>4, <1>5, <1>6 DEF Ports

\* The port that an allocation takes belongs to no process and is not in quarantine.
LEMMA ChosenPort ==
    ASSUME PortTyped, Ports, NEW k \in Keys, NEW p \in Choices(k)
    PROVE  LET next == IF p = nextPort THEN nextPort + 1 ELSE nextPort IN
           /\ p \in Port
           /\ p \notin HeldPorts \cup quarantined
           /\ HeldPorts \cup quarantined \cup {p} \cup (freePorts \ {p}) = 1..(next - 1)
<1> USE SupervisorAssumption DEF SupervisorAssumption
<1> DEFINE next == IF p = nextPort THEN nextPort + 1 ELSE nextPort
<1>0. p \in Port /\ nextPort \in Nat \ {0} /\ p \in Nat
  BY TakePortTyped DEF PortTyped, Port
<1>1. CASE p \in freePorts
  <2>1. p \in 1..(nextPort - 1) /\ p # nextPort
    BY <1>0, <1>1 DEF Ports, PortsPartitioned
  <2> QED
    BY <1>0, <1>1, <2>1 DEF Ports, PortsPartitioned
<1>2. CASE p = nextPort /\ nextPort <= MaxPort
  <2>1. p \notin 1..(nextPort - 1)
    BY <1>0, <1>2
  <2>2. p \notin HeldPorts \cup freePorts \cup quarantined
    BY <2>1 DEF Ports, PortsPartitioned
  <2>3. 1..(next - 1) = 1..(nextPort - 1) \cup {p}
    BY <1>0, <1>2
  <2> QED
    BY <1>0, <2>2, <2>3 DEF Ports, PortsPartitioned
<1> QED
  BY <1>1, <1>2, ChoiceTyped

\* The new claim leaves every other entry its own.
LEMMA ClaimKeeps ==
    ASSUME PortTyped, Ports, NEW k \in Keys, NEW p \in Choices(k)
    PROVE  LET c == ClaimPort(k, p) IN
           /\ c[k] = [port |-> p, held |-> TRUE]
           /\ \A j \in Keys \ {k} : c[j] = affinity[j] \/ c[j] = NoClaim
           /\ \A j \in Keys \ {k} : Tracked(j) => c[j] = affinity[j]
           /\ \A j \in Keys \ {k} : c[j].port # p
<1> DEFINE c == ClaimPort(k, p)
<1>0. p \in Port /\ p # 0 /\ p \notin HeldPorts
  BY ChosenPort DEF Port
<1>1. /\ c[k] = [port |-> p, held |-> TRUE]
      /\ \A j \in Keys \ {k} : c[j] = IF affinity[j].port = p THEN NoClaim ELSE affinity[j]
  BY DEF ClaimPort
<1>2. \A j \in Keys : Tracked(j) => affinity[j].port # p
  BY <1>0 DEF Ports, Held, HeldPorts
<1> HIDE DEF c
<1>3. NoClaim.port = 0
  BY DEF NoClaim
<1> QED
  BY <1>0, <1>1, <1>2, <1>3 DEF c

\* A start, failed or not, keeps the ports in their places.
LEMMA SpawnPorts ==
    ASSUME Typed, Ports, NEW r \in Requests, SpawnProcess(r) \/ SpawnFails(r)
    PROVE  Ports'
<1>0. PortTyped /\ req[r].key \in Keys
  <2>1. req[r] \in Handler /\ ShapeOf(r, req[r]) /\ req[r].pc = "spawn"
    BY DEF Typed, TypeOK, SpawnProcess, SpawnFails, MaySpawn
  <2> QED
    BY <2>1, TypedParts, SupervisorAssumption DEF ShapeOf, Ends, Starting, SupervisorAssumption
<1>k. PICK k \in Keys : k = req[r].key
  BY <1>0
<1>1. CASE SpawnProcess(r)
  <2>1. PICK i \in Proc, p \in Choices(k) :
          /\ TakePort(k, p)
          /\ entry' = [entry EXCEPT ![k] = [id |-> i, port |-> p, backend |-> req[r].backend,
                                            dir |-> disk[req[r].backend], serving |-> FALSE,
                                            stopping |-> FALSE, survived |-> FALSE]]
    BY <1>1, <1>k DEF SpawnProcess
  <2>2. quarantined' = Reaped(k)
    BY <1>1, <1>k DEF SpawnProcess
  <2>3. /\ Tracked(k)' /\ PortOf(k)' = p
        /\ \A j \in Keys \ {k} : Tracked(j)' = Tracked(j) /\ PortOf(j)' = PortOf(j)
    BY <1>0, <2>1 DEF Tracked, PortOf, PortTyped, Proc
  <2> DEFINE others == {PortOf(j) : j \in {x \in Keys \ {k} : Tracked(x)}}
  <2>4. HeldPorts' = others \cup {p}
    BY <1>0, <2>3 DEF HeldPorts
  <2>5. /\ HeldPorts = others \cup (IF Tracked(k) THEN {PortOf(k)} ELSE {})
        /\ Tracked(k) => PortOf(k) \notin others
    BY <1>0 DEF HeldPorts, Ports, PortsPartitioned
  <2> HIDE DEF others
  <2>6. PortsPartitioned'
    <3>1. HeldPorts' \cup quarantined' = HeldPorts \cup quarantined \cup {p}
      BY <2>2, <2>4, <2>5 DEF Reaped
    <3>2. HeldPorts' \cup freePorts' \cup quarantined' = 1..(nextPort' - 1)
      BY <1>0, <2>1, <3>1, ChosenPort DEF TakePort
    <3>3. freePorts' \cap quarantined' = {} /\ HeldPorts' \cap (freePorts' \cup quarantined') = {}
      BY <1>0, <2>1, <2>2, <2>4, <2>5, ChosenPort DEF TakePort, Reaped, Ports, PortsPartitioned
    <3>4. \A i1, j \in Keys : Tracked(i1)' /\ Tracked(j)' /\ i1 # j => PortOf(i1)' # PortOf(j)'
      <4>1. \A j \in Keys \ {k} : Tracked(j) => PortOf(j) \in HeldPorts
        BY DEF HeldPorts
      <4> QED
        BY <1>0, <2>1, <2>3, <4>1, ChosenPort DEF Ports, PortsPartitioned
    <3> QED
      BY <3>2, <3>3, <3>4 DEF PortsPartitioned
  <2>7. Held' /\ OneOwner'
    <3> DEFINE c == ClaimPort(k, p)
    <3>1. /\ c[k] = [port |-> p, held |-> TRUE]
          /\ \A j \in Keys \ {k} : c[j] = affinity[j] \/ c[j] = NoClaim
          /\ \A j \in Keys \ {k} : Tracked(j) => c[j] = affinity[j]
          /\ \A j \in Keys \ {k} : c[j].port # p
      BY <1>0, ClaimKeeps
    <3>2. affinity' = c
      BY <2>1 DEF TakePort
    <3> HIDE DEF c
    <3>3. Held'
      BY <2>3, <3>1, <3>2 DEF Ports, Held
    <3>4. OneOwner'
      BY <3>1, <3>2 DEF Ports, OneOwner, NoClaim
    <3> QED
      BY <3>3, <3>4
  <2> QED
    BY <2>6, <2>7 DEF Ports
<1>2. CASE SpawnFails(r)
  <2>1. PICK p \in Choices(k) :
          /\ nextPort' = IF p = nextPort THEN nextPort + 1 ELSE nextPort
          /\ freePorts' = freePorts \ {p}
          /\ affinity' = [ClaimPort(k, p) EXCEPT ![k].held = FALSE]
          /\ quarantined' = Reaped(k) \cup {p}
    BY <1>2, <1>k DEF SpawnFails
  <2>2. entry' = [entry EXCEPT ![k] = NoEntry]
    BY <1>2, <1>k DEF SpawnFails
  <2>3. /\ ~Tracked(k)'
        /\ \A j \in Keys \ {k} : Tracked(j)' = Tracked(j) /\ PortOf(j)' = PortOf(j)
    BY <1>0, <2>2 DEF Tracked, PortOf, PortTyped, NoEntry
  <2> DEFINE others == {PortOf(j) : j \in {x \in Keys \ {k} : Tracked(x)}}
  <2>4. HeldPorts' = others
    BY <1>0, <2>3 DEF HeldPorts
  <2>5. /\ HeldPorts = others \cup (IF Tracked(k) THEN {PortOf(k)} ELSE {})
        /\ Tracked(k) => PortOf(k) \notin others
    BY <1>0 DEF HeldPorts, Ports, PortsPartitioned
  <2> HIDE DEF others
  <2>6. PortsPartitioned'
    <3>1. HeldPorts' \cup quarantined' = HeldPorts \cup quarantined \cup {p}
      BY <2>1, <2>4, <2>5 DEF Reaped
    <3>2. HeldPorts' \cup freePorts' \cup quarantined' = 1..(nextPort' - 1)
      BY <1>0, <2>1, <3>1, ChosenPort
    <3>3. freePorts' \cap quarantined' = {} /\ HeldPorts' \cap (freePorts' \cup quarantined') = {}
      BY <1>0, <2>1, <2>4, <2>5, ChosenPort DEF Reaped, Ports, PortsPartitioned
    <3>4. \A i1, j \in Keys : Tracked(i1)' /\ Tracked(j)' /\ i1 # j => PortOf(i1)' # PortOf(j)'
      BY <1>0, <2>3 DEF Ports, PortsPartitioned
    <3> QED
      BY <3>2, <3>3, <3>4 DEF PortsPartitioned
  <2>7. Held' /\ OneOwner'
    <3> DEFINE c == ClaimPort(k, p)
    <3>1. c \in [Keys -> [port : 0..MaxPort, held : BOOLEAN]]
      BY <1>0, TakePortTyped
    <3>2. /\ c[k] = [port |-> p, held |-> TRUE]
          /\ \A j \in Keys \ {k} : c[j] = affinity[j] \/ c[j] = NoClaim
          /\ \A j \in Keys \ {k} : Tracked(j) => c[j] = affinity[j]
          /\ \A j \in Keys \ {k} : c[j].port # p
      BY <1>0, ClaimKeeps
    <3>3. affinity' = [c EXCEPT ![k].held = FALSE]
      BY <2>1
    <3> HIDE DEF c
    <3>4. affinity'[k].port = p /\ \A j \in Keys \ {k} : affinity'[j] = c[j]
      BY <1>0, <3>1, <3>2, <3>3
    <3> QED
      BY <2>3, <3>2, <3>4 DEF Ports, Held, OneOwner, NoClaim
  <2> QED
    BY <2>6, <2>7 DEF Ports
<1> QED
  BY <1>1, <1>2

\* So do the ends of a quarantine and of a claim.
LEMMA EnvironmentPorts == Typed /\ Ports /\ Environment => Ports'
<1> SUFFICES ASSUME Typed, Ports, Environment PROVE Ports'
  OBVIOUS
<1>0. PortTyped
  BY TypedParts
<1>1. CASE \E k \in Keys : RowUnloading(k) \/ RowRemoved(k)
  BY <1>0, <1>1, QuietPorts DEF RowUnloading, RowRemoved, Quiet, procVars
<1>2. CASE \E i \in Proc : ProcessDies(i)
  BY <1>0, <1>2, QuietPorts DEF ProcessDies, Quiet
<1>3. CASE (\E p \in Port : QuarantineEnds(p)) \/ (\E k \in Keys : AffinityLapses(k))
  <2>1. entry' = entry /\ nextPort' = nextPort
    BY <1>3 DEF QuarantineEnds, AffinityLapses, procVars
  <2>2. /\ HeldPorts' = HeldPorts
        /\ \A k \in Keys : Tracked(k)' = Tracked(k) /\ PortOf(k)' = PortOf(k)
    BY <2>1 DEF HeldPorts, Tracked, PortOf
  <2>3. PortsPartitioned'
    BY <1>3, <2>1, <2>2 DEF QuarantineEnds, AffinityLapses, Ports, PortsPartitioned
  <2>4. Held' /\ OneOwner'
    <3>1. CASE affinity' = affinity
      BY <2>2, <3>1 DEF Ports, Held, OneOwner
    <3>2. ASSUME NEW k \in Keys, ~affinity[k].held, affinity' = [affinity EXCEPT ![k] = NoClaim]
          PROVE  Held' /\ OneOwner'
      BY <1>0, <2>2, <3>2 DEF Ports, Held, OneOwner, PortTyped, NoClaim
    <3> QED
      BY <1>3, <3>1, <3>2 DEF QuarantineEnds, AffinityLapses
  <2> QED
    BY <2>3, <2>4 DEF Ports
<1> QED
  BY <1>1, <1>2, <1>3 DEF Environment

\* The partition of the ports is inductive.
LEMMA StepPorts == Typed /\ Ports /\ [Next]_vars => Ports'
<1> SUFFICES ASSUME Typed, Ports, [Next]_vars PROVE Ports'
  OBVIOUS
<1>0. PortTyped
  BY TypedParts
<1>1. ASSUME NEW r \in Requests, HandlerStep(r) PROVE Ports'
  BY <1>0, <1>1, HandlerKinds, QuietPorts, DropsPorts, SpawnPorts
<1>2. ASSUME NEW r \in Requests, SpawnProcess(r) PROVE Ports'
  BY <1>2, SpawnPorts
<1>3. CASE UNCHANGED vars
  BY <1>0, <1>3, QuietPorts DEF vars, procVars, Quiet
<1> QED
  BY <1>1, <1>2, <1>3, NextKinds, EnvironmentPorts

\* It holds at first.
LEMMA InitPorts == Init => Ports
<1> SUFFICES ASSUME Init PROVE Ports
  OBVIOUS
<1>1. \A k \in Keys : ~Tracked(k)
  BY DEF Init, Tracked, NoEntry
<1>2. HeldPorts = {}
  BY <1>1 DEF HeldPorts
<1>3. PortsPartitioned
  BY <1>1, <1>2 DEF Init, PortsPartitioned
<1> QED
  BY <1>1, <1>3 DEF Init, Ports, Held, OneOwner, NoClaim

\* No sequence of starts, failed starts, crashes and concurrent stops loses a
\* port of the worker's range or gives it to two processes.
THEOREM PortsAreKept == Spec => []PortsPartitioned
<1>1. Ports => PortsPartitioned
  BY DEF Ports
<1> QED
  BY <1>1, InitTyped, StepTyped, InitPorts, StepPorts, PTL DEF Spec

-----------------------------------------------------------------------------
(***************************************************************************)
(* A live process has its entry, unless one that missed its deadline of    *)
(* readiness could not be stopped.                                         *)
(***************************************************************************)
Ended == \A r \in Requests : req[r].pc = "release" => ~proc[req[r].id].alive

Reserved == PortReserved /\ Ended

\* A process whose start is being released stays dead.
LEMMA MovesEnded ==
    ASSUME Typed, Ended, ~SurvivesDeadline, NEW r \in Requests, NEW h, Moves(r, h),
           \A i \in Proc : proc'[i] = proc[i] \/ ~proc'[i].alive
    PROVE  Ended'
<1> SUFFICES ASSUME NEW q \in Requests, req'[q].pc = "release"
             PROVE  ~proc'[req'[q].id].alive
  BY DEF Ended
<1>1. req \in [Requests -> Handler]
  BY DEF Typed, TypeOK
<1>2. CASE q = r
  BY <1>1, <1>2 DEF Moves
<1>3. CASE q # r
  <2>1. req'[q] = req[q]
    BY <1>1, <1>3 DEF Moves
  <2>2. req[q].id \in Proc /\ ~proc[req[q].id].alive
    BY <2>1 DEF Typed, ShapeOf, Ended
  <2> QED
    BY <2>1, <2>2
<1> QED
  BY <1>2, <1>3

\* The end of a dead process's entry takes no entry from a live one.
LEMMA DropsReserved ==
    ASSUME Typed, PortReserved, NEW k \in Keys, Drops(k), ~proc[entry[k].id].alive
    PROVE  PortReserved'
<1>1. proc' = proc /\ \A j \in Keys \ {k} : entry'[j] = entry[j]
  BY DEF Drops, DropEntry, Typed, TypeOK
<1>2. \A i \in Live : proc[i].key \in Keys \ {k}
  BY DEF Typed, PortReserved, Live
<1> QED
  BY <1>1, <1>2 DEF PortReserved, Live, PortOf

\* Flags and deaths take no entry from a live process.
LEMMA QuietReserved == Typed /\ PortReserved /\ Quiet => PortReserved'
<1> SUFFICES ASSUME Typed, PortReserved, Quiet, NEW i \in Live'
             PROVE  entry'[proc'[i].key].id = i /\ entry'[proc'[i].key].port = proc'[i].port
  BY DEF PortReserved, PortOf
<1>1. i \in Proc /\ proc'[i] = proc[i] /\ i \in Live
  BY QuietKeeps, TypedParts DEF Live
<1>2. proc[i].key \in Keys /\ entry[proc[i].key].id = i /\ entry[proc[i].key].port = proc[i].port
  BY <1>1 DEF Typed, PortReserved, PortOf
<1> QED
  BY <1>1, <1>2, QuietKeeps, TypedParts

\* No handler takes the entry of a live process,
LEMMA HandlerReserved ==
    ASSUME Typed, Reserved, ~SurvivesDeadline, NEW r \in Requests, HandlerStep(r)
    PROVE  Reserved'
<1>0. PortTyped
  BY TypedParts
<1>1. PICK h : Moves(r, h)
  BY HandlerMoves
<1>2. CASE Quiet
  BY <1>0, <1>1, <1>2, QuietKeeps, QuietReserved, MovesEnded DEF Reserved
<1>3. CASE SpawnFails(r)
  <2>1. req[r].key \in Keys
    <3>1. req[r] \in Handler /\ ShapeOf(r, req[r]) /\ req[r].pc = "spawn"
      BY <1>3 DEF Typed, TypeOK, SpawnFails, MaySpawn
    <3> QED
      BY <3>1, SupervisorAssumption DEF ShapeOf, Ends, Starting, SupervisorAssumption
  <2>2. proc' = proc /\ \A j \in Keys \ {req[r].key} : entry'[j] = entry[j]
    BY <1>3, <2>1 DEF SpawnFails, Typed, TypeOK
  <2>3. \A i \in Live : proc[i].key \in Keys \ {req[r].key}
    <3> SUFFICES ASSUME NEW i \in Live PROVE proc[i].key # req[r].key
      BY DEF Typed
    <3>1. i \in Proc /\ i # 0 /\ proc[i].alive /\ entry[proc[i].key].id = i
      BY DEF Live, Reserved, PortReserved, Proc
    <3> QED
      BY <1>3, <3>1 DEF SpawnFails, MaySpawn, Alive, Tracked
  <2>4. PortReserved'
    BY <2>2, <2>3 DEF Reserved, PortReserved, Live, PortOf
  <2> QED
    BY <1>1, <2>2, <2>4, MovesEnded DEF Reserved
<1>4. ASSUME NEW k \in Keys, Drops(k),
             ~Alive(k) \/ (req[r].pc = "release" /\ entry[k].id = req[r].id)
      PROVE  Reserved'
  <2>1. ~proc[entry[k].id].alive /\ proc' = proc
    BY <1>4 DEF Drops, Alive, Reserved, Ended
  <2> QED
    BY <1>1, <1>4, <2>1, DropsReserved, MovesEnded DEF Reserved
<1> QED
  BY <1>2, <1>3, <1>4, HandlerKinds

\* nor does a start,
LEMMA SpawnReserved ==
    ASSUME Typed, Reserved, NEW r \in Requests, SpawnProcess(r)
    PROVE  Reserved'
<1>0. req[r].key \in Keys /\ req \in [Requests -> Handler]
  <2>1. req[r] \in Handler /\ ShapeOf(r, req[r]) /\ req[r].pc = "spawn"
    BY DEF Typed, TypeOK, SpawnProcess, MaySpawn
  <2> QED
    BY <2>1, SupervisorAssumption DEF ShapeOf, Ends, Starting, SupervisorAssumption, Typed, TypeOK
<1>k. PICK k \in Keys : k = req[r].key
  BY <1>0
<1>1. PICK i \in Proc, p \in Choices(k) :
        /\ Unused(i)
        /\ proc' = [proc EXCEPT ![i] = [key |-> k, port |-> p, alive |-> TRUE]]
        /\ entry' = [entry EXCEPT ![k] = [id |-> i, port |-> p, backend |-> req[r].backend,
                                          dir |-> disk[req[r].backend], serving |-> FALSE,
                                          stopping |-> FALSE, survived |-> FALSE]]
        /\ req' = [req EXCEPT ![r].pc = "ready", ![r].id = i, ![r].port = p]
  BY <1>k DEF SpawnProcess
<1>2. \A j \in Live : proc[j].key \in Keys \ {k} /\ j # i
  <2> SUFFICES ASSUME NEW j \in Live PROVE proc[j].key # k /\ j # i
    BY DEF Typed
  <2>1. j \in Proc /\ j # 0 /\ proc[j].alive /\ entry[proc[j].key].id = j
    BY DEF Live, Reserved, PortReserved, Proc
  <2> QED
    BY <1>k, <1>1, <2>1 DEF SpawnProcess, MaySpawn, Alive, Tracked, Unused
<1>3. /\ proc'[i] = [key |-> k, port |-> p, alive |-> TRUE]
      /\ \A j \in Proc \ {i} : proc'[j] = proc[j]
  BY <1>1 DEF Typed, TypeOK
<1>4. /\ entry'[k].id = i /\ entry'[k].port = p
      /\ \A j \in Keys \ {k} : entry'[j] = entry[j]
  BY <1>1 DEF Typed, TypeOK
<1>5. PortReserved'
  <2> SUFFICES ASSUME NEW j \in Live'
               PROVE  entry'[proc'[j].key].id = j /\ entry'[proc'[j].key].port = proc'[j].port
    BY DEF PortReserved, PortOf
  <2>1. CASE j = i
    BY <2>1, <1>3, <1>4
  <2>2. CASE j # i
    <3>1. j \in Live /\ proc'[j] = proc[j]
      BY <2>2, <1>3 DEF Live
    <3> QED
      BY <3>1, <1>2, <1>4 DEF Reserved, PortReserved, PortOf
  <2> QED
    BY <2>1, <2>2
<1>6. Ended'
  <2> SUFFICES ASSUME NEW q \in Requests, req'[q].pc = "release"
               PROVE  ~proc'[req'[q].id].alive
    BY DEF Ended
  <2>1. q # r
    BY <1>0, <1>1 DEF Handler
  <2>2. req'[q] = req[q]
    BY <1>0, <1>1, <2>1
  <2>3. req[q].id \in Proc /\ ~proc[req[q].id].alive /\ req[q].id # i
    BY <1>1, <2>2 DEF Typed, ShapeOf, Reserved, Ended, Unused
  <2> QED
    BY <2>2, <2>3, <1>3
<1> QED
  BY <1>5, <1>6 DEF Reserved

\* nor a step from outside.
LEMMA EnvironmentReserved == Typed /\ Reserved /\ Environment => Reserved'
<1> SUFFICES ASSUME Typed, Reserved, Environment PROVE Reserved'
  OBVIOUS
<1>1. req' = req
  BY DEF Environment, AffinityLapses, RowUnloading, RowRemoved, QuarantineEnds, ProcessDies
<1>2. entry' = entry /\ (proc' = proc \/ \E i \in Proc : Dies(i))
  BY DEF Environment, AffinityLapses, RowUnloading, RowRemoved, QuarantineEnds, ProcessDies,
     procVars
<1>3. \A i \in Proc : proc'[i] = proc[i] \/ ~proc'[i].alive
  BY <1>2 DEF Typed, TypeOK, Dies, NoProc
<1>4. PortReserved'
  BY <1>2, <1>3 DEF Reserved, PortReserved, Live, PortOf
<1>5. \A r \in Requests : req[r].pc = "release" => req[r].id \in Proc
  BY DEF Typed, ShapeOf
<1>6. Ended'
  BY <1>1, <1>3, <1>5 DEF Reserved, Ended
<1> QED
  BY <1>4, <1>6 DEF Reserved

\* That a live process has its entry is inductive,
LEMMA StepReserved == ~SurvivesDeadline /\ Typed /\ Reserved /\ [Next]_vars => Reserved'
<1> SUFFICES ASSUME ~SurvivesDeadline, Typed, Reserved, [Next]_vars PROVE Reserved'
  OBVIOUS
<1>1. CASE UNCHANGED vars
  BY <1>1 DEF vars, procVars, Reserved, PortReserved, Ended, Live, PortOf
<1> QED
  BY <1>1, NextKinds, HandlerReserved, SpawnReserved, EnvironmentReserved

\* and holds at first.
LEMMA InitReserved == Init => Reserved
BY DEF Init, Reserved, PortReserved, Ended, Live, NoProc, Idle

\* If the process that misses its deadline of readiness can be stopped, the port
\* of a live process is its key's: startBackend never hands it out again.
THEOREM PortsAreReserved == ~SurvivesDeadline => (Spec => []PortReserved)
<1> SUFFICES ASSUME ~SurvivesDeadline PROVE Spec => []PortReserved
  OBVIOUS
<1>1. Typed /\ Reserved /\ [Next]_vars => Reserved'
  BY StepReserved
<1>2. Reserved => PortReserved
  BY DEF Reserved
<1> QED
  BY <1>1, <1>2, InitTyped, StepTyped, InitReserved, PTL DEF Spec

-----------------------------------------------------------------------------
(***************************************************************************)
(* Rows and answers.  Each names a port that its key still claims, or      *)
(* whose claim ended.                                                      *)
(***************************************************************************)
Good(k, p) == p = 0 \/ <<k, p>> \in lost \/ affinity[k].port = p

Named ==
    /\ \A k \in Keys : Good(k, rows[k].port)
    /\ \A r \in Installs : req[r].key \in Keys => Good(req[r].key, req[r].port)

\* A step keeps every claim that a row or an answer may rely on.
GoodKept == \A k \in Keys, p \in 0..MaxPort : Good(k, p) => Good(k, p)'

\* An allocation records the claims it ends.
LEMMA SpawnGood ==
    ASSUME Typed, NEW r \in Requests, SpawnProcess(r) \/ SpawnFails(r)
    PROVE  GoodKept
<1>0. PortTyped /\ req[r].key \in Keys
  <2>1. req[r] \in Handler /\ ShapeOf(r, req[r]) /\ req[r].pc = "spawn"
    BY DEF Typed, TypeOK, SpawnProcess, SpawnFails, MaySpawn
  <2> QED
    BY <2>1, TypedParts, SupervisorAssumption DEF ShapeOf, Ends, Starting, SupervisorAssumption
<1>k. PICK k \in Keys : k = req[r].key
  BY <1>0
<1>1. PICK p \in Choices(k) :
        /\ lost' = (lost \cup Lost(k, p)) \ {<<k, p>>}
        /\ affinity' = ClaimPort(k, p) \/ affinity' = [ClaimPort(k, p) EXCEPT ![k].held = FALSE]
  BY <1>k DEF SpawnProcess, SpawnFails, TakePort
<1>2. \A j \in Keys : affinity'[j].port = ClaimPort(k, p)[j].port
  <2>1. ClaimPort(k, p) \in [Keys -> [port : 0..MaxPort, held : BOOLEAN]]
    BY <1>0, TakePortTyped
  <2> QED
    BY <1>1, <2>1
<1>3. /\ affinity'[k].port = p
      /\ \A j \in Keys \ {k} : affinity[j].port # p => affinity'[j].port = affinity[j].port
  BY <1>2 DEF ClaimPort
<1> SUFFICES ASSUME NEW j \in Keys, NEW q \in 0..MaxPort, Good(j, q) PROVE Good(j, q)'
  BY DEF GoodKept
<1>4. CASE j = k /\ q = p
  BY <1>3, <1>4 DEF Good
<1>5. CASE <<j, q>> # <<k, p>> /\ <<j, q>> \in lost
  BY <1>1, <1>5 DEF Good
<1>6. CASE <<j, q>> # <<k, p>> /\ q # 0 /\ affinity[j].port = q
  <2>1. CASE j = k
    <3>1. <<j, q>> \in Lost(k, p)
      BY <1>6, <2>1 DEF Lost
    <3> QED
      BY <1>1, <1>6, <3>1 DEF Good
  <2>2. CASE j # k /\ q = p
    <3>1. <<j, q>> \in Lost(k, p)
      BY <1>6, <2>2 DEF Lost
    <3> QED
      BY <1>1, <1>6, <3>1 DEF Good
  <2>3. CASE j # k /\ q # p
    BY <1>3, <1>6, <2>3 DEF Good
  <2> QED
    BY <2>1, <2>2, <2>3, <1>6
<1>7. CASE q = 0
  BY <1>7 DEF Good
<1> QED
  BY <1>4, <1>5, <1>6, <1>7 DEF Good

\* No handler ends a claim without a record.
LEMMA HandlerGood ==
    ASSUME Typed, Ports, NEW r \in Requests, HandlerStep(r)
    PROVE  GoodKept
<1>0. PortTyped
  BY TypedParts
<1>1. CASE Quiet
  BY <1>1 DEF Quiet, portVars, GoodKept, Good
<1>2. CASE SpawnFails(r)
  BY <1>2, SpawnGood
<1>3. ASSUME NEW k \in Keys, Drops(k) PROVE GoodKept
  <2>1. lost' = lost /\ \A j \in Keys : affinity'[j].port = affinity[j].port
    BY <1>0, <1>3, DropsPorts DEF Drops, DropEntry
  <2> QED
    BY <2>1 DEF GoodKept, Good
<1> QED
  BY <1>1, <1>2, <1>3, HandlerKinds

\* A row takes the port of an answer to its key, or none, or stays.
LEMMA HandlerRows ==
    ASSUME Typed, NEW r \in Requests, HandlerStep(r)
    PROVE  \A k \in Keys : \/ rows'[k].port \in {0, rows[k].port}
                           \/ r \in Installs /\ req[r].key = k /\ rows'[k].port = req[r].port
<1>1. CASE rows' = rows
  BY <1>1
<1>2. rows \in [Keys -> [port : 0..MaxPort, state : {"none", "loaded", "unloading"},
                         id : 0..MaxProc]] /\ NoRow.port = 0
  BY DEF Typed, TypeOK, NoRow
<1>3. CASE RowLoaded(r)
  <2>1. PICK row : rows' = [rows EXCEPT ![req[r].key] = row]
                   /\ row.port \in {0, req[r].port} /\ r \in Installs
    BY <1>2, <1>3 DEF RowLoaded
  <2> QED
    BY <2>1, <1>2
<1>4. CASE RowsDropped(r)
  BY <1>2, <1>4 DEF RowsDropped
<1>5. CASE RowCleaned(r)
  BY <1>2, <1>5 DEF RowCleaned
<1>6. CASE \/ ReadAddr(r) \/ JudgeProcess(r) \/ CheckDirectory(r) \/ AlreadyThere(r)
           \/ SpawnFails(r) \/ NoFreePort(r) \/ BecomesReady(r) \/ DiesDuringStart(r)
           \/ ReadinessTimeout(r) \/ ReleaseBackendStart(r)
  BY <1>1, <1>6 DEF ReadAddr, JudgeProcess, CheckDirectory, AlreadyThere, SpawnFails,
       NoFreePort, BecomesReady, DiesDuringStart, ReadinessTimeout, ReleaseBackendStart
<1>7. CASE StopStep(r)
  BY <1>1, <1>7 DEF StopStep, BeginBackendStop, StopProcess, FinishBackendStop, StopNext,
       ListKeys, RemoveFiles, StopModelExact
<1>8. CASE \/ \E k \in Keys, b \in Backends : SendInstall(r, k, b)
           \/ \E k \in Keys : SendStop(r, k) \/ SendExactStop(r, k)
           \/ \E b \in Backends : SendDelete(r, b) \/ SendUpgrade(r, b)
           \/ AnswerUnused(r)
  BY <1>1, <1>8 DEF SendInstall, SendStop, SendExactStop, SendDelete, SendUpgrade, Send,
       AnswerUnused
<1>9. CASE LockBackend(r) \/ FindOrInstall(r) \/ Reply(r)
  BY <1>1, <1>9 DEF LockBackend, FindOrInstall, Reply
<1> QED
  BY <1>3, <1>4, <1>5, <1>6, <1>7, <1>8, <1>9 DEF HandlerStep, ControllerStep

\* A handler keeps rows and answers to ports of their keys,
LEMMA HandlerNamed ==
    ASSUME Typed, Ports, Named, NEW r \in Requests, HandlerStep(r)
    PROVE  Named'
<1>0. GoodKept
  BY HandlerGood
<1>1. PICK h : Moves(r, h)
  BY HandlerMoves
<1>2. req \in [Requests -> Handler]
  BY DEF Typed, TypeOK
<1>3. \A k \in Keys : rows[k].port \in 0..MaxPort
  BY DEF Typed, TypeOK
<1>4. \A q \in Requests : req[q].port \in 0..MaxPort
  BY <1>2 DEF Handler
<1>5. ASSUME NEW k \in Keys PROVE Good(k, rows[k].port)'
  <2>1. CASE rows'[k].port = 0
    BY <2>1 DEF Good
  <2>2. CASE rows'[k].port = rows[k].port
    BY <2>2, <1>0, <1>3 DEF GoodKept, Named, Good
  <2>3. CASE r \in Installs /\ req[r].key = k /\ rows'[k].port = req[r].port
    BY <2>3, <1>0, <1>4 DEF GoodKept, Named, Good
  <2> QED
    BY <2>1, <2>2, <2>3, HandlerRows
<1>6. ASSUME NEW q \in Installs, req'[q].key \in Keys
      PROVE  Good(req[q].key, req[q].port)'
  <2>0. q \in Requests
    BY DEF Requests
  <2>1. CASE req'[q].port = 0
    BY <2>1 DEF Good
  <2>2. CASE req'[q].port = req[q].port /\ req'[q].key = req[q].key
    BY <2>0, <2>2, <1>0, <1>4, <1>6 DEF GoodKept, Named, Good
  <2>3. CASE Tracked(req'[q].key) /\ req'[q].port = PortOf(req'[q].key)
    <3> DEFINE k == req'[q].key
               p == req'[q].port
    <3>1. PICK j \in Keys : j = req'[q].key
      BY <1>6
    <3>2. PortOf(j) \in 0..MaxPort /\ Good(j, PortOf(j))
      BY <2>3, <3>1 DEF Typed, TypeOK, PortOf, Ports, Held, Good
    <3>3. affinity'[j].port = PortOf(j) \/ <<j, PortOf(j)>> \in lost' \/ PortOf(j) = 0
      BY <1>0, <3>2 DEF GoodKept, Good
    <3> QED
      BY <2>3, <3>1, <3>3 DEF Good
  <2> QED
    <3>1. CASE q = r
      BY <1>1, <1>2, <2>0, <2>1, <2>2, <2>3, <3>1 DEF Moves, Learns
    <3>2. CASE q # r
      BY <1>1, <1>2, <2>0, <2>2, <3>2 DEF Moves
    <3> QED
      BY <3>1, <3>2
<1> QED
  BY <1>5, <1>6 DEF Named

\* and so does a start,
LEMMA SpawnNamed ==
    ASSUME Typed, Named, NEW r \in Requests, SpawnProcess(r)
    PROVE  Named'
<1>0. GoodKept
  BY SpawnGood
<1>1. req \in [Requests -> Handler] /\ PortTyped
  BY TypedParts DEF Typed, TypeOK
<1>2. \A k \in Keys : Good(k, rows[k].port)'
  <2>1. rows' = rows /\ \A k \in Keys : rows[k].port \in 0..MaxPort
    BY DEF SpawnProcess, Typed, TypeOK
  <2> QED
    BY <1>0, <2>1 DEF GoodKept, Named, Good
<1>3. ASSUME NEW q \in Installs, req'[q].key \in Keys
      PROVE  Good(req[q].key, req[q].port)'
  <2>0. q \in Requests
    BY DEF Requests
  <2>1. CASE q # r
    <3>1. req'[q] = req[q] /\ req[q].port \in 0..MaxPort
      BY <1>1, <2>0, <2>1 DEF SpawnProcess, Handler
    <3> QED
      BY <1>0, <1>3, <3>1 DEF GoodKept, Named, Good
  <2>2. CASE q = r
    <3>1. PICK p \in Choices(req[r].key) :
            /\ affinity' = ClaimPort(req[r].key, p)
            /\ req'[r].port = p /\ req'[r].key = req[r].key
      BY <1>1 DEF SpawnProcess, TakePort, Handler
    <3>2. affinity'[req[r].key].port = p
      BY <1>3, <2>2, <3>1 DEF ClaimPort
    <3> QED
      BY <2>2, <3>1, <3>2 DEF Good
  <2> QED
    BY <2>1, <2>2
<1> QED
  BY <1>2, <1>3 DEF Named

\* and the lapse of a claim, as no row or answer names it.
LEMMA EnvironmentNamed == Typed /\ Named /\ Environment => Named'
<1> SUFFICES ASSUME Typed, Named, Environment PROVE Named'
  OBVIOUS
<1>1. req' = req /\ lost' = lost
  BY DEF Environment, AffinityLapses, RowUnloading, RowRemoved, QuarantineEnds, ProcessDies,
     portVars
<1>2. \A k \in Keys : rows'[k].port \in {0, rows[k].port}
  BY DEF Environment, AffinityLapses, RowUnloading, RowRemoved, QuarantineEnds, ProcessDies,
     Typed, TypeOK, NoRow
<1>3. CASE affinity' = affinity
  BY <1>1, <1>2, <1>3 DEF Named, Good
<1>4. ASSUME NEW k \in Keys, AffinityLapses(k) PROVE Named'
  <2>1. rows' = rows /\ affinity' = [affinity EXCEPT ![k] = NoClaim]
    BY <1>4 DEF AffinityLapses
  <2>2. \A j \in Keys \ {k} : affinity'[j] = affinity[j]
    BY <2>1 DEF Typed, TypeOK
  <2>3. \A j \in Keys : Good(j, rows[j].port)'
    BY <1>1, <1>4, <2>1, <2>2 DEF AffinityLapses, Named, Good
  <2>4. \A r \in Installs : req[r].key \in Keys => Good(req[r].key, req[r].port)'
    BY <1>1, <1>4, <2>1, <2>2 DEF AffinityLapses, Named, Good
  <2> QED
    BY <1>1, <2>3, <2>4 DEF Named, Good
<1> QED
  BY <1>3, <1>4 DEF Environment, RowUnloading, RowRemoved, QuarantineEnds, ProcessDies, portVars

\* That rows and answers name claimed ports is inductive,
LEMMA StepNamed == Typed /\ Ports /\ Named /\ [Next]_vars => Named'
<1> SUFFICES ASSUME Typed, Ports, Named, [Next]_vars PROVE Named'
  OBVIOUS
<1>1. CASE UNCHANGED vars
  BY <1>1 DEF vars, portVars, Named, Good
<1> QED
  BY <1>1, NextKinds, HandlerNamed, SpawnNamed, EnvironmentNamed

\* and holds at first.
LEMMA InitNamed == Init => Named
BY DEF Init, Named, Good, NoRow, Idle, Requests

\* A row never reaches another key's process while its key kept the claim on the
\* port: the affinity of ports does what allocatePort and claimPort are for.
THEOREM ClaimsProtect == ~SurvivesDeadline => (Spec => []ClaimProtects)
<1> SUFFICES ASSUME ~SurvivesDeadline PROVE Spec => []ClaimProtects
  OBVIOUS
<1>1. Typed /\ Reserved /\ [Next]_vars => Reserved'
  BY StepReserved
<1>2. Typed /\ Ports /\ Reserved /\ Named => ClaimProtects
  <2> SUFFICES ASSUME Typed, Ports, Reserved, Named, NEW k \in Keys, NEW i \in Live,
                      rows[k].port = proc[i].port, <<k, proc[i].port>> \notin lost
               PROVE  proc[i].key = k
    BY DEF ClaimProtects
  <2> DEFINE j == proc[i].key
  <2>1. j \in Keys /\ proc[i].port \in Port /\ proc[i].port # 0 /\ i # 0
    BY DEF Typed, Port, Live, Proc
  <2>2. Tracked(j) /\ PortOf(j) = proc[i].port
    BY <2>1 DEF Reserved, PortReserved, Tracked
  <2>3. affinity[j].port = proc[i].port
    BY <2>1, <2>2 DEF Ports, Held
  <2>4. affinity[k].port = proc[i].port
    BY <2>1 DEF Named, Good
  <2> QED
    BY <2>1, <2>3, <2>4 DEF Ports, OneOwner
<1> QED
  BY <1>1, <1>2, InitTyped, StepTyped, InitPorts, StepPorts, InitReserved, InitNamed,
     StepNamed, PTL DEF Spec

-----------------------------------------------------------------------------
(***************************************************************************)
(* Directories.  An install or upgrade works under the lock of its         *)
(* backend, so what an install found out about a directory stays true.     *)
(***************************************************************************)
\* The steps at which a request does not have the lock of its backend.
Outside == {"idle", "queued", "lock", "sent", "done"}

Locked ==
    \A r \in Installs \cup Upgrades :
        /\ req[r].pc = "lock" => req[r].backend \in Backends
        /\ req[r].pc \notin Outside => req[r].backend \in Backends /\ lock[req[r].backend] = r

\* The process of k, if it is one of b, runs out of b's directory.
Sound(k, b) ==
    Tracked(k) /\ entry[k].backend = b =>
        entry[k].dir = disk[b] \/ disk[b] = 0 \/ entry[k].survived

\* The same, unless it is being stopped.
Spared(k, b) == Sound(k, b) \/ entry[k].stopping

\* What a handler knows of the process under its key.
Knows(q) ==
    /\ q.pc \in {"spawn", "ready"} => Spared(q.key, q.backend)
    /\ q.pc \in {"kill", "finish"} /\ q.back = "spawn" =>
           entry[q.key].id = q.id \/ Spared(q.key, q.backend)
    /\ q.pc = "reply" /\ q.port # 0 => Sound(q.key, q.backend)
    /\ q.pc \in Stopping /\ q.back = "spawn" => q.target = q.key
    /\ q.pc # "files" /\ q.back # "reply"

Judged == Locked /\ \A r \in Installs : Knows(req[r])

\* What a step makes of the lock, and of a request that takes or has one.
LEMMA LockKinds ==
    ASSUME Typed, NEW r \in Requests, HandlerStep(r) \/ SpawnProcess(r)
    PROVE  /\ lock' = lock \/ LockBackend(r) \/ Reply(r)
           /\ r \in Installs \cup Upgrades =>
                \/ req'[r].pc \in Outside \ {"lock"}
                \/ req'[r].pc = "lock" /\ req'[r].backend \in Backends
                \/ /\ req'[r].backend = req[r].backend
                   /\ req[r].pc \notin Outside \/ LockBackend(r)
<1>1. req \in [Requests -> Handler] /\ req[r] \in Handler /\ ShapeOf(r, req[r])
  BY DEF Typed, TypeOK
<1>2. r \in Installs \cup Upgrades => r \notin ExactStops
  BY SupervisorAssumption DEF SupervisorAssumption
<1> USE <1>1 DEF Outside, Handler
<1>3. CASE \/ ReadAddr(r) \/ JudgeProcess(r) \/ CheckDirectory(r) \/ AlreadyThere(r)
           \/ SpawnFails(r) \/ NoFreePort(r) \/ BecomesReady(r) \/ DiesDuringStart(r)
           \/ ReadinessTimeout(r) \/ ReleaseBackendStart(r) \/ SpawnProcess(r)
  <2>1. lock' = lock /\ req[r].pc \in Starting
    BY <1>3 DEF ReadAddr, JudgeProcess, CheckDirectory, AlreadyThere, SpawnFails, NoFreePort,
         BecomesReady, DiesDuringStart, ReadinessTimeout, ReleaseBackendStart, SpawnProcess,
         MaySpawn, Starting
  <2>2. CASE ReadAddr(r)
    BY <2>1, <2>2 DEF ReadAddr, Starting
  <2>3. CASE SpawnProcess(r)
    <3>1. PICK i \in Proc, p \in Choices(req[r].key) :
            req' = [req EXCEPT ![r].pc = "ready", ![r].id = i, ![r].port = p]
      BY <2>3 DEF SpawnProcess
    <3> QED
      BY <2>1, <3>1 DEF Starting
  <2>4. ASSUME NEW p, Answer(r, p) PROVE req'[r].backend = req[r].backend
    BY <2>4 DEF Answer
  <2>5. ASSUME NEW s, Goto(r, s) PROVE req'[r].backend = req[r].backend
    BY <2>5 DEF Goto
  <2>6. ASSUME NEW k, NEW back, NEW lenient, StopFirst(r, k, back, lenient)
        PROVE  req'[r].backend = req[r].backend
    BY <2>6 DEF StopFirst
  <2>7. CASE \/ JudgeProcess(r) \/ CheckDirectory(r) \/ AlreadyThere(r)
             \/ SpawnFails(r) \/ NoFreePort(r) \/ BecomesReady(r) \/ DiesDuringStart(r)
             \/ ReadinessTimeout(r) \/ ReleaseBackendStart(r)
    <3>1. req'[r].backend = req[r].backend
      BY <2>4, <2>5, <2>6, <2>7 DEF JudgeProcess, CheckDirectory, AlreadyThere, SpawnFails,
         NoFreePort, BecomesReady, DiesDuringStart, ReadinessTimeout, ReleaseBackendStart
    <3> QED
      BY <2>1, <3>1 DEF Starting
  <2> QED
    BY <1>3, <2>2, <2>3, <2>7
<1>4. CASE BeginBackendStop(r) \/ StopProcess(r) \/ FinishBackendStop(r)
  <2>1. lock' = lock /\ req[r].pc \in Stopping
    BY <1>4 DEF BeginBackendStop, StopProcess, FinishBackendStop, Stopping
  <2>2. ASSUME NEW ok, Returned(r, ok) PROVE req'[r].backend = req[r].backend
    <3>1. CASE ok \/ req[r].lenient
      <4>1. PICK stopped :
              req' = [req EXCEPT ![r] = [req[r] EXCEPT !.pc = req[r].back, !.id = 0,
                                           !.target = None, !.stopped = stopped]]
        BY <2>2, <3>1 DEF Returned
      <4> QED
        BY <4>1
    <3>2. CASE ~(ok \/ req[r].lenient)
      BY <2>2, <3>2 DEF Returned
    <3> QED
      BY <3>1, <3>2
  <2>3. ASSUME NEW i, req' = [req EXCEPT ![r].pc = "kill", ![r].id = i]
        PROVE  req'[r].backend = req[r].backend
    BY <2>3
  <2>4. ASSUME Goto(r, "finish") PROVE req'[r].backend = req[r].backend
    BY <2>4 DEF Goto
  <2>5. req'[r].backend = req[r].backend
    BY <1>4, <2>2, <2>3, <2>4 DEF BeginBackendStop, StopProcess, FinishBackendStop
  <2> QED
    BY <2>1, <2>5 DEF Stopping
<1>5. CASE StopNext(r) \/ ListKeys(r) \/ RemoveFiles(r)
  <2>1. lock' = lock /\ req[r].pc \in {"next", "list", "files"}
    BY <1>5 DEF StopNext, ListKeys, RemoveFiles
  <2>2. CASE Answer(r, 0) \/ \E s \in Steps : Goto(r, s)
    BY <2>1, <2>2 DEF Answer, Goto
  <2>3. CASE ListKeys(r)
    <3>1. PICK todo : req' = [req EXCEPT ![r].pc = "next", ![r].todo = todo]
      BY <2>3 DEF ListKeys
    <3> QED
      BY <2>1, <3>1
  <2>4. ASSUME NEW k \in req[r].todo,
               req' = [req EXCEPT ![r].pc = "begin", ![r].target = k,
                                  ![r].todo = req[r].todo \ {k}, ![r].back = "next",
                                  ![r].lenient = r \in Stops,
                                  ![r].report = r \in Deletes \/ (r \in Upgrades /\ Tracked(k))]
        PROVE  req'[r].backend = req[r].backend
    <3> DEFINE todo == req[r].todo \ {k}
               lenient == r \in Stops
               report == r \in Deletes \/ (r \in Upgrades /\ Tracked(k))
    <3>1. req' = [req EXCEPT ![r].pc = "begin", ![r].target = k, ![r].todo = todo,
                             ![r].back = "next", ![r].lenient = lenient, ![r].report = report]
      BY <2>4
    <3> HIDE DEF todo, lenient, report
    <3> QED
      BY <3>1
  <2>5. CASE StopNext(r)
    <3>1. CASE req[r].todo = {}
      <4>1. Answer(r, 0) \/ Goto(r, "files") \/ Goto(r, "find")
        BY <2>5, <3>1 DEF StopNext
      <4> QED
        BY <2>2, <4>1 DEF Steps
    <3>2. CASE req[r].todo # {}
      <4>1. req'[r].backend = req[r].backend
        BY <2>4, <2>5, <3>2 DEF StopNext
      <4> QED
        BY <2>1, <4>1
    <3> QED
      BY <3>1, <3>2
  <2> QED
    BY <1>5, <2>2, <2>3, <2>5 DEF RemoveFiles, Steps
<1>6. CASE StopModelExact(r)
  BY <1>2, <1>6 DEF StopModelExact
<1>7. CASE ControllerStep(r)
  <2>1. lock' = lock
    BY <1>7 DEF ControllerStep, SendInstall, SendStop, SendExactStop, SendDelete, SendUpgrade,
         Send, AnswerUnused, RowLoaded, RowsDropped, RowCleaned
  <2>2. CASE \E k \in Keys, b \in Backends : SendInstall(r, k, b)
    BY <2>1, <2>2 DEF SendInstall, Send
  <2>3. CASE \E k \in Keys : SendStop(r, k)
    BY <2>1, <2>3, SupervisorAssumption DEF SendStop, Send, SupervisorAssumption
  <2>4. CASE \E k \in Keys : SendExactStop(r, k)
    BY <1>2, <2>1, <2>4 DEF SendExactStop
  <2>5. CASE \E b \in Backends : SendDelete(r, b) \/ SendUpgrade(r, b)
    BY <2>1, <2>5, SupervisorAssumption
       DEF SendDelete, SendUpgrade, Send, SupervisorAssumption
  <2>6. CASE AnswerUnused(r) \/ RowLoaded(r) \/ RowsDropped(r) \/ RowCleaned(r)
    BY <2>1, <2>6 DEF AnswerUnused, RowLoaded, RowsDropped, RowCleaned, Done, Idle
  <2> QED
    BY <1>7, <2>2, <2>3, <2>4, <2>5, <2>6 DEF ControllerStep
<1>8. CASE LockBackend(r)
  BY <1>8 DEF LockBackend, Goto
<1>9. CASE FindOrInstall(r)
  BY <1>9 DEF FindOrInstall, Answer
<1>10. CASE Reply(r)
  BY <1>10 DEF Reply, Goto
<1> QED
  BY <1>3, <1>4, <1>5, <1>6, <1>7, <1>8, <1>9, <1>10 DEF HandlerStep, StopStep

\* A step keeps who has which lock.
LEMMA StepLocked == Typed /\ Locked /\ [Next]_vars => Locked'
<1> SUFFICES ASSUME Typed, Locked, [Next]_vars PROVE Locked'
  OBVIOUS
<1>1. CASE UNCHANGED vars
  BY <1>1 DEF vars, Locked
<1>2. CASE Environment
  BY <1>2 DEF Environment, AffinityLapses, RowUnloading, RowRemoved, QuarantineEnds,
     ProcessDies, Locked
<1>3. ASSUME NEW r \in Requests, HandlerStep(r) \/ SpawnProcess(r) PROVE Locked'
  <2>0. /\ req \in [Requests -> Handler] /\ lock \in [Backends -> Requests \cup {None}]
        /\ ShapeOf(r, req[r]) /\ None \notin Requests
    BY SupervisorAssumption DEF Typed, TypeOK, SupervisorAssumption
  <2>1. PICK h : req' = [req EXCEPT ![r] = h]
    BY <1>3, HandlerMoves, SpawnMoves DEF Moves
  <2>2. \A q \in Requests \ {r} : req'[q] = req[q]
    BY <2>0, <2>1
  <2>3. /\ lock' = lock \/ LockBackend(r) \/ Reply(r)
        /\ r \in Installs \cup Upgrades =>
             \/ req'[r].pc \in Outside \ {"lock"}
             \/ req'[r].pc = "lock" /\ req'[r].backend \in Backends
             \/ /\ req'[r].backend = req[r].backend
                /\ req[r].pc \notin Outside \/ LockBackend(r)
    BY <1>3, LockKinds
  <2> SUFFICES ASSUME NEW q \in Installs \cup Upgrades
               PROVE  /\ req'[q].pc = "lock" => req'[q].backend \in Backends
                      /\ req'[q].pc \notin Outside =>
                             req'[q].backend \in Backends /\ lock'[req'[q].backend] = q
    BY DEF Locked
  <2>4. q \in Requests
    BY DEF Requests
  <2>8. CASE req'[q].pc \in Outside \ {"lock"}
    BY <2>8 DEF Outside
  <2>9. CASE q = r /\ req'[r].pc = "lock" /\ req'[r].backend \in Backends
    BY <2>9 DEF Outside
  <2> SUFFICES ASSUME req'[q].pc \notin Outside \ {"lock"},
                      q = r => /\ req'[r].backend = req[r].backend
                               /\ req[r].pc \notin Outside \/ LockBackend(r)
               PROVE  /\ req'[q].backend \in Backends
                      /\ req'[q].pc # "lock" => lock'[req'[q].backend] = q
    BY <2>3, <2>8, <2>9 DEF Outside
  <2>5. CASE lock' = lock /\ ~LockBackend(r)
    BY <2>2, <2>3, <2>4, <2>5 DEF Locked, Outside
  <2>6. CASE LockBackend(r)
    <3>1. req[r].pc = "lock" /\ lock[req[r].backend] = None
          /\ lock' = [lock EXCEPT ![req[r].backend] = r]
      BY <2>6 DEF LockBackend
    <3>2. CASE q = r
      <4>1. req[r].backend \in Backends
        BY <3>1, <3>2 DEF Locked
      <4> QED
        BY <2>0, <2>3, <3>1, <3>2, <4>1
    <3>3. CASE q # r
      <4>0. req'[q] = req[q]
        BY <2>2, <2>4, <3>3
      <4> SUFFICES ASSUME req[q].pc # "lock"
                   PROVE  req[q].backend \in Backends /\ lock'[req[q].backend] = q
        BY <4>0 DEF Locked
      <4>1. req'[q] = req[q] /\ req[q].backend \in Backends /\ lock[req[q].backend] = q
        BY <4>0 DEF Locked, Outside
      <4>2. req[q].backend # req[r].backend
        BY <2>0, <2>4, <3>1, <4>1
      <4> QED
        BY <2>0, <3>1, <4>1, <4>2
    <3> QED
      BY <3>2, <3>3
  <2>7. CASE Reply(r)
    <3>1. lock' = [b \in Backends |-> IF lock[b] = r THEN None ELSE lock[b]]
          /\ req'[r].pc = "sent"
      BY <2>0, <2>7 DEF Reply, Goto, Handler
    <3>2. q # r
      BY <3>1 DEF Outside
    <3> QED
      BY <2>2, <2>4, <3>1, <3>2 DEF Locked, Outside
  <2> QED
    BY <2>3, <2>5, <2>6, <2>7
<1> QED
  BY <1>1, <1>2, <1>3, NextKinds

-----------------------------------------------------------------------------
\* The entry of k stays, and is not cleared of a stop unless the stop failed.
Stays(k) ==
    /\ entry'[k].id = entry[k].id
    /\ entry'[k].dir = entry[k].dir
    /\ entry'[k].backend = entry[k].backend
    /\ entry[k].survived => entry'[k].survived
    /\ entry[k].stopping => entry'[k].stopping \/ entry'[k].survived

\* No handler but a start replaces an entry,
LEMMA EntryKinds ==
    ASSUME Typed, NEW r \in Requests, HandlerStep(r), NEW k \in Keys
    PROVE  Stays(k) \/ entry'[k].id = 0
<1> DEFINE Entry == [id : 0..MaxProc, port : 0..MaxPort, backend : Backends \cup {None},
                     dir : 0..MaxDir, serving : BOOLEAN, stopping : BOOLEAN,
                     survived : BOOLEAN]
<1>1. req[r] \in Handler /\ ShapeOf(r, req[r]) /\ entry \in [Keys -> Entry]
  BY DEF Typed, TypeOK
<1>2. CASE entry' = entry
  BY <1>2 DEF Stays
<1>3. ASSUME NEW j \in Keys, entry' = [entry EXCEPT ![j] = NoEntry]
      PROVE  Stays(k) \/ entry'[k].id = 0
  BY <1>1, <1>3 DEF Stays, NoEntry
<1>4. ASSUME NEW j \in Keys, entry' = [entry EXCEPT ![j].stopping = TRUE] PROVE Stays(k)
  BY <1>1, <1>4 DEF Stays
<1>5. ASSUME NEW j \in Keys, entry' = [entry EXCEPT ![j].serving = TRUE] PROVE Stays(k)
  BY <1>1, <1>5 DEF Stays
<1>6. ASSUME NEW j \in Keys,
             entry' = [entry EXCEPT ![j].stopping = FALSE, ![j].survived = TRUE]
      PROVE  Stays(k)
  <2>1. CASE k = j
    BY <1>1, <1>6, <2>1 DEF Stays
  <2>2. CASE k # j
    BY <1>1, <1>6, <2>2 DEF Stays
  <2> QED
    BY <2>1, <2>2
<1> HIDE DEF Entry
<1>7. req[r].pc \in Starting => req[r].key \in Keys
  BY <1>1, SupervisorAssumption DEF ShapeOf, Ends, Starting, SupervisorAssumption
<1>8. req[r].pc \in Stopping => req[r].target \in Keys
  BY <1>1 DEF ShapeOf
<1>SpawnFails. CASE SpawnFails(r)
  BY <1>SpawnFails, <1>3, <1>7 DEF SpawnFails, MaySpawn, Starting
<1>NoFreePort. CASE NoFreePort(r)
  BY <1>NoFreePort, <1>2, <1>3, <1>7 DEF NoFreePort, MaySpawn, DropEntry, Starting
<1>BecomesReady. CASE BecomesReady(r)
  BY <1>BecomesReady, <1>2, <1>5, <1>7 DEF BecomesReady, Starting
<1>ReleaseBackendStart. CASE ReleaseBackendStart(r)
  BY <1>ReleaseBackendStart, <1>2, <1>3, <1>7 DEF ReleaseBackendStart, DropEntry, Starting
<1>BeginBackendStop. CASE BeginBackendStop(r)
  BY <1>BeginBackendStop, <1>2, <1>4, <1>8 DEF BeginBackendStop, Stopping
<1>FinishBackendStop. CASE FinishBackendStop(r)
  BY <1>FinishBackendStop, <1>2, <1>3, <1>6, <1>8 DEF FinishBackendStop, DropEntry, Stopping
<1>StopModelExact. CASE StopModelExact(r)
  <2>1. req[r].key \in Keys
    BY <1>StopModelExact, <1>1, SupervisorAssumption
       DEF StopModelExact, ShapeOf, Ends, SupervisorAssumption
  <2> QED
    BY <2>1, <1>StopModelExact, <1>2, <1>4 DEF StopModelExact
<1>9. CASE \/ ReadAddr(r) \/ JudgeProcess(r) \/ CheckDirectory(r) \/ AlreadyThere(r)
           \/ DiesDuringStart(r) \/ ReadinessTimeout(r) \/ StopProcess(r) \/ StopNext(r)
           \/ ListKeys(r) \/ RemoveFiles(r) \/ LockBackend(r) \/ FindOrInstall(r) \/ Reply(r)
  BY <1>2, <1>9 DEF ReadAddr, JudgeProcess, CheckDirectory, AlreadyThere, DiesDuringStart,
       ReadinessTimeout, StopProcess, StopNext, ListKeys, RemoveFiles, LockBackend,
       FindOrInstall, Reply, procVars
<1>10. CASE ControllerStep(r)
  BY <1>2, <1>10 DEF ControllerStep, SendInstall, SendStop, SendExactStop, SendDelete,
       SendUpgrade, Send, AnswerUnused, RowLoaded, RowsDropped, RowCleaned, procVars
<1> QED
  BY <1>SpawnFails, <1>NoFreePort, <1>BecomesReady, <1>ReleaseBackendStart,
     <1>BeginBackendStop, <1>FinishBackendStop, <1>StopModelExact, <1>9, <1>10
     DEF HandlerStep, StopStep

\* and none but an installation another directory than none.
LEMMA DiskKinds ==
    ASSUME Typed, NEW r \in Requests, HandlerStep(r), NEW b \in Backends
    PROVE  disk'[b] = disk[b] \/ disk'[b] = 0 \/ (FindOrInstall(r) /\ req[r].backend = b)
<1>0. disk \in [Backends -> 0..MaxDir]
  BY DEF Typed, TypeOK
<1>1. CASE disk' = disk
  BY <1>1
<1>2. CASE RemoveFiles(r)
  BY <1>0, <1>2 DEF RemoveFiles
<1>3. CASE FindOrInstall(r)
  BY <1>0, <1>3 DEF FindOrInstall, diskVars
<1>4. CASE \/ ReadAddr(r) \/ JudgeProcess(r) \/ CheckDirectory(r) \/ AlreadyThere(r)
           \/ SpawnFails(r) \/ NoFreePort(r) \/ BecomesReady(r) \/ DiesDuringStart(r)
           \/ ReadinessTimeout(r) \/ ReleaseBackendStart(r) \/ LockBackend(r) \/ Reply(r)
  BY <1>1, <1>4 DEF ReadAddr, JudgeProcess, CheckDirectory, AlreadyThere, SpawnFails,
       NoFreePort, BecomesReady, DiesDuringStart, ReadinessTimeout, ReleaseBackendStart,
       LockBackend, Reply, diskVars
<1>5. CASE \/ BeginBackendStop(r) \/ StopProcess(r) \/ FinishBackendStop(r) \/ StopNext(r)
           \/ ListKeys(r) \/ StopModelExact(r)
  BY <1>1, <1>5 DEF BeginBackendStop, StopProcess, FinishBackendStop, StopNext, ListKeys,
       StopModelExact, diskVars
<1>6. CASE ControllerStep(r)
  BY <1>1, <1>6 DEF ControllerStep, SendInstall, SendStop, SendExactStop, SendDelete,
       SendUpgrade, Send, AnswerUnused, RowLoaded, RowsDropped, RowCleaned, diskVars
<1> QED
  BY <1>2, <1>3, <1>4, <1>5, <1>6 DEF HandlerStep, StopStep

\* What is known of a directory stays true unless its backend's lock is held by
\* the handler that moves, and of the processes of a backend unless it starts one.
LEMMA Stable ==
    ASSUME Typed, Locked, NEW r \in Requests, HandlerStep(r) \/ SpawnProcess(r),
           NEW k \in Keys, NEW b \in Backends,
           lock[b] = r => ~FindOrInstall(r) /\ ~SpawnProcess(r)
    PROVE  /\ Sound(k, b) => Sound(k, b)'
           /\ Spared(k, b) => Spared(k, b)'
           /\ entry'[k].id = entry[k].id \/ Spared(k, b)'
<1>1. ShapeOf(r, req[r]) /\ req[r] \in Handler
  BY DEF Typed, TypeOK
<1>2. CASE HandlerStep(r)
  <2>1. Stays(k) \/ entry'[k].id = 0
    BY <1>2, EntryKinds
  <2>2. ~(FindOrInstall(r) /\ req[r].backend = b)
    <3>1. FindOrInstall(r) => req[r].pc = "find" /\ r \in Installs \cup Upgrades
      BY <1>1 DEF FindOrInstall, ShapeOf
    <3> QED
      BY <3>1 DEF Locked, Outside
  <2>3. disk'[b] = disk[b] \/ disk'[b] = 0
    BY <1>2, <2>2, DiskKinds
  <2> QED
    BY <2>1, <2>3 DEF Stays, Sound, Spared, Tracked
<1>3. CASE SpawnProcess(r)
  <2>1. req[r].pc = "spawn" /\ disk' = disk
    BY <1>3 DEF SpawnProcess, MaySpawn, diskVars
  <2>2. req[r].key \in Keys /\ r \in Installs /\ req[r].backend # b
    <3>1. r \in Installs
      BY <1>1, <2>1 DEF ShapeOf, Starting
    <3>2. req[r].key \in Keys /\ lock[req[r].backend] = r
      BY <1>1, <2>1, <3>1, SupervisorAssumption
         DEF ShapeOf, Ends, Locked, Outside, SupervisorAssumption
    <3>3. lock[b] # r
      BY <1>3
    <3> QED
      BY <3>1, <3>2, <3>3
  <2>3. PICK i \in Proc, p \in Choices(req[r].key) :
          entry' = [entry EXCEPT ![req[r].key] =
                      [id |-> i, port |-> p, backend |-> req[r].backend,
                       dir |-> disk[req[r].backend], serving |-> FALSE,
                       stopping |-> FALSE, survived |-> FALSE]]
    BY <1>3 DEF SpawnProcess
  <2>4. entry \in [Keys -> [id : 0..MaxProc, port : 0..MaxPort, backend : Backends \cup {None},
                           dir : 0..MaxDir, serving : BOOLEAN, stopping : BOOLEAN,
                           survived : BOOLEAN]]
    BY DEF Typed, TypeOK
  <2>5. CASE k = req[r].key
    <3>1. entry'[k].backend = req[r].backend
      BY <2>3, <2>4, <2>5
    <3> QED
      BY <2>2, <3>1 DEF Sound, Spared
  <2>6. CASE k # req[r].key
    <3>1. entry'[k] = entry[k]
      BY <2>3, <2>4, <2>6
    <3> QED
      BY <2>1, <3>1 DEF Sound, Spared, Tracked
  <2> QED
    BY <2>5, <2>6
<1> QED
  BY <1>2, <1>3

\* A request that does not hold its lock knows nothing, and asks nothing of anybody.
LEMMA OutsideKnows ==
    ASSUME Typed, NEW r \in Installs, HandlerStep(r), Knows(req[r]),
           req[r].pc \in Outside \/ ControllerStep(r)
    PROVE  Knows(req[r])'
<1>0. r \in Requests /\ r \notin Stops \cup ExactStops \cup Deletes \cup Upgrades
  BY SupervisorAssumption DEF Requests, SupervisorAssumption
<1>1. req \in [Requests -> Handler] /\ req[r] \in Handler /\ ShapeOf(r, req[r])
  BY <1>0 DEF Typed, TypeOK
<1>2. ASSUME req'[r].pc \in {"addr", "list", "done", "lock"}, req'[r].back # "reply"
      PROVE  Knows(req[r])'
  BY <1>2 DEF Knows, Stopping
<1>3. req[r].back # "reply"
  BY DEF Knows
<1>4. CASE ControllerStep(r)
  <2>1. CASE \E j \in Keys, c \in Backends : SendInstall(r, j, c)
    BY <1>0, <1>1, <1>2, <1>3, <2>1 DEF SendInstall, Send
  <2>2. CASE AnswerUnused(r) \/ RowLoaded(r)
    BY <1>0, <1>1, <1>2, <2>2 DEF AnswerUnused, RowLoaded, Done, Idle
  <2> QED
    BY <1>0, <1>4, <2>1, <2>2 DEF ControllerStep, SendStop, SendExactStop, SendDelete,
         SendUpgrade, Send, RowsDropped, RowCleaned
<1>5. CASE LockBackend(r)
  BY <1>0, <1>1, <1>2, <1>3, <1>5 DEF LockBackend, Goto
<1>6. CASE req[r].pc \in Outside /\ ~ControllerStep(r)
  BY <1>0, <1>5, <1>6 DEF Outside, HandlerStep, StopStep, ReadAddr, JudgeProcess,
     CheckDirectory, AlreadyThere, SpawnFails, NoFreePort, MaySpawn, BecomesReady,
     DiesDuringStart, ReadinessTimeout, ReleaseBackendStart, BeginBackendStop, StopProcess,
     FinishBackendStop, StopNext, ListKeys, RemoveFiles, StopModelExact, FindOrInstall, Reply
<1> QED
  BY <1>4, <1>6

\* An install learns that the process under its key is sound before it answers.
LEMMA HandlerKnows ==
    ASSUME Typed, Locked, NEW r \in Installs, HandlerStep(r), Knows(req[r]),
           req[r].pc \notin Outside, ~ControllerStep(r)
    PROVE  Knows(req[r])'
<1>0. r \in Requests /\ r \notin Stops \cup ExactStops \cup Deletes \cup Upgrades
  BY SupervisorAssumption DEF Requests, SupervisorAssumption
<1>1. req \in [Requests -> Handler] /\ req[r] \in Handler /\ ShapeOf(r, req[r])
  BY <1>0 DEF Typed, TypeOK
<1>2. req[r].key \in Keys /\ req[r].backend \in Backends
  BY <1>0, <1>1 DEF Locked, Outside, ShapeOf, Ends
<1>k. PICK k \in Keys : k = req[r].key
  BY <1>2
<1>b. PICK b \in Backends : b = req[r].backend
  BY <1>2
<1> DEFINE g == req'[r]
<1>3. ~FindOrInstall(r) /\ ~SpawnProcess(r) =>
        /\ Sound(k, b) => Sound(k, b)'
        /\ Spared(k, b) => Spared(k, b)'
        /\ entry'[k].id = entry[k].id \/ Spared(k, b)'
  BY <1>0, Stable
<1>4. ASSUME g.pc \in {"judge", "find", "check", "next", "release", "sent"}, g.back # "reply"
      PROVE  Knows(req[r])'
  BY <1>4 DEF Knows, Stopping
<1>5. ASSUME g.pc = "reply", g.port = 0, g.back # "reply" PROVE Knows(req[r])'
  BY <1>5 DEF Knows, Stopping
<1>6. ASSUME g.pc = "reply", g.back # "reply", g.key = k, g.backend = b, Sound(k, b)'
      PROVE  Knows(req[r])'
  BY <1>6 DEF Knows, Stopping, Sound, Tracked
<1>7. ASSUME g.pc = "spawn", g.back # "reply", g.key = k, g.backend = b, Spared(k, b)'
      PROVE  Knows(req[r])'
  BY <1>7 DEF Knows, Stopping, Spared, Sound, Tracked
<1>8. ASSUME g.pc \in Stopping, g.back # "reply", g.key = k, g.backend = b,
             g.back = "spawn" =>
               /\ g.target = k
               /\ g.pc \in {"kill", "finish"} => entry'[k].id = g.id \/ Spared(k, b)'
      PROVE  Knows(req[r])'
  BY <1>8 DEF Knows, Stopping, Spared, Sound, Tracked
<1>9. req[r].back # "reply" /\ req[r].pc # "files"
  BY DEF Knows
<1>10. ASSUME NEW p \in 0..MaxPort, Answer(r, p)
       PROVE  g.pc = "reply" /\ g.port = p /\ g.back # "reply" /\ g.key = k /\ g.backend = b
  BY <1>0, <1>1, <1>9, <1>10, <1>k, <1>b DEF Answer, Handler
<1>11. ASSUME NEW s, Goto(r, s)
       PROVE  /\ g.pc = s /\ g.port = req[r].port /\ g.back = req[r].back /\ g.key = k
              /\ g.backend = b /\ g.target = req[r].target /\ g.id = req[r].id
  BY <1>0, <1>1, <1>11, <1>k, <1>b DEF Goto, Handler
<1>12. 0 \in 0..MaxPort
  BY SupervisorAssumption DEF SupervisorAssumption
<1>13. ASSUME NEW back, NEW lenient, StopFirst(r, k, back, lenient)
       PROVE  g.pc = "begin" /\ g.back = back /\ g.key = k /\ g.backend = b /\ g.target = k
  BY <1>0, <1>1, <1>13, <1>k, <1>b DEF StopFirst, Handler
<1> HIDE DEF g
<1>ReadAddr. CASE ReadAddr(r)
  <2> DEFINE s == IF Tracked(k) THEN "judge" ELSE "find"
             p == IF Tracked(k) THEN PortOf(k) ELSE 0
  <2>1. req' = [req EXCEPT ![r].pc = s, ![r].port = p] /\ s \in {"judge", "find"}
    BY <1>ReadAddr, <1>k DEF ReadAddr
  <2> HIDE DEF s, p
  <2>2. g.pc = s /\ g.back = req[r].back
    BY <1>0, <1>1, <2>1 DEF Handler, g
  <2> QED
    BY <1>4, <1>9, <2>1, <2>2
<1>JudgeProcess. CASE JudgeProcess(r)
  <2>1. CASE MatchesBackend(k, b) /\ Answer(r, req[r].port)
    <3>1. Sound(k, b)
      BY <2>1 DEF MatchesBackend, DirIntact, Sound
    <3>2. Sound(k, b)'
      BY <1>JudgeProcess, <3>1 DEF JudgeProcess, procVars, diskVars, Sound, Tracked
    <3>3. req[r].port \in 0..MaxPort
      BY <1>1 DEF Handler
    <3> QED
      BY <1>6, <1>10, <2>1, <3>2, <3>3
  <2>2. CASE StopFirst(r, k, "find", MatchesBackend(k, b))
    BY <1>8, <1>13, <2>2 DEF Stopping
  <2> QED
    BY <1>k, <1>b, <2>1, <2>2, <1>JudgeProcess DEF JudgeProcess
<1>CheckDirectory. CASE CheckDirectory(r)
  <2>1. CASE StopFirst(r, k, "spawn", FALSE)
    <3>1. g.pc = "begin" /\ g.back = "spawn" /\ g.key = k /\ g.backend = b /\ g.target = k
      BY <1>13, <2>1
    <3> QED
      BY <1>8, <3>1 DEF Stopping
  <2>2. CASE ~(Tracked(k) /\ ~DirIntact(k)) /\ Goto(r, "spawn")
    <3>1. Spared(k, b)
      BY <2>2 DEF DirIntact, Sound, Spared
    <3>2. Spared(k, b)'
      BY <1>CheckDirectory, <3>1
         DEF CheckDirectory, procVars, diskVars, Sound, Spared, Tracked
    <3> QED
      BY <1>7, <1>9, <1>11, <2>2, <3>2
  <2> QED
    BY <1>k, <2>1, <2>2, <1>CheckDirectory DEF CheckDirectory
<1>AlreadyThere. CASE AlreadyThere(r)
  <2>1. CASE Answer(r, 0)
    BY <1>5, <1>10, <1>12, <2>1
  <2>2. CASE ~entry[k].stopping /\ Answer(r, PortOf(k))
    <3>1. Sound(k, b)
      BY <1>AlreadyThere, <1>k, <1>b, <2>2 DEF AlreadyThere, Knows, Spared
    <3>2. Sound(k, b)'
      BY <1>AlreadyThere, <3>1 DEF AlreadyThere, procVars, diskVars, Sound, Tracked
    <3>3. PortOf(k) \in 0..MaxPort
      BY DEF Typed, TypeOK, PortOf
    <3> QED
      BY <1>6, <1>10, <2>2, <3>2, <3>3
  <2> QED
    BY <1>k, <2>1, <2>2, <1>AlreadyThere DEF AlreadyThere
<1>Fails. CASE SpawnFails(r) \/ NoFreePort(r) \/ ReleaseBackendStart(r)
  <2>1. Answer(r, 0)
    BY <1>Fails DEF SpawnFails, NoFreePort, ReleaseBackendStart
  <2> QED
    BY <1>5, <1>10, <1>12, <2>1
<1>BecomesReady. CASE BecomesReady(r)
  <2>1. CASE Answer(r, 0)
    BY <1>5, <1>10, <1>12, <2>1
  <2>2. CASE ~entry[k].stopping /\ Answer(r, req[r].port)
    <3>1. Sound(k, b)
      BY <1>BecomesReady, <1>k, <1>b, <2>2 DEF BecomesReady, Knows, Spared
    <3>2. ~FindOrInstall(r) /\ ~SpawnProcess(r)
      BY <1>BecomesReady DEF BecomesReady, FindOrInstall, SpawnProcess, MaySpawn
    <3>3. req[r].port \in 0..MaxPort
      BY <1>1 DEF Handler
    <3> QED
      BY <1>3, <1>6, <1>10, <2>2, <3>1, <3>2, <3>3
  <2> QED
    BY <1>k, <2>1, <2>2, <1>BecomesReady DEF BecomesReady
<1>GivesUp. CASE DiesDuringStart(r) \/ ReadinessTimeout(r)
  <2>1. Goto(r, "release")
    BY <1>GivesUp DEF DiesDuringStart, ReadinessTimeout
  <2> QED
    BY <1>4, <1>9, <1>11, <2>1
<1>14. ASSUME req[r].pc \in Stopping, NEW ok \in BOOLEAN, Returned(r, ok),
              req[r].back = "spawn" => Spared(k, b)'
       PROVE  Knows(req[r])'
  <2>0. req[r].back \in {"find", "spawn", "next"}
    BY <1>1, <1>9, <1>14 DEF Handler, ShapeOf
  <2>1. CASE ok \/ req[r].lenient
    <3>1. PICK stopped :
            req' = [req EXCEPT ![r] = [req[r] EXCEPT !.pc = req[r].back, !.id = 0,
                                         !.target = None, !.stopped = stopped]]
      BY <1>14, <2>1 DEF Returned
    <3>2. g.pc = req[r].back /\ g.back = req[r].back /\ g.key = k /\ g.backend = b
      BY <1>0, <1>1, <1>k, <1>b, <3>1 DEF Handler, g
    <3> QED
      BY <1>4, <1>7, <1>9, <1>14, <2>0, <3>2
  <2>2. CASE ~(ok \/ req[r].lenient)
    <3>1. req' = [req EXCEPT ![r] = [req[r] EXCEPT !.pc = "reply", !.id = 0,
                                       !.target = None, !.port = 0]]
      BY <1>14, <2>2 DEF Returned
    <3>2. g.pc = "reply" /\ g.port = 0 /\ g.back = req[r].back
      BY <1>0, <1>1, <3>1 DEF Handler, g
    <3> QED
      BY <1>5, <1>9, <3>2
  <2> QED
    BY <2>1, <2>2
<1>15. req[r].pc \in Stopping /\ req[r].back = "spawn" => req[r].target = k
  BY <1>k DEF Knows
<1>BeginBackendStop. CASE BeginBackendStop(r)
  <2>0. req[r].pc \in Stopping /\ ~FindOrInstall(r) /\ ~SpawnProcess(r)
    BY <1>BeginBackendStop DEF BeginBackendStop, Stopping, FindOrInstall, SpawnProcess, MaySpawn
  <2>1. CASE Tracked(req[r].target) /\ ~entry[req[r].target].stopping
    <3> DEFINE i == entry[req[r].target].id
    <3>1. req' = [req EXCEPT ![r].pc = "kill", ![r].id = i]
      BY <1>BeginBackendStop, <2>1 DEF BeginBackendStop
    <3>2. req[r].back = "spawn" => i = entry[k].id
      BY <1>15, <2>0
    <3> HIDE DEF i
    <3>3. /\ g.pc = "kill" /\ g.id = i /\ g.back = req[r].back /\ g.key = k /\ g.backend = b
          /\ g.target = req[r].target
      BY <1>0, <1>1, <1>k, <1>b, <3>1 DEF Handler, g
    <3> QED
      BY <1>3, <1>8, <1>9, <1>15, <2>0, <3>2, <3>3 DEF Stopping
  <2>2. CASE ~(Tracked(req[r].target) /\ ~entry[req[r].target].stopping)
    <3>1. Returned(r, TRUE)
      BY <1>BeginBackendStop, <2>2 DEF BeginBackendStop
    <3>2. req[r].back = "spawn" => Spared(k, b)
      BY <1>15, <2>0, <2>2 DEF Spared, Sound
    <3> QED
      BY <1>3, <1>14, <2>0, <3>1, <3>2
  <2> QED
    BY <2>1, <2>2
<1>16. req[r].pc \in {"kill", "finish"} /\ req[r].back = "spawn" =>
         entry[k].id = req[r].id \/ Spared(k, b)
  BY <1>k, <1>b DEF Knows
<1>StopProcess. CASE StopProcess(r)
  <2>1. req[r].pc = "kill" /\ Goto(r, "finish") /\ ~FindOrInstall(r) /\ ~SpawnProcess(r)
    BY <1>StopProcess DEF StopProcess, FindOrInstall, SpawnProcess, MaySpawn
  <2> QED
    BY <1>3, <1>8, <1>9, <1>11, <1>15, <1>16, <2>1 DEF Stopping
<1>FinishBackendStop. CASE FinishBackendStop(r)
  <2>1. req[r].pc = "finish" /\ req[r].pc \in Stopping /\ ~FindOrInstall(r) /\ ~SpawnProcess(r)
    BY <1>FinishBackendStop
       DEF FinishBackendStop, FindOrInstall, SpawnProcess, MaySpawn, Stopping
  <2>2. PICK ok \in BOOLEAN : Returned(r, ok)
    BY <1>FinishBackendStop DEF FinishBackendStop
  <2>3. ASSUME req[r].back = "spawn" PROVE Spared(k, b)'
    <3>1. req[r].target = k
      BY <1>15, <2>1, <2>3
    <3>2. CASE entry[k].id # req[r].id
      BY <1>3, <1>16, <2>1, <2>3, <3>2
    <3>3. CASE /\ entry' = [entry EXCEPT ![k].stopping = FALSE, ![k].survived = TRUE]
      <4>1. entry'[k].survived
        BY <3>3 DEF Typed, TypeOK
      <4> QED
        BY <4>1 DEF Spared, Sound
    <3>4. CASE entry' = [entry EXCEPT ![k] = NoEntry]
      <4>1. entry'[k].id = 0
        BY <3>4 DEF Typed, TypeOK, NoEntry
      <4> QED
        BY <4>1 DEF Spared, Sound, Tracked
    <3> QED
      BY <1>FinishBackendStop, <3>1, <3>2, <3>3, <3>4 DEF FinishBackendStop, DropEntry
  <2> QED
    BY <1>14, <2>1, <2>2, <2>3
<1>StopNext. CASE StopNext(r)
  <2>1. CASE Goto(r, "find")
    BY <1>4, <1>9, <1>11, <2>1
  <2>2. CASE \E j \in req[r].todo :
               req' = [req EXCEPT ![r].pc = "begin", ![r].target = j,
                          ![r].todo = req[r].todo \ {j}, ![r].back = "next",
                          ![r].lenient = r \in Stops,
                          ![r].report = r \in Deletes \/ (r \in Upgrades /\ Tracked(j))]
    <3>1. PICK j \in req[r].todo :
               req' = [req EXCEPT ![r].pc = "begin", ![r].target = j,
                          ![r].todo = req[r].todo \ {j}, ![r].back = "next",
                          ![r].lenient = r \in Stops,
                          ![r].report = r \in Deletes \/ (r \in Upgrades /\ Tracked(j))]
      BY <2>2
    <3> DEFINE todo == req[r].todo \ {j}
               lenient == r \in Stops
               report == r \in Deletes \/ (r \in Upgrades /\ Tracked(j))
    <3>2. req' = [req EXCEPT ![r].pc = "begin", ![r].target = j, ![r].todo = todo,
                             ![r].back = "next", ![r].lenient = lenient, ![r].report = report]
      BY <3>1
    <3> HIDE DEF todo, lenient, report
    <3>3. g.pc = "begin" /\ g.back = "next" /\ g.key = k /\ g.backend = b
      BY <1>0, <1>1, <1>k, <1>b, <3>2 DEF Handler, g
    <3> QED
      BY <1>8, <3>3 DEF Stopping
  <2> QED
    BY <1>0, <1>StopNext, <2>1, <2>2 DEF StopNext
<1>ListKeys. CASE ListKeys(r)
  <2>1. PICK todo : req' = [req EXCEPT ![r].pc = "next", ![r].todo = todo]
    BY <1>ListKeys DEF ListKeys
  <2>2. g.pc = "next" /\ g.back = req[r].back
    BY <1>0, <1>1, <2>1 DEF Handler, g
  <2> QED
    BY <1>4, <1>9, <2>2
<1>FindOrInstall. CASE FindOrInstall(r)
  <2>1. CASE req' = [req EXCEPT ![r].pc = "check", ![r].port = 0]
    <3>1. g.pc = "check" /\ g.back = req[r].back
      BY <1>0, <1>1, <2>1 DEF Handler, g
    <3> QED
      BY <1>4, <1>9, <3>1
  <2>2. CASE Answer(r, 0)
    BY <1>5, <1>10, <1>12, <2>2
  <2> QED
    BY <1>0, <1>FindOrInstall, <2>1, <2>2 DEF FindOrInstall
<1>Reply. CASE Reply(r)
  BY <1>Reply, <1>4, <1>9, <1>11 DEF Reply
<1> QED
  BY <1>0, <1>9, <1>ReadAddr, <1>JudgeProcess, <1>CheckDirectory, <1>AlreadyThere, <1>Fails,
     <1>BecomesReady, <1>GivesUp, <1>BeginBackendStop, <1>StopProcess, <1>FinishBackendStop,
     <1>StopNext, <1>ListKeys, <1>FindOrInstall, <1>Reply
     DEF HandlerStep, StopStep, RemoveFiles, StopModelExact, LockBackend, Outside

\* A start takes the directory that is installed.
LEMMA SpawnKnows ==
    ASSUME Typed, Locked, NEW r \in Installs, SpawnProcess(r), Knows(req[r])
    PROVE  Knows(req[r])'
<1>0. r \in Requests
  BY DEF Requests
<1>1. req \in [Requests -> Handler] /\ req[r] \in Handler /\ ShapeOf(r, req[r])
      /\ req[r].pc = "spawn"
  BY <1>0 DEF Typed, TypeOK, SpawnProcess, MaySpawn
<1>2. req[r].key \in Keys /\ req[r].backend \in Backends
  BY <1>0, <1>1, SupervisorAssumption
     DEF Locked, Outside, ShapeOf, Ends, SupervisorAssumption
<1>3. PICK i \in Proc, p \in Choices(req[r].key) :
        /\ entry' = [entry EXCEPT ![req[r].key] =
                      [id |-> i, port |-> p, backend |-> req[r].backend,
                       dir |-> disk[req[r].backend], serving |-> FALSE,
                       stopping |-> FALSE, survived |-> FALSE]]
        /\ req' = [req EXCEPT ![r].pc = "ready", ![r].id = i, ![r].port = p]
  BY DEF SpawnProcess
<1>4. /\ req'[r].pc = "ready" /\ req'[r].back = req[r].back /\ req'[r].key = req[r].key
      /\ req'[r].backend = req[r].backend
  BY <1>0, <1>1, <1>3 DEF Handler
<1>5. entry'[req[r].key].dir = disk'[req[r].backend]
  BY <1>2, <1>3 DEF SpawnProcess, diskVars, Typed, TypeOK
<1> QED
  BY <1>4, <1>5 DEF Knows, Spared, Sound, Stopping

\* That installs judge rightly is inductive,
LEMMA StepJudged == Typed /\ Judged /\ [Next]_vars => Judged'
<1> SUFFICES ASSUME Typed, Judged, [Next]_vars PROVE Judged'
  OBVIOUS
<1>1. Locked /\ Locked'
  BY StepLocked DEF Judged
<1>2. CASE UNCHANGED <<req, entry, disk>>
  BY <1>1, <1>2 DEF Judged, Knows, Spared, Sound, Tracked
<1>3. CASE Environment \/ UNCHANGED vars
  BY <1>2, <1>3 DEF Environment, AffinityLapses, RowUnloading, RowRemoved, QuarantineEnds,
     ProcessDies, vars, procVars, diskVars
<1>4. ASSUME NEW r \in Requests, HandlerStep(r) \/ SpawnProcess(r), NEW q \in Installs
      PROVE  Knows(req[q])'
  <2>0. q \in Requests /\ req \in [Requests -> Handler] /\ ShapeOf(q, req[q]) /\ Knows(req[q])
    BY DEF Typed, TypeOK, Judged, Requests
  <2>1. CASE q = r
    <3>1. CASE req[q].pc \in Outside /\ SpawnProcess(r)
      BY <2>1, <3>1 DEF Outside, SpawnProcess, MaySpawn
    <3> QED
      BY <1>1, <1>4, <2>0, <2>1, <3>1, OutsideKnows, HandlerKnows, SpawnKnows
  <2>2. CASE q # r
    <3>1. PICK h : req' = [req EXCEPT ![r] = h]
      BY <1>4, HandlerMoves, SpawnMoves DEF Moves
    <3>2. req'[q] = req[q]
      BY <2>0, <2>2, <3>1
    <3>3. CASE req[q].pc \in Outside
      BY <2>0, <3>2, <3>3 DEF Outside, Knows, Stopping
    <3>4. CASE req[q].pc \notin Outside
      <4>1. req[q].key \in Keys /\ req[q].backend \in Backends /\ lock[req[q].backend] = q
        BY <1>1, <2>0, <3>4, SupervisorAssumption
           DEF Locked, Outside, ShapeOf, Ends, SupervisorAssumption
      <4>2. PICK k \in Keys : k = req[q].key
        BY <4>1
      <4>3. PICK b \in Backends : b = req[q].backend
        BY <4>1
      <4>4. /\ Sound(k, b) => Sound(k, b)'
            /\ Spared(k, b) => Spared(k, b)'
            /\ entry'[k].id = entry[k].id \/ Spared(k, b)'
        BY <1>1, <1>4, <2>2, <4>1, <4>3, Stable
      <4> QED
        BY <2>0, <3>2, <4>2, <4>3, <4>4 DEF Knows, Sound, Spared, Tracked
    <3> QED
      BY <3>3, <3>4
  <2> QED
    BY <2>1, <2>2
<1>5. CASE \E r \in Requests : HandlerStep(r) \/ SpawnProcess(r)
  BY <1>1, <1>4, <1>5 DEF Judged
<1> QED
  BY <1>3, <1>5, NextKinds

\* and holds at first.
LEMMA InitJudged == Init => Judged
BY DEF Init, Judged, Locked, Outside, Knows, Stopping, Idle, Requests

\* An install never answers with a process whose directory was replaced, unless
\* the files are being deleted or a stop of it failed; with deadlines that a
\* process survives, too.
THEOREM AnswersStayIntact == Spec => []AnswersIntact
<1>1. Judged => AnswersIntact
  <2> SUFFICES ASSUME Judged, NEW r \in Installs, req[r].pc = "reply", req[r].port # 0,
                      Alive(req[r].key), entry[req[r].key].backend = req[r].backend
               PROVE  \/ entry[req[r].key].dir = disk[req[r].backend]
                      \/ disk[req[r].backend] = 0 \/ entry[req[r].key].survived
    BY DEF AnswersIntact
  <2> QED
    BY DEF Judged, Knows, Sound, Alive
<1> QED
  BY <1>1, InitTyped, StepTyped, InitJudged, StepJudged, PTL DEF Spec

=============================================================================
