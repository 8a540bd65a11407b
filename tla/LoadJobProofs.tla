---------------------------- MODULE LoadJobProofs ----------------------------
(***************************************************************************)
(* LoadJob for every number of replicas, requests and claims: its typing,  *)
(* and, as long as the database is reachable and no client leaves, that    *)
(* the job row is the record of the one load that runs.                    *)
(***************************************************************************)
EXTENDS LoadJob, TLAPS

-----------------------------------------------------------------------------
\* A booted cluster with no job is well typed.
LEMMA InitTyped == Init => TypeOK
<1> SUFFICES ASSUME Init PROVE TypeOK
  OBVIOUS
<1>1. (CHOOSE p \in Replicas : TRUE) \in Replicas
  BY LoadJobAssumption, Zenon DEF LoadJobAssumption
<1>2. owner \in [Claim -> Replicas]
  BY <1>1 DEF Init
<1>3. /\ claims \in 0..MaxClaims
      /\ evictions \in 0..MaxEvictions /\ crashes \in 0..MaxCrashes
      /\ cuts \in 0..MaxCuts /\ failures \in 0..MaxFailures
  BY LoadJobAssumption DEF LoadJobAssumption, Init
<1>4. /\ round \in [Requests -> 0..MaxRounds]
      /\ mine \in [Requests -> 0..MaxClaims]
  BY LoadJobAssumption DEF LoadJobAssumption, Init
<1> QED
  BY <1>2, <1>3, <1>4 DEF Init, TypeOK, RouteSteps, Answers, RunnerPhases

\* Every step of requests, runners and environment keeps the types.
LEMMA StepTyped == TypeOK /\ [Next]_vars => TypeOK'
<1> SUFFICES ASSUME TypeOK, [Next]_vars PROVE TypeOK'
  OBVIOUS
<1> USE LoadJobAssumption DEF LoadJobAssumption, Answers, RouteSteps, RunnerPhases
<1>1. ASSUME NEW r \in Requests, Route(r) \/ ClaimStep(r) PROVE TypeOK'
  <2>1. CASE Route(r)
    BY <2>1 DEF Route, TypeOK, jobVars, loadVars, waitVars, envVars, Goto
  <2>2. CASE LoadWaiterChan(r)
    BY <2>2 DEF LoadWaiterChan, TypeOK, jobVars, loadVars, envVars, Goto
  <2>3. CASE OutOfRounds(r)
    BY <2>3 DEF OutOfRounds, TypeOK, jobVars, loadVars, waitVars, envVars, Goto
  <2>4. CASE ClaimFindsJob(r)
    BY <2>4 DEF ClaimFindsJob, TypeOK, jobVars, loadVars, waitVars, envVars, Goto
  <2>5. CASE ClaimTakes(r)
    BY <2>5 DEF ClaimTakes, TypeOK, loadVars, waitVars, envVars, Goto
  <2>6. CASE ClaimCreates(r)
    <3>1. claims + 1 \in Claim
      BY <2>6 DEF ClaimCreates, TypeOK, Claim
    <3> QED
      BY <2>6, <3>1 DEF ClaimCreates, TypeOK, Job, Claim, waitVars, envVars, Goto
  <2>7. CASE ClaimFails(r)
    BY <2>7 DEF ClaimFails, TypeOK, loadVars, waitVars, envVars, Goto
  <2> QED
    BY <1>1, <2>1, <2>2, <2>3, <2>4, <2>5, <2>6, <2>7 DEF ClaimStep
<1>2. ASSUME NEW r \in Requests, ClaimedStep(r) PROVE TypeOK'
  <2>1. CASE ClaimedAlreadyLoaded(r)
    BY <2>1 DEF ClaimedAlreadyLoaded, TypeOK, jobVars, loadVars, waitVars, envVars, Goto
  <2>2. CASE CleanJob(r)
    BY <2>2 DEF CleanJob, TypeOK, loadVars, waitVars, envVars, Goto
  <2>3. CASE CleanWakes(r)
    BY <2>3 DEF CleanWakes, CloseLoadWaiters, TypeOK, jobVars, loadVars, envVars, Goto
  <2>4. CASE StartLoadJob(r)
    BY <2>4 DEF StartLoadJob, TypeOK, jobVars, waitVars, envVars, Goto, PhaseGoto
  <2> QED
    BY <1>2, <2>1, <2>2, <2>3, <2>4 DEF ClaimedStep
<1>3. ASSUME NEW r \in Requests, InlineStep(r) \/ WaitStep(r) PROVE TypeOK'
  <2>1. CASE InlineLoadSucceeds(r)
    BY <2>1 DEF InlineLoadSucceeds, TypeOK, jobVars, waitVars, envVars, Goto
  <2>2. CASE InlineLoadFails(r)
    BY <2>2 DEF InlineLoadFails, TypeOK, jobVars, loadVars, waitVars, envVars, Goto
  <2>3. CASE Woken(r) \/ PollFindsNoJob(r) \/ PollFindsFailure(r) \/ WaitEnds(r)
    BY <2>3 DEF Woken, PollFindsNoJob, PollFindsFailure, WaitEnds, TypeOK, jobVars,
       loadVars, waitVars, envVars, Goto
  <2>4. CASE WarmPathServes(r) \/ WarmPathMisses(r)
    BY <2>4 DEF WarmPathServes, WarmPathMisses, TypeOK, jobVars, loadVars, waitVars,
       envVars, Goto
  <2> QED
    BY <1>3, <2>1, <2>2, <2>3, <2>4 DEF InlineStep, WaitStep
<1>4. ASSUME NEW c \in Claim, Heartbeat(c) \/ RunnerStep(c) PROVE TypeOK'
  <2>1. CASE Heartbeat(c)
    BY <2>1 DEF Heartbeat, Written, TypeOK, Job, NoJob, loadVars, waitVars, requestVars, envVars
  <2>2. CASE LoadSucceeds(c)
    BY <2>2 DEF LoadSucceeds, TypeOK, jobVars, waitVars, requestVars, envVars, PhaseGoto
  <2>3. CASE LoadFails(c)
    BY <2>3 DEF LoadFails, TypeOK, jobVars, waitVars, requestVars, PhaseGoto
  <2>4. CASE FinishDeletes(c) \/ GraceDeletes(c)
    BY <2>4 DEF FinishDeletes, GraceDeletes, TypeOK, waitVars, requestVars, envVars,
       PhaseGoto
  <2>5. CASE FailRecords(c)
    BY <2>5 DEF FailRecords, Written, TypeOK, Job, NoJob, waitVars, requestVars, envVars, PhaseGoto
  <2>6. CASE RunnerWakes(c)
    BY <2>6 DEF RunnerWakes, CloseLoadWaiters, TypeOK, jobVars, requestVars, envVars,
       PhaseGoto
  <2> QED
    BY <1>4, <2>1, <2>2, <2>3, <2>4, <2>5, <2>6 DEF RunnerStep
<1>5. CASE OrphanWindow
  BY <1>5 DEF OrphanWindow, TypeOK, Job, NoJob, loadVars, waitVars, requestVars, envVars
<1>6. CASE Evict \/ Disconnect
  <2>1. CASE Evict
    <3>1. evictions' \in 0..MaxEvictions
      BY <2>1 DEF Evict, TypeOK
    <3>2. loaded' \in BOOLEAN
      BY <2>1 DEF Evict
    <3>3. UNCHANGED <<jobVars, phase, owner, waitVars, requestVars, gone, cut, wasCut,
                      crashes, cuts, failures>>
      BY <2>1 DEF Evict
    <3> QED
      BY <3>1, <3>2, <3>3 DEF TypeOK, jobVars, waitVars, requestVars
  <2>2. CASE Disconnect
    BY <2>2 DEF Disconnect, TypeOK, jobVars, loadVars, waitVars, requestVars
  <2> QED
    BY <1>6, <2>1, <2>2
<1>7. CASE Cut \/ Reconnect
  <2>1. CASE Cut
    BY <2>1 DEF Cut, TypeOK, jobVars, loadVars, waitVars, requestVars
  <2>2. CASE Reconnect
    BY <2>2 DEF Reconnect, TypeOK, jobVars, loadVars, waitVars, requestVars
  <2> QED
    BY <1>7, <2>1, <2>2
<1>8. CASE Crash
  <2>1. phase' \in [Claim -> RunnerPhases \cup {"none", "ended"}]
    BY <1>8 DEF Crash, TypeOK
  <2>2. pc' \in [Requests -> RouteSteps \cup Answers \cup {"start"}]
    BY <1>8 DEF Crash, TypeOK
  <2>3. claimer' \in Requests \cup {NoRequest} /\ crashes' \in 0..MaxCrashes
    BY <1>8 DEF Crash, TypeOK
  <2>4. UNCHANGED <<job, claims, owner, loaded, waitVars, round, mine, gone, cut,
                    wasCut, evictions, cuts, failures>>
    BY <1>8 DEF Crash
  <2> QED
    BY <2>1, <2>2, <2>3, <2>4, Zenon DEF TypeOK, waitVars
<1>9. CASE UNCHANGED vars
  BY <1>9 DEF vars, TypeOK, jobVars, loadVars, waitVars, requestVars, envVars
<1> QED
  BY <1>1, <1>2, <1>3, <1>4, <1>5, <1>6, <1>7, <1>8, <1>9 DEF Next, RequestStep

(***************************************************************************)
(* The state is well typed, whatever crashes, fails or is cut off.         *)
(***************************************************************************)
THEOREM JobTyping == Spec => []TypeOK
<1> QED
  BY InitTyped, StepTyped, PTL DEF Spec
-----------------------------------------------------------------------------
(***************************************************************************)
(* The inductive invariant of a job whose database stays reachable.        *)
(***************************************************************************)
Calm == cut = {} /\ gone = {}

RowOf(c, state) == [claim |-> c, state |-> state, orphaned |-> FALSE]

\* A load runs and ends under its own row.
RunnersRow ==
    \A c \in Claim :
        /\ phase[c] \in {"loading", "finishing", "failing"} => job = RowOf(c, "running")
        /\ phase[c] \in {"wakeFailed", "grace"} => job = RowOf(c, "failed")

Claimed == {r \in Requests : pc[r] \in {"claimed", "clean"}}

\* Between a claim and its load the row is there and no load runs.
ClaimedRow ==
    \A r \in Claimed :
        /\ mine[r] \in Claim
        /\ job = RowOf(mine[r], "running")
        /\ phase[mine[r]] = "none"

ClaimedAlone == \A r, s \in Claimed : r = s

\* The advisory lock keeps the row absent between decision and creation.
CreateLocked ==
    \A r \in Requests : pc[r] = "create" =>
        claimer = r /\ (job = NoJob \/ job.orphaned)

\* The next claim has not been used.
FreshClaims ==
    /\ \A c \in Claim : c > claims => phase[c] = "none"
    /\ \A r \in Requests : mine[r] <= claims

RowInv == RunnersRow /\ ClaimedRow /\ ClaimedAlone /\ CreateLocked /\ FreshClaims

JobInv == TypeOK /\ Calm /\ RowInv

\* A step that neither writes the row nor claims the model or starts its load.
LEMMA QuietStep ==
    ASSUME JobInv, TypeOK',
           UNCHANGED <<job, claims, phase, mine>>,
           \A r \in Requests :
               /\ pc'[r] \in {"claimed", "clean"} => pc[r] \in {"claimed", "clean"}
               /\ pc'[r] = "create" => pc[r] = "create" /\ claimer' = claimer
    PROVE  RowInv'
<1>1. RunnersRow' /\ FreshClaims'
  BY DEF JobInv, RowInv, RunnersRow, FreshClaims, RowOf
<1>2. ClaimedRow' /\ ClaimedAlone'
  BY DEF JobInv, RowInv, ClaimedRow, ClaimedAlone, Claimed, RowOf
<1>3. CreateLocked'
  BY DEF JobInv, RowInv, CreateLocked, NoJob
<1> QED
  BY <1>1, <1>2, <1>3 DEF RowInv

-----------------------------------------------------------------------------
(***************************************************************************)
(* With no lost database and no leaving client, the row of a load stays    *)
(* its own until it ends.                                                  *)
(***************************************************************************)
THEOREM JobInvariance ==
    ASSUME MaxCuts = 0, ~ClientsLeave
    PROVE  Spec => []JobInv
<1>1. Init => JobInv
  <2> SUFFICES ASSUME Init PROVE JobInv
    OBVIOUS
  <2>1. TypeOK
    BY InitTyped
  <2> QED
    BY <2>1 DEF Init, JobInv, RowInv, Calm, RunnersRow, ClaimedRow, ClaimedAlone, Claimed,
       CreateLocked, FreshClaims
<1>2. JobInv /\ [Next]_vars => JobInv'
  <2> SUFFICES ASSUME JobInv, [Next]_vars PROVE JobInv'
    OBVIOUS
  <2>0. TypeOK'
    BY StepTyped DEF JobInv
  <2>1. Calm'
    <3>1. \A r \in Requests : Route(r) \/ RequestStep(r) => UNCHANGED <<cut, gone>>
      BY DEF Route, RequestStep, ClaimStep, ClaimedStep, InlineStep, WaitStep,
         LoadWaiterChan, OutOfRounds, ClaimFindsJob, ClaimTakes, ClaimCreates, ClaimFails,
         ClaimedAlreadyLoaded, CleanJob, CleanWakes, StartLoadJob, InlineLoadSucceeds,
         InlineLoadFails, Woken, PollFindsNoJob, PollFindsFailure, WaitEnds,
         WarmPathServes, WarmPathMisses, envVars
    <3>2. \A c \in Claim : Heartbeat(c) \/ RunnerStep(c) => UNCHANGED <<cut, gone>>
      BY DEF Heartbeat, RunnerStep, LoadSucceeds, LoadFails, FinishDeletes, FailRecords,
         RunnerWakes, GraceDeletes, envVars
    <3>3. OrphanWindow \/ Evict \/ Disconnect \/ Crash => UNCHANGED <<cut, gone>>
      BY DEF OrphanWindow, Evict, Disconnect, Crash, envVars
    <3>4. ~Cut /\ ~Reconnect
      BY DEF JobInv, TypeOK, Calm, Cut, Reconnect
    <3> QED
      BY <3>1, <3>2, <3>3, <3>4 DEF JobInv, Calm, Next, vars, envVars
  <2>2. RowInv'
    <3> USE <2>0 DEF Goto, PhaseGoto, NoJob
    <3>1. ASSUME NEW r \in Requests,
                 \/ Route(r) \/ LoadWaiterChan(r) \/ OutOfRounds(r) \/ ClaimFindsJob(r)
                 \/ CleanWakes(r) \/ ClaimedAlreadyLoaded(r) \/ InlineStep(r)
          PROVE  RowInv'
      <4> UNCHANGED <<job, claims, phase, mine, claimer>>
        BY <3>1 DEF Route, LoadWaiterChan, OutOfRounds, ClaimFindsJob, CleanWakes,
           ClaimedAlreadyLoaded, InlineStep, InlineLoadSucceeds, InlineLoadFails,
           jobVars, loadVars
      <4> \A s \in Requests :
             /\ pc'[s] \in {"claimed", "clean"} => pc[s] \in {"claimed", "clean"}
             /\ pc'[s] = "create" => pc[s] = "create"
        BY <3>1 DEF Route, LoadWaiterChan, OutOfRounds, ClaimFindsJob, CleanWakes,
           ClaimedAlreadyLoaded, InlineStep, InlineLoadSucceeds, InlineLoadFails,
           JobInv, TypeOK
      <4> QED
        BY QuietStep
    <3>2. ASSUME NEW r \in Requests, WaitStep(r)
          PROVE  RowInv'
      <4> UNCHANGED <<job, claims, phase, mine, claimer>>
        BY <3>2 DEF WaitStep, Woken, PollFindsNoJob, PollFindsFailure, WaitEnds,
           WarmPathServes, WarmPathMisses, jobVars, loadVars
      <4> \A s \in Requests :
             /\ pc'[s] \in {"claimed", "clean"} => pc[s] \in {"claimed", "clean"}
             /\ pc'[s] = "create" => pc[s] = "create"
        BY <3>2 DEF WaitStep, Woken, PollFindsNoJob, PollFindsFailure, WaitEnds,
           WarmPathServes, WarmPathMisses, JobInv, TypeOK
      <4> QED
        BY QuietStep
    <3>3. ASSUME NEW r \in Requests, ClaimTakes(r)
          PROVE  RowInv'
      <4> USE <3>3 DEF ClaimTakes, JobInv, RowInv, TypeOK, loadVars
      <4>1. RunnersRow' /\ FreshClaims'
        BY DEF RunnersRow, FreshClaims, RowOf
      <4>2. ClaimedRow' /\ ClaimedAlone'
        BY DEF ClaimedRow, ClaimedAlone, Claimed, RowOf
      <4>3. CreateLocked'
        BY LoadJobAssumption DEF CreateLocked, LoadJobAssumption
      <4> QED
        BY <4>1, <4>2, <4>3
    <3>4. ASSUME NEW r \in Requests, ClaimCreates(r)
          PROVE  RowInv'
      <4> USE <3>4 DEF ClaimCreates, JobInv, RowInv, TypeOK
      <4>1. /\ claims + 1 \in Claim
            /\ job = NoJob \/ job.orphaned
            /\ claimer = r
        BY LoadJobAssumption DEF LoadJobAssumption, Claim, CreateLocked
      <4>2. /\ \A c \in Claim : phase[c] \notin
                   {"loading", "finishing", "failing", "wakeFailed", "grace"}
            /\ Claimed = {}
        BY <4>1 DEF RunnersRow, ClaimedRow, RowOf, Claimed, Claim
      <4>3. RunnersRow'
        BY <4>2 DEF RunnersRow
      <4>4. FreshClaims'
        BY <4>1 DEF FreshClaims, Claim
      <4>5. Claimed' = {r} /\ mine'[r] = claims + 1 /\ phase[claims + 1] = "none"
        BY <4>1, <4>2 DEF Claimed, FreshClaims, Claim
      <4>6. ClaimedRow' /\ ClaimedAlone'
        BY <4>1, <4>5 DEF ClaimedRow, ClaimedAlone, RowOf
      <4>7. CreateLocked'
        BY <4>1 DEF CreateLocked
      <4> QED
        BY <4>3, <4>4, <4>6, <4>7
    <3>5. ASSUME NEW r \in Requests, CleanJob(r)
          PROVE  RowInv'
      <4> USE <3>5 DEF CleanJob, JobInv, RowInv, TypeOK, loadVars
      <4>1. /\ \A c \in Claim : phase[c] \notin
                   {"loading", "finishing", "failing", "wakeFailed", "grace"}
            /\ Claimed = {r}
        BY DEF RunnersRow, ClaimedRow, ClaimedAlone, RowOf, Claimed, Claim
      <4>2. RunnersRow' /\ FreshClaims'
        BY <4>1 DEF RunnersRow, FreshClaims
      <4>3. ClaimedRow' /\ ClaimedAlone'
        BY <4>1 DEF ClaimedRow, ClaimedAlone, Claimed
      <4>4. CreateLocked'
        BY DEF CreateLocked
      <4> QED
        BY <4>2, <4>3, <4>4
    <3>6. ASSUME NEW r \in Requests, StartLoadJob(r)
          PROVE  RowInv'
      <4> USE <3>6 DEF StartLoadJob, JobInv, RowInv, TypeOK, jobVars
      <4>1. /\ Claimed = {r}
            /\ mine[r] \in Claim
            /\ job = RowOf(mine[r], "running")
            /\ phase[mine[r]] = "none"
        BY DEF ClaimedRow, ClaimedAlone, Claimed
      <4>2. RunnersRow'
        BY <4>1 DEF RunnersRow, RowOf
      <4>3. FreshClaims'
        BY <4>1 DEF FreshClaims, Claim
      <4>4. ClaimedRow' /\ ClaimedAlone'
        BY <4>1 DEF ClaimedRow, ClaimedAlone, Claimed
      <4>5. CreateLocked'
        BY DEF CreateLocked
      <4> QED
        BY <4>2, <4>3, <4>4, <4>5
    <3>7. ASSUME NEW r \in Requests, ClaimFails(r)
          PROVE  RowInv'
      BY <3>7, LoadJobAssumption DEF ClaimFails, Asks, Connected, JobInv, Calm
    <3>8. ASSUME NEW c \in Claim, Heartbeat(c)
          PROVE  RowInv'
      <4> UNCHANGED <<job, claims, phase, mine, claimer, pc>>
        BY <3>8 DEF Heartbeat, Written, loadVars, requestVars, JobInv, RowInv, RunnersRow,
           RowOf
      <4> QED
        BY QuietStep
    <3>9. ASSUME NEW c \in Claim,
                 LoadSucceeds(c) \/ LoadFails(c) \/ RunnerWakes(c)
          PROVE  RowInv'
      <4> USE DEF JobInv, RowInv, TypeOK
      <4>1. /\ UNCHANGED <<job, claimer, claims, pc, mine>>
            /\ phase[c] \in RunnerPhases
            /\ \A d \in Claim \ {c} : phase'[d] = phase[d]
            /\ phase'[c] \in {"finishing", "failing"} => phase[c] = "loading"
            /\ phase'[c] = "grace" => phase[c] = "wakeFailed"
            /\ phase'[c] \in {"finishing", "failing", "ended", "grace"}
        BY <3>9 DEF LoadSucceeds, LoadFails, RunnerWakes, jobVars, requestVars,
           RunnerPhases
      <4>2. RunnersRow'
        BY <4>1 DEF RunnersRow, RowOf
      <4>3. FreshClaims'
        BY <4>1 DEF FreshClaims, Claim, RunnerPhases
      <4>4. ClaimedRow' /\ ClaimedAlone'
        BY <4>1 DEF ClaimedRow, ClaimedAlone, Claimed, RowOf, RunnerPhases
      <4>5. CreateLocked'
        BY <4>1 DEF CreateLocked
      <4> QED
        BY <4>2, <4>3, <4>4, <4>5
    <3>10. ASSUME NEW c \in Claim,
                  FinishDeletes(c) \/ FailRecords(c) \/ GraceDeletes(c)
           PROVE  RowInv'
      <4> USE DEF JobInv, RowInv, TypeOK
      <4>1. /\ UNCHANGED <<claimer, claims, pc, mine>>
            /\ phase[c] \in {"finishing", "failing", "grace"}
            /\ \A d \in Claim \ {c} : phase'[d] = phase[d]
            /\ phase'[c] \in {"wakeDone", "wakeFailed", "ended"}
            /\ phase'[c] = "wakeFailed" => phase[c] = "failing"
        BY <3>10 DEF FinishDeletes, FailRecords, GraceDeletes, requestVars
      <4>2. \/ job' = NoJob
            \/ job' = RowOf(c, "failed") /\ phase'[c] = "wakeFailed"
        BY <3>10 DEF FinishDeletes, FailRecords, GraceDeletes, Reaches, Written, Calm,
           RunnersRow, RowOf
      <4>3. job' # NoJob <=> phase'[c] = "wakeFailed"
        BY <3>10, <4>2 DEF FinishDeletes, FailRecords, GraceDeletes, Reaches, Written,
           Calm, RunnersRow, RowOf
      <4>4. /\ job.claim = c /\ ~job.orphaned /\ job # NoJob
            /\ \A d \in Claim \ {c} : phase[d] \notin
                   {"loading", "finishing", "failing", "wakeFailed", "grace"}
            /\ Claimed = {}
        BY <4>1 DEF RunnersRow, ClaimedRow, RowOf, Claimed, Claim
      <4>5. RunnersRow'
        BY <4>1, <4>2, <4>3, <4>4 DEF RunnersRow, RowOf
      <4>6. FreshClaims'
        BY <4>1 DEF FreshClaims, Claim
      <4>7. ClaimedRow' /\ ClaimedAlone'
        BY <4>1, <4>4 DEF ClaimedRow, ClaimedAlone, Claimed
      <4>8. CreateLocked'
        BY <4>1, <4>4 DEF CreateLocked
      <4> QED
        BY <4>5, <4>6, <4>7, <4>8
    <3>11. ASSUME OrphanWindow
           PROVE  RowInv'
      <4> USE <3>11 DEF OrphanWindow, JobInv, RowInv, TypeOK, loadVars, requestVars
      <4>1. /\ \A c \in Claim : phase[c] \notin RunnerPhases
            /\ Claimed = {}
        BY DEF Calm, Reaches, Connected, Claimed
      <4>2. RunnersRow'
        BY <4>1 DEF RunnersRow, RunnerPhases
      <4>3. ClaimedRow' /\ ClaimedAlone' /\ FreshClaims'
        BY <4>1 DEF ClaimedRow, ClaimedAlone, FreshClaims, Claimed
      <4>4. CreateLocked'
        BY DEF CreateLocked
      <4> QED
        BY <4>2, <4>3, <4>4
    <3>12. ASSUME Crash
           PROVE  RowInv'
      <4> USE DEF JobInv, RowInv, TypeOK
      <4>1. /\ UNCHANGED <<job, claims, mine>>
            /\ \A c \in Claim :
                   \/ phase'[c] = phase[c]
                   \/ phase[c] \in RunnerPhases /\ phase'[c] = "ended"
            /\ \A r \in Requests : pc'[r] = pc[r] \/ pc'[r] = "died"
        BY <3>12 DEF Crash
      <4>2. \A r \in Requests : pc'[r] = "create" /\ claimer = r => claimer' = r
        BY <3>12, LoadJobAssumption DEF Crash, RouteSteps, LoadJobAssumption
      <4>3. RunnersRow' /\ FreshClaims'
        BY <4>1 DEF RunnersRow, FreshClaims, RowOf, RunnerPhases
      <4>4. ClaimedRow' /\ ClaimedAlone'
        BY <4>1 DEF ClaimedRow, ClaimedAlone, Claimed, RowOf, RunnerPhases
      <4>5. CreateLocked'
        BY <4>1, <4>2 DEF CreateLocked
      <4> QED
        BY <4>3, <4>4, <4>5
    <3>13. ASSUME Evict \/ Disconnect \/ Cut \/ Reconnect \/ UNCHANGED vars
           PROVE  RowInv'
      <4> UNCHANGED <<job, claims, phase, mine, claimer, pc>>
        BY <3>13 DEF Evict, Disconnect, Cut, Reconnect, vars, jobVars, loadVars,
           requestVars
      <4> QED
        BY QuietStep
    <3> QED
      BY <3>1, <3>2, <3>3, <3>4, <3>5, <3>6, <3>7, <3>8, <3>9, <3>10, <3>11, <3>12,
         <3>13
      DEF Next, RequestStep, ClaimStep, ClaimedStep, RunnerStep
  <2> QED
    BY <2>0, <2>1, <2>2 DEF JobInv
<1> QED
  BY <1>1, <1>2, PTL DEF Spec

(***************************************************************************)
(* As long as the database is reachable and no client leaves, the row is   *)
(* the record of the load that runs: it was created for it, nobody has     *)
(* taken it over, deleted it or marked it failed.                          *)
(***************************************************************************)
THEOREM LoadsOwnTheirRow ==
    ASSUME MaxCuts = 0, ~ClientsLeave
    PROVE  Spec => []RowIsTheLoader
<1>1. JobInv => RowIsTheLoader
  BY DEF JobInv, RowInv, RunnersRow, RowIsTheLoader, Loading, RowOf
<1> QED
  BY <1>1, JobInvariance, PTL

(***************************************************************************)
(* In that regime nobody claims the model between the end of a failed load *)
(* and the end of its grace period.                                        *)
(***************************************************************************)
THEOREM FailuresAreReported ==
    ASSUME MaxCuts = 0, ~ClientsLeave
    PROVE  Spec => NoRetryStorm
<1> DEFINE NoClaim == \A r \in Requests : ClaimCreates(r) =>
               \A c \in Claim : phase[c] \notin {"failing", "wakeFailed", "grace"}
<1>1. JobInv => NoClaim
  BY DEF JobInv, RowInv, RunnersRow, CreateLocked, RowOf, ClaimCreates, NoJob, Claim
<1>2. JobInv /\ [Next]_vars => [NoClaim]_vars
  BY <1>1
<1> QED
  BY <1>2, JobInvariance, PTL DEF Spec, NoRetryStorm
=============================================================================
