--------------------------- MODULE RealtimeProofs ---------------------------
(***************************************************************************)
(* Proofs about RealtimeSession: one response is live, nothing outlives    *)
(* the session, and a compaction loses no item, for every number of        *)
(* turn-detection runs, responses and items.                               *)
(***************************************************************************)
EXTENDS RealtimeSession, SequenceTheorems, WellFoundedInduction, TLAPS

(***************************************************************************)
(* The types of the variables that the invariants speak of.                *)
(***************************************************************************)
Shape ==
    /\ conn \in {"serving", "joinInputs", "joinResponses", "joinCompaction",
                 "delete", "returned"}
    /\ detectors \in Nat
    /\ vpc \in [VAD -> {"none", "select", "scan", "heard", "returned"}]
    /\ resp \in Response \cup {NoResponse, Terminated}
    /\ issued \in Nat
    /\ rpc \in [Response -> RPC]
    /\ parent \in [Response -> VAD \cup {NoVAD}]
    /\ cancelled \subseteq Response

(***************************************************************************)
(* What has ended at each step of the teardown, and stays ended.           *)
(***************************************************************************)
Ended ==
    /\ conn \notin {"serving", "joinInputs"} => Detecting = {} /\ resp = Terminated
    /\ conn \in {"joinCompaction", "delete", "returned"} => Running = {}
    /\ conn \in {"delete", "returned"} =>
        compactor = "none" /\ compaction = "Terminated"

IInv == Shape /\ OneLive /\ Ended

LEMMA NotResponses == Terminated \notin Response /\ NoResponse \notin Response
  BY SessionAssumption DEF Terminated, NoResponse, Response

LEMMA Initially == Init => IInv
<1> USE DEF Init, ConversationInit, IInv, Shape, OneLive, Ended, Running, RPC, CallSteps
<1> QED
  BY SessionAssumption DEF NoVAD

(***************************************************************************)
(* A step of a response that stays running keeps the invariant, whatever   *)
(* it does to the conversation: the teardown waits for this response.      *)
(***************************************************************************)
LEMMA StepKeeps ==
    ASSUME IInv, NEW r \in Response, NEW from, NEW to \in RPC \ {"none", "gone"},
           from \notin {"none", "gone"}, Step(r, from, to)
    PROVE  IInv'
<1> USE DEF IInv, Step
<1>1. Shape'
  BY DEF Shape, connVars, vadVars
<1>2. Running' = Running /\ r \in Running
  BY DEF Shape, Running
<1>3. OneLive'
  BY <1>2 DEF OneLive, Cancelled, vadVars
<1>4. Detecting' = Detecting
  BY DEF Detecting, vadVars
<1>5. Ended'
  BY <1>2, <1>4 DEF Ended, Shape, connVars
<1> QED
  BY <1>1, <1>3, <1>5

LEMMA BodyKeeps ==
    ASSUME IInv, NEW r \in Response,
           CallReturns(r) \/ (Proceed(r) /\ ~Finish(r))
    PROVE  IInv'
<1> DEFINE Runs == RPC \ {"none", "gone"}
<1>1. SUFFICES \E from, to \in Runs : Step(r, from, to)
  BY <1>1, StepKeeps
<1>2. CASE Transcribed(r) \/ UtteranceDropped(r)
  BY <1>2 DEF Transcribed, UtteranceDropped, RPC, CallSteps
<1>3. CASE PredictFails(r) \/ PredictReturns(r)
  BY <1>3 DEF PredictFails, PredictReturns, RPC, CallSteps
<1>4. CASE Announce(r) \/ StreamReturns(r)
  BY <1>4 DEF Announce, StreamReturns, RPC, CallSteps
<1>5. CASE StreamFails(r)
  BY <1>5 DEF StreamFails, RollBack, Fail, RPC, CallSteps
<1>6. CASE Spoken(r) \/ SpeechFails(r) \/ Execute(r)
  BY <1>6 DEF Spoken, SpeechFails, RollBack, Fail, Execute, RPC, CallSteps
<1>7. CASE Enter(r) \/ AppendReply(r) \/ SaysNothing(r)
  BY <1>7 DEF Enter, AppendReply, SaysNothing, RPC, CallSteps
<1>8. CASE ClientCall(r) \/ AssistantCall(r) \/ FollowUp(r) \/ ToolsDone(r)
  BY <1>8 DEF ClientCall, AssistantCall, FollowUp, ToolsDone, RPC, CallSteps
<1>9. CASE Exit(r) \/ TriggerCompaction(r)
  BY <1>9 DEF Exit, TriggerCompaction, RPC, CallSteps
<1> QED
  BY <1>2, <1>3, <1>4, <1>5, <1>6, <1>7, <1>8, <1>9 DEF CallReturns, Proceed

(***************************************************************************)
(* Apply(Finished) of a response: it makes the coordinator idle only if it *)
(* is the one that the coordinator knows.                                  *)
(***************************************************************************)
LEMMA FinishKeeps ==
    ASSUME IInv, NEW r \in Response, Finish(r)
    PROVE  IInv'
<1> USE DEF IInv, Finish
<1>1. Shape'
  BY DEF Shape, connVars, vadVars, RPC, CallSteps, NoVAD
<1>2. Running' = Running \ {r} /\ r \in Running
  BY DEF Shape, Running
<1>3. OneLive'
  BY <1>2 DEF OneLive, Cancelled, vadVars, Shape
<1>4. Detecting' = Detecting
  BY DEF Detecting, vadVars
<1>5. Ended'
  BY <1>2, <1>4, NotResponses DEF Ended, Shape, connVars
<1> QED
  BY <1>1, <1>3, <1>5

(***************************************************************************)
(* Apply(Start): a response starts only before Shutdown, and the response  *)
(* that was live is cancelled.  Callers hold the session or a run of turn  *)
(* detection open, so the teardown has not come to the responses.          *)
(***************************************************************************)
LEMMA IssueKeeps ==
    ASSUME IInv, NEW v \in VAD \cup {NoVAD}, NEW step \in RPC, NEW tokens,
           Issue(v, step, tokens),
           conn' = conn, detectors' = detectors,
           conn \in {"serving", "joinInputs"},
           vadEnded' = vadEnded,
           vpc' \in [VAD -> {"none", "select", "scan", "heard", "returned"}]
    PROVE  IInv'
<1> USE DEF IInv, Issue
<1>1. CASE resp = Terminated
  <2>1. Shape'
    BY <1>1 DEF Shape
  <2>2. OneLive'
    BY <1>1 DEF OneLive, Running, Cancelled
  <2> QED
    BY <2>1, <2>2 DEF Ended
<1>2. CASE resp # Terminated
  <2>1. issued' \in Response
    BY SessionAssumption DEF Shape, Response
  <2>2. Shape'
    <3>1. resp' \in Response /\ issued' \in Nat
      BY <1>2, <2>1 DEF Shape, Response
    <3>4. cancelled' \subseteq Response
      <4>1. cancelled' = cancelled \cup ({resp} \cap Response)
        BY <1>2
      <4> QED
        BY <4>1, Zenon DEF Shape
    <3>2. rpc' \in [Response -> RPC]
      BY <1>2 DEF Shape
    <3>3. parent' \in [Response -> VAD \cup {NoVAD}]
      BY <1>2 DEF Shape
    <3> QED
      BY <3>1, <3>2, <3>3, <3>4 DEF Shape
  <2>3. OneLive'
    <3> SUFFICES ASSUME NEW q \in Running'
                 PROVE  Cancelled(q)' \/ resp' = q
      BY DEF OneLive
    <3>1. CASE q = issued'
      BY <1>2, <3>1
    <3>2. CASE q # issued'
      <4>1. q \in Running
        BY <1>2, <2>1, <3>2 DEF Running, Shape
      <4>2. Cancelled(q) \/ resp = q
        BY <4>1 DEF OneLive
      <4>3. q \in Response /\ parent'[q] = parent[q]
        BY <1>2, <2>1, <3>2, <4>1 DEF Running, Shape
      <4> QED
        BY <1>2, <4>2, <4>3 DEF Cancelled
    <3> QED
      BY <3>1, <3>2
  <2> QED
    BY <2>2, <2>3 DEF Ended
<1> QED
  BY <1>1, <1>2

-----------------------------------------------------------------------------
(***************************************************************************)
(* The client's events and the lost connection.                            *)
(***************************************************************************)
LEMMA CancelKeeps ==
    ASSUME IInv, CancelResponse, UNCHANGED <<conn, detectors, vadEnded>>,
           conn \in {"serving", "joinInputs"},
           vpc' \in [VAD -> {"none", "select", "scan", "heard", "returned"}]
    PROVE  IInv'
<1> USE DEF IInv, CancelResponse
<1>1. Shape'
  BY DEF Shape, NoResponse
<1>2. Running' = Running
  BY DEF Running
<1>3. OneLive'
  BY <1>2 DEF OneLive, Cancelled, Running
<1> QED
  BY <1>1, <1>3 DEF Ended

LEMMA EventKeeps ==
    ASSUME IInv, Event \/ Close
    PROVE  IInv'
<1> USE DEF IInv
<1> DEFINE VPC == [VAD -> {"none", "select", "scan", "heard", "returned"}]
<1>0. vpc \in VPC
  BY DEF Shape
<1>1. CASE StartVAD
  <2> USE <1>1 DEF StartVAD, responseVars
  <2>1. Shape'
    <3>1. vpc' \in VPC
      BY <1>0
    <3>2. detectors' \in Nat
      BY DEF Shape
    <3> QED
      BY <3>1, <3>2 DEF Shape, bodyVars, limitVars
  <2>2. OneLive'
    BY DEF OneLive, Running, Cancelled
  <2> QED
    BY <2>1, <2>2 DEF Ended
<1>2. CASE StopVAD \/ CreateItem \/ DeleteItem \/ Close
  <2>1. UNCHANGED <<responseVars, vpc, vadEnded, detectors>>
    BY <1>2 DEF StopVAD, CreateItem, DeleteItem, Close, connVars, vadVars
  <2>2. conn = "serving" /\ conn' \in {"serving", "joinInputs"}
    BY <1>2 DEF StopVAD, CreateItem, DeleteItem, Close, connVars
  <2>3. Shape'
    BY <2>1, <2>2 DEF Shape, responseVars
  <2>4. OneLive'
    BY <2>1 DEF OneLive, Running, Cancelled, responseVars
  <2> QED
    BY <2>2, <2>3, <2>4 DEF Ended
<1>3. CASE CreateResponse
  <2> PICK tokens \in TokenLimits : Issue(NoVAD, "enter", tokens)
    BY <1>3 DEF CreateResponse
  <2> "enter" \in RPC
    BY DEF RPC
  <2> QED
    BY <1>0, <1>3, IssueKeeps DEF CreateResponse, connVars, vadVars
<1>4. CASE CommitAudio
  <2> "transcribe" \in RPC
    BY DEF RPC, CallSteps
  <2> QED
    BY <1>0, <1>4, IssueKeeps DEF CommitAudio, connVars, vadVars
<1>5. CASE CancelEvent
  BY <1>0, <1>5, CancelKeeps DEF CancelEvent, connVars, vadVars
<1> QED
  BY <1>1, <1>2, <1>3, <1>4, <1>5 DEF Event

(***************************************************************************)
(* Each step of the teardown finds the level above it ended.               *)
(***************************************************************************)
LEMMA TeardownKeeps ==
    ASSUME IInv, Teardown
    PROVE  IInv'
<1> USE DEF IInv
<1>1. CASE ShutdownResponses
  <2> USE <1>1 DEF ShutdownResponses, vadVars
  <2>1. Shape'
    BY DEF Shape
  <2>2. OneLive'
    BY DEF OneLive, Running, Cancelled
  <2>3. Detecting' = {}
    BY DEF Detecting
  <2> QED
    BY <2>1, <2>2, <2>3 DEF Ended
<1>2. CASE CancelCompaction \/ ShutdownCompaction \/ DeleteSession
  <2>1. UNCHANGED <<vadVars, responseVars, detectors>>
    BY <1>2 DEF CancelCompaction, ShutdownCompaction, DeleteSession
  <2>2. conn' \in {"joinCompaction", "delete", "returned"}
    BY <1>2 DEF CancelCompaction, ShutdownCompaction, DeleteSession
  <2>3. Shape'
    BY <2>1, <2>2 DEF Shape, responseVars, vadVars
  <2>4. Running' = Running /\ Detecting' = Detecting
    BY <2>1 DEF Running, Detecting, responseVars, vadVars
  <2>5. OneLive'
    BY <2>1, <2>4 DEF OneLive, Cancelled, responseVars, vadVars
  <2>6. Ended'
    <3>1. CASE CancelCompaction
      BY <2>1, <2>4, <3>1 DEF Ended, CancelCompaction, responseVars
    <3>2. CASE ShutdownCompaction
      BY <2>1, <2>4, <3>2 DEF Ended, ShutdownCompaction, responseVars
    <3>3. CASE DeleteSession
      BY <2>1, <2>4, <3>3
         DEF Ended, DeleteSession, responseVars, conversationVars, compactionVars
    <3> QED
      BY <1>2, <3>1, <3>2, <3>3
  <2> QED
    BY <2>3, <2>5, <2>6
<1> QED
  BY <1>1, <1>2 DEF Teardown

(***************************************************************************)
(* A run of turn detection acts only while it is not joined, so before the *)
(* responses are shut down.                                                *)
(***************************************************************************)
LEMMA DetectKeeps ==
    ASSUME IInv, NEW v \in VAD, Detect(v)
    PROVE  IInv'
<1> USE DEF IInv
<1> DEFINE VPC == [VAD -> {"none", "select", "scan", "heard", "returned"}]
<1>1. CASE VADContextEnds(v)
  <2> USE <1>1 DEF VADContextEnds, connVars, responseVars, conversationVars, compactionVars
  <2>1. Shape'
    BY DEF Shape
  <2>2. OneLive'
    BY DEF OneLive, Running, Cancelled
  <2> QED
    BY <2>1, <2>2 DEF Ended, Running, Detecting
<1>2. CASE ~VADContextEnds(v)
  <2>1. vpc[v] \in {"select", "scan", "heard"}
    BY <1>2 DEF Detect, ScanReturns, Tick, ScanQuiet, NoSpeech, Onset, StillSpeaking,
                KeepListening, CommitTurn, VADReturns
  <2>2. conn \in {"serving", "joinInputs"}
    BY <2>1 DEF Ended, Detecting, Shape
  <2>3. UNCHANGED <<conn, detectors, vadEnded>>
    BY <1>2 DEF Detect, ScanReturns, Tick, ScanQuiet, NoSpeech, Onset, StillSpeaking,
                KeepListening, CommitTurn, VADReturns, connVars
  <2>4. \E s \in {"select", "scan", "heard", "returned"} : vpc' = [vpc EXCEPT ![v] = s]
    BY <1>2 DEF Detect, ScanReturns, Tick, ScanQuiet, NoSpeech, Onset, StillSpeaking,
                KeepListening, CommitTurn, VADReturns
  <2>5. vpc' \in VPC
    BY <2>4 DEF Shape
  <2>6. CASE Onset(v)
    BY <2>2, <2>3, <2>5, <2>6, CancelKeeps DEF Onset
  <2>7. CASE CommitTurn(v)
    <3>1. "transcribe" \in RPC
      BY DEF RPC, CallSteps
    <3> QED
      BY <2>2, <2>3, <2>5, <2>7, <3>1, IssueKeeps DEF CommitTurn
  <2>8. CASE ~Onset(v) /\ ~CommitTurn(v)
    <3>1. UNCHANGED responseVars
      BY <1>2, <2>8 DEF Detect, ScanReturns, Tick, ScanQuiet, NoSpeech, StillSpeaking,
                        KeepListening, VADReturns
    <3>2. Shape'
      BY <2>3, <2>5, <3>1 DEF Shape, responseVars
    <3>3. OneLive'
      BY <2>3, <3>1 DEF OneLive, Running, Cancelled, responseVars
    <3> QED
      BY <2>2, <2>3, <3>2, <3>3 DEF Ended
  <2> QED
    BY <2>6, <2>7, <2>8
<1> QED
  BY <1>1, <1>2

LEMMA CompactingKeeps ==
    ASSUME IInv, Compacting
    PROVE  IInv'
<1> USE DEF IInv, Compacting, connVars, vadVars, responseVars
<1>1. Shape'
  BY DEF Shape
<1>2. Running' = Running /\ Detecting' = Detecting
  BY DEF Running, Detecting
<1>3. OneLive'
  BY <1>2 DEF OneLive, Cancelled
<1>4. compactor # "none"
  BY DEF Compact, Snapshot, SummaryArrives, SummaryFails, Commit, CompactionFinished
<1>5. Ended'
  BY <1>2, <1>4 DEF Ended
<1> QED
  BY <1>1, <1>3, <1>5

LEMMA NextKeeps == IInv /\ [Next]_vars => IInv'
<1> SUFFICES ASSUME IInv, [Next]_vars
             PROVE  IInv'
  OBVIOUS
<1>1. CASE Event \/ Close
  BY <1>1, EventKeeps
<1>2. CASE Teardown
  BY <1>2, TeardownKeeps
<1>3. CASE \E v \in VAD : Detect(v)
  BY <1>3, DetectKeeps
<1>4. CASE \E r \in Response : CallReturns(r) \/ Proceed(r)
  BY <1>4, BodyKeeps, FinishKeeps
<1>5. CASE Compacting
  BY <1>5, CompactingKeeps
<1>6. CASE UNCHANGED vars
  BY <1>6 DEF vars, conversationVars, compactionVars, connVars, vadVars, responseVars,
              IInv, Shape, OneLive, Ended, Running, Detecting, Cancelled
<1> QED
  BY <1>1, <1>2, <1>3, <1>4, <1>5, <1>6 DEF Next

LEMMA Invariance == Spec => []IInv
<1>1. Init => IInv
  BY Initially
<1>2. IInv /\ [Next]_vars => IInv'
  BY NextKeeps
<1> QED
  BY <1>1, <1>2, PTL DEF Spec

-----------------------------------------------------------------------------
(***************************************************************************)
(* However many responses are issued, cancelled and superseded, by the     *)
(* client and by turn detection, all running ones but the one the          *)
(* coordinator knows have a cancelled context (respcoord.Next and its      *)
(* sink).                                                                  *)
(***************************************************************************)
THEOREM OneResponseIsLive == Spec => []OneLive
<1>1. IInv => OneLive
  BY DEF IInv
<1> QED
  BY <1>1, Invariance, PTL

(***************************************************************************)
(* When the session goroutine returns, its turn detection, its responses   *)
(* and its compaction have ended, and their coordinators start no more     *)
(* (the order of connSink's Teardown).                                     *)
(***************************************************************************)
THEOREM NothingOutlivesTheSession == Spec => []NoneOutlivesSession
<1>1. IInv => NoneOutlivesSession
  BY DEF IInv, Ended, NoneOutlivesSession
<1> QED
  BY <1>1, Invariance, PTL

-----------------------------------------------------------------------------
(***************************************************************************)
(* The refinement of SessionTree, one lemma for each kind of step.         *)
(***************************************************************************)
Levels == <<closed, Detecting, Running, compactor>>

LEMMA LevelsStutter ==
    ASSUME UNCHANGED Levels
    PROVE  UNCHANGED Tree!treeVars
  BY DEF Levels, Tree!treeVars

LEMMA IssueIsTree ==
    ASSUME IInv, NEW v, NEW step \in RPC \ {"none", "gone"}, NEW tokens,
           Issue(v, step, tokens), UNCHANGED <<conn, compactor>>,
           Detecting' = Detecting,
           conn = "serving" \/ (conn = "joinInputs" /\ Detecting # {})
    PROVE  [Tree!Next]_Tree!treeVars
<1>1. closed' = closed /\ (closed = 0 \/ (closed = 1 /\ Detecting # {}))
  BY DEF closed
<1>2. Running' = Running \/ \E r \in Response \ Running : Running' = Running \cup {r}
  <2>1. CASE resp = Terminated
    BY <2>1 DEF Issue, Running
  <2>2. CASE resp # Terminated
    <3>1. issued' \in Response
      BY SessionAssumption DEF IInv, Shape, Response, Issue
    <3>2. rpc' = [rpc EXCEPT ![issued'] = step]
      BY <2>2 DEF Issue
    <3>3. Running' = Running \cup {issued'}
      BY <3>1, <3>2 DEF IInv, Shape, Running
    <3> QED
      BY <3>1, <3>3
  <2> QED
    BY <2>1, <2>2
<1>3. CASE Running' = Running
  BY <1>1, <1>3, LevelsStutter DEF Levels
<1>4. CASE \E r \in Response \ Running : Running' = Running \cup {r}
  <2>1. Tree!StartResponse
    BY <1>1, <1>4 DEF Tree!StartResponse
  <2> QED
    BY <2>1 DEF Tree!Next
<1> QED
  BY <1>2, <1>3, <1>4

LEMMA BodyIsTree ==
    ASSUME IInv, NEW r \in Response, CallReturns(r) \/ Proceed(r)
    PROVE  [Tree!Next]_Tree!treeVars
<1> DEFINE Runs == RPC \ {"none", "gone"}
<1>1. CASE Finish(r)
  <2>1. Running' = Running \ {r} /\ r \in Running
    BY <1>1 DEF Finish, Running, IInv, Shape
  <2>2. closed' = closed /\ Detecting' = Detecting /\ compactor' = compactor
    BY <1>1 DEF Finish, connVars, vadVars, conversationVars, compactionVars, closed,
                Detecting
  <2>3. Tree!EndResponse
    BY <2>1, <2>2 DEF Tree!EndResponse
  <2> QED
    BY <2>3 DEF Tree!Next
<1>2. CASE TriggerCompaction(r)
  <2>1. Running' = Running /\ r \in Running
    BY <1>2 DEF TriggerCompaction, Step, Running, IInv, Shape
  <2>2. closed' = closed /\ Detecting' = Detecting
    BY <1>2 DEF TriggerCompaction, Step, connVars, vadVars, closed, Detecting
  <2>3. closed < 3
    BY <2>1 DEF IInv, Ended, Shape, closed
  <2>4. compactor' = compactor \/ compactor' = "snapshot"
    BY <1>2 DEF TriggerCompaction, Trigger, compactionVars
  <2>5. CASE (compactor' = "none") <=> (compactor = "none")
    BY <2>1, <2>2, <2>5 DEF Tree!treeVars
  <2>6. CASE compactor = "none" /\ compactor' = "snapshot"
    <3>1. Tree!StartCompaction
      BY <2>1, <2>2, <2>3, <2>6 DEF Tree!StartCompaction
    <3> QED
      BY <3>1 DEF Tree!Next
  <2> QED
    BY <2>4, <2>5, <2>6
<1>3. CASE ~Finish(r) /\ ~TriggerCompaction(r)
  <2>1. \E from, to \in Runs : Step(r, from, to)
    <3>1. CASE CallReturns(r)
      BY <3>1 DEF CallReturns, Transcribed, UtteranceDropped, PredictFails, PredictReturns,
                  Announce, StreamReturns, StreamFails, RollBack, Fail, Spoken,
                  SpeechFails, Execute, RPC, CallSteps
    <3>2. CASE Proceed(r)
      BY <1>3, <3>2 DEF Proceed, Enter, AppendReply, SaysNothing, ClientCall,
                  AssistantCall, FollowUp, ToolsDone, Exit, RPC, CallSteps
    <3> QED
      BY <3>1, <3>2
  <2>2. compactor' = compactor
    <3>1. CASE CallReturns(r)
      BY <3>1 DEF CallReturns, Transcribed, UtteranceDropped, PredictFails, PredictReturns,
                  Announce, StreamReturns, StreamFails, RollBack, Fail, Spoken,
                  SpeechFails, Execute, conversationVars, compactionVars
    <3>2. CASE Proceed(r)
      BY <1>3, <3>2 DEF Proceed, Enter, AppendReply, SaysNothing, ClientCall,
                  AssistantCall, FollowUp, ToolsDone, Exit, conversationVars,
                  compactionVars
    <3> QED
      BY <3>1, <3>2
  <2>3. Running' = Running
    BY <2>1 DEF Step, Running, IInv, Shape
  <2>4. closed' = closed /\ Detecting' = Detecting
    BY <2>1 DEF Step, connVars, vadVars, closed, Detecting
  <2> QED
    BY <2>2, <2>3, <2>4, LevelsStutter DEF Levels
<1> QED
  BY <1>1, <1>2, <1>3

LEMMA EventIsTree ==
    ASSUME IInv, Event \/ Close
    PROVE  [Tree!Next]_Tree!treeVars
<1>1. CASE StartVAD
  <2> USE <1>1 DEF StartVAD, responseVars, conversationVars, compactionVars
  <2>1. detectors' \in VAD
    BY SessionAssumption DEF IInv, Shape, VAD
  <2>2. Detecting' = Detecting \cup {detectors'}
    BY <2>1 DEF Detecting, IInv, Shape
  <2>3. closed = 0 /\ closed' = 0 /\ Running' = Running /\ compactor' = compactor
    BY DEF closed, Running
  <2>4. CASE detectors' \in Detecting
    BY <2>2, <2>3, <2>4, LevelsStutter DEF Levels
  <2>5. CASE detectors' \notin Detecting
    <3>1. Tree!StartInput
      BY <2>1, <2>2, <2>3, <2>5 DEF Tree!StartInput
    <3> QED
      BY <3>1 DEF Tree!Next
  <2> QED
    BY <2>4, <2>5
<1>2. CASE StopVAD \/ CreateItem \/ DeleteItem \/ CancelEvent
  <2>1. UNCHANGED <<conn, vpc, rpc, compactor>>
    BY <1>2 DEF StopVAD, CreateItem, DeleteItem, CancelEvent, CancelResponse, connVars,
                vadVars, responseVars, conversationVars, compactionVars
  <2> QED
    BY <2>1, LevelsStutter DEF Levels, closed, Detecting, Running
<1>3. CASE CreateResponse
  <2>1. PICK tokens \in TokenLimits : Issue(NoVAD, "enter", tokens)
    BY <1>3 DEF CreateResponse
  <2>2. "enter" \in RPC \ {"none", "gone"}
    BY DEF RPC
  <2>3. Detecting' = Detecting
    BY <1>3 DEF CreateResponse, vadVars, Detecting
  <2> QED
    BY <1>3, <2>1, <2>2, <2>3, IssueIsTree
       DEF CreateResponse, connVars, conversationVars, compactionVars
<1>4. CASE CommitAudio
  <2>1. "transcribe" \in RPC \ {"none", "gone"}
    BY DEF RPC, CallSteps
  <2>2. Detecting' = Detecting
    BY <1>4 DEF CommitAudio, vadVars, Detecting
  <2> QED
    BY <1>4, <2>1, <2>2, IssueIsTree
       DEF CommitAudio, connVars, conversationVars, compactionVars
<1>5. CASE Close
  <2>1. closed = 0 /\ closed' = 1
    BY <1>5 DEF Close, closed
  <2>2. Detecting' = Detecting /\ Running' = Running /\ compactor' = compactor
    BY <1>5 DEF Close, Detecting, Running, responseVars, conversationVars, compactionVars
  <2>3. Tree!Close
    BY <2>1, <2>2 DEF Tree!Close
  <2> QED
    BY <2>3 DEF Tree!Next
<1> QED
  BY <1>1, <1>2, <1>3, <1>4, <1>5 DEF Event

LEMMA TeardownIsTree ==
    ASSUME IInv, Teardown
    PROVE  [Tree!Next]_Tree!treeVars
<1> USE DEF vadVars, responseVars, conversationVars, compactionVars
<1>1. Detecting' = Detecting /\ Running' = Running /\ compactor' = compactor
  BY DEF Teardown, ShutdownResponses, CancelCompaction, ShutdownCompaction,
         DeleteSession, Detecting, Running
<1>2. CASE ShutdownResponses
  <2>1. closed = 1 /\ closed' = 2 /\ Detecting = {}
    BY <1>2 DEF ShutdownResponses, closed
  <2>2. Tree!Close
    BY <1>1, <2>1 DEF Tree!Close
  <2> QED
    BY <2>2 DEF Tree!Next
<1>3. CASE CancelCompaction
  <2>1. closed = 2 /\ closed' = 3 /\ Running = {}
    BY <1>3 DEF CancelCompaction, closed
  <2>2. Tree!Close
    BY <1>1, <2>1 DEF Tree!Close
  <2> QED
    BY <2>2 DEF Tree!Next
<1>4. CASE ShutdownCompaction
  <2>1. closed' = closed
    BY <1>4 DEF ShutdownCompaction, closed
  <2> QED
    BY <1>1, <2>1, LevelsStutter DEF Levels
<1>5. CASE DeleteSession
  <2>1. closed = 3 /\ closed' = 4 /\ compactor = "none"
    BY <1>5 DEF DeleteSession, closed, IInv, Ended
  <2>2. Tree!Close
    BY <1>1, <2>1 DEF Tree!Close
  <2> QED
    BY <2>2 DEF Tree!Next
<1> QED
  BY <1>2, <1>3, <1>4, <1>5 DEF Teardown

LEMMA DetectIsTree ==
    ASSUME IInv, NEW v \in VAD, Detect(v)
    PROVE  [Tree!Next]_Tree!treeVars
<1>1. UNCHANGED <<conn, compactor>>
  BY DEF Detect, ScanReturns, Tick, ScanQuiet, NoSpeech, Onset, StillSpeaking,
         KeepListening, CommitTurn, VADReturns, VADContextEnds, connVars,
         conversationVars, compactionVars
<1>2. closed' = closed
  BY <1>1 DEF closed
<1>3. CASE VADReturns(v)
  <2>1. v \in Detecting /\ Detecting' = Detecting \ {v}
    BY <1>3 DEF VADReturns, Detecting, IInv, Shape
  <2>2. Running' = Running
    BY <1>3 DEF VADReturns, responseVars, Running
  <2>3. Tree!EndInput
    BY <1>1, <1>2, <2>1, <2>2 DEF Tree!EndInput
  <2> QED
    BY <2>3 DEF Tree!Next
<1>4. CASE CommitTurn(v)
  <2>1. v \in Detecting /\ Detecting' = Detecting
    BY <1>4 DEF CommitTurn, Detecting, IInv, Shape
  <2>2. conn \in {"serving", "joinInputs"}
    BY <2>1 DEF IInv, Ended, Shape
  <2>3. "transcribe" \in RPC \ {"none", "gone"}
    BY DEF RPC, CallSteps
  <2> QED
    BY <1>1, <1>4, <2>1, <2>2, <2>3, IssueIsTree DEF CommitTurn
<1>5. CASE ~VADReturns(v) /\ ~CommitTurn(v)
  <2>1. rpc' = rpc
    BY <1>5 DEF Detect, ScanReturns, Tick, ScanQuiet, NoSpeech, Onset, StillSpeaking,
                KeepListening, VADContextEnds, CancelResponse, responseVars
  <2>2. vpc' = vpc \/ \E s \in {"select", "scan", "heard"} :
                        vpc[v] \in {"select", "scan", "heard"} /\ vpc' = [vpc EXCEPT ![v] = s]
    BY <1>5 DEF Detect, ScanReturns, Tick, ScanQuiet, NoSpeech, Onset, StillSpeaking,
                KeepListening, VADContextEnds
  <2>3. Detecting' = Detecting
    BY <2>2 DEF Detecting, IInv, Shape
  <2>4. Running' = Running
    BY <2>1 DEF Running
  <2> QED
    BY <1>1, <1>2, <2>3, <2>4, LevelsStutter DEF Levels
<1> QED
  BY <1>3, <1>4, <1>5

LEMMA CompactingIsTree ==
    ASSUME IInv, Compacting
    PROVE  [Tree!Next]_Tree!treeVars
<1>1. closed' = closed /\ Detecting' = Detecting /\ Running' = Running
  BY DEF Compacting, connVars, vadVars, responseVars, closed, Detecting, Running
<1>2. CASE CompactionFinished
  <2>1. compactor # "none" /\ compactor' = "none"
    BY <1>2 DEF CompactionFinished
  <2>2. Tree!EndCompaction
    BY <1>1, <2>1 DEF Tree!EndCompaction
  <2> QED
    BY <2>2 DEF Tree!Next
<1>3. CASE ~CompactionFinished
  <2>1. compactor # "none" /\ compactor' # "none"
    BY <1>3 DEF Compacting, Compact, Snapshot, SummaryArrives, SummaryFails, Commit
  <2> QED
    BY <1>1, <2>1 DEF Tree!treeVars
<1> QED
  BY <1>2, <1>3

(***************************************************************************)
(* The session ends level by level (connSink's Teardown): no input starts  *)
(* once it is closed, responses start only from the client or an input,    *)
(* compactions only from a response, and each level is closed only when    *)
(* the one above has ended.                                                *)
(***************************************************************************)
THEOREM SessionEndsInOrder == Spec => IsSessionTree
<1>1. Init => Tree!Init
  BY DEF Init, ConversationInit, Tree!Init, closed, Detecting, Running
<1>2. IInv /\ [Next]_vars => [Tree!Next]_Tree!treeVars
  <2> SUFFICES ASSUME IInv, [Next]_vars
               PROVE  [Tree!Next]_Tree!treeVars
    OBVIOUS
  <2>1. CASE Event \/ Close
    BY <2>1, EventIsTree
  <2>2. CASE Teardown
    BY <2>2, TeardownIsTree
  <2>3. CASE \E v \in VAD : Detect(v)
    BY <2>3, DetectIsTree
  <2>4. CASE \E r \in Response : CallReturns(r) \/ Proceed(r)
    BY <2>4, BodyIsTree
  <2>5. CASE Compacting
    BY <2>5, CompactingIsTree
  <2>6. CASE UNCHANGED vars
    <3>1. UNCHANGED <<conn, vpc, rpc, compactor>>
      BY <2>6 DEF vars, connVars, vadVars, responseVars, conversationVars, compactionVars
    <3> QED
      BY <3>1, LevelsStutter DEF Levels, closed, Detecting, Running
  <2> QED
    BY <2>1, <2>2, <2>3, <2>4, <2>5, <2>6 DEF Next
<1> QED
  BY <1>1, <1>2, Invariance, PTL DEF Spec, IsSessionTree, Tree!Spec

-----------------------------------------------------------------------------
(***************************************************************************)
(* RemoveAt(s, i) is s without its i-th element: one shorter, the elements *)
(* before i where they were and the elements after it one place earlier.   *)
(***************************************************************************)
LEMMA RemoveAtProperties ==
    ASSUME NEW S, NEW s \in Seq(S), NEW i \in 1..Len(s)
    PROVE  /\ RemoveAt(s, i) \in Seq(S)
           /\ Len(RemoveAt(s, i)) = Len(s) - 1
           /\ \A j \in 1..(Len(s) - 1) :
                  RemoveAt(s, i)[j] = IF j < i THEN s[j] ELSE s[j + 1]
<1> DEFINE before == SubSeq(s, 1, i - 1)
           after == SubSeq(s, i + 1, Len(s))
<1>1. /\ before \in Seq(S)
      /\ Len(before) = i - 1
      /\ \A j \in 1..(i - 1) : before[j] = s[j]
  OBVIOUS
<1>2. /\ after \in Seq(S)
      /\ Len(after) = Len(s) - i
      /\ \A j \in 1..(Len(s) - i) : after[j] = s[i + j]
  OBVIOUS
<1> HIDE DEF before, after
<1>3. /\ before \o after \in Seq(S)
      /\ Len(before \o after) = Len(s) - 1
      /\ \A j \in 1..(Len(s) - 1) :
             (before \o after)[j] = IF j <= i - 1 THEN before[j] ELSE after[j - (i - 1)]
  <2>1. /\ before \o after \in Seq(S)
        /\ Len(before \o after) = Len(before) + Len(after)
        /\ \A j \in 1..(Len(before) + Len(after)) :
               (before \o after)[j] =
                   IF j <= Len(before) THEN before[j] ELSE after[j - Len(before)]
    BY <1>1, <1>2, ConcatProperties
  <2>2. Len(before) + Len(after) = Len(s) - 1
    BY <1>1, <1>2
  <2>3. QED
    BY <1>1, <2>1, <2>2
<1>4. ASSUME NEW j \in 1..(Len(s) - 1)
      PROVE  (before \o after)[j] = IF j < i THEN s[j] ELSE s[j + 1]
  <2>1. CASE j < i
    <3>1. j \in 1..(i - 1) /\ j <= i - 1
      BY <2>1
    <3>2. QED
      BY <1>1, <1>3, <2>1, <3>1
  <2>2. CASE ~(j < i)
    <3>1. j - (i - 1) \in 1..(Len(s) - i) /\ i + (j - (i - 1)) = j + 1 /\ ~(j <= i - 1)
      BY <2>2
    <3>2. QED
      BY <1>2, <1>3, <2>2, <3>1
  <2>3. QED
    BY <2>1, <2>2
<1>5. RemoveAt(s, i) = before \o after
  BY DEF RemoveAt, before, after
<1>6. QED
  BY <1>3, <1>4, <1>5

-----------------------------------------------------------------------------
(***************************************************************************)
(* The conversation: the invariant is its typing, what the two properties  *)
(* say, and that the memory a summary was made from is still the memory.   *)
(***************************************************************************)
ItemRecord == [id : Nat, kind : Kind, of : Nat]

Kept ==
    /\ ConversationTypeOK
    /\ call \in [Response -> Nat]
    /\ compactor \in {"summarize", "commit"} => prior = memory
    /\ NothingForgotten
    /\ MemoryIsOlder

\* A nonempty set of bounded naturals has a largest element.
LEMMA MaxProperties ==
    ASSUME NEW n \in Nat, NEW S \in SUBSET (0..n), S # {}
    PROVE  Max(S) \in S /\ \A y \in S : Max(S) >= y
<1> DEFINE T == {k \in Nat : n - k \in S}
<1>1. T # {}
  <2>1. PICK x \in S : TRUE
    OBVIOUS
  <2>2. n - x \in Nat /\ n - (n - x) = x
    OBVIOUS
  <2> QED
    BY <2>1, <2>2
<1>2. PICK k \in T : \A j \in T : ~(<<j, k>> \in OpToRel(<, Nat))
  BY <1>1, NatLessThanWellFounded, WFMin
<1>3. \A j \in T : ~(j < k)
  BY <1>2 DEF OpToRel
<1>4. \A y \in S : n - k >= y
  <2> SUFFICES ASSUME NEW y \in S PROVE n - k >= y
    OBVIOUS
  <2>1. n - y \in Nat /\ n - (n - y) = y /\ y \in Nat /\ k \in Nat
    OBVIOUS
  <2>2. ~(n - y < k)
    BY <1>3, <2>1
  <2> QED
    BY <2>1, <2>2
<1>5. n - k \in S
  OBVIOUS
<1> QED
  BY <1>4, <1>5 DEF Max

\* A compaction cuts off a part of the items.
LEMMA CutInItems ==
    ASSUME ConversationTypeOK
    PROVE  CompactionCut \in 0..Len(items)
<1> DEFINE naive == Len(items) - MaxHistoryItems
           S == {0} \cup {cut \in 1..naive : ~(items[cut + 1].kind = "output")}
<1>1. CASE MaxHistoryItems = 0 \/ naive <= 0
  BY <1>1 DEF CompactionCut, ConversationTypeOK
<1>2. CASE ~(MaxHistoryItems = 0 \/ naive <= 0)
  <2>1. naive \in Nat /\ naive <= Len(items)
    BY <1>2, CompactionAssumption DEF ConversationTypeOK
  <2>2. S \in SUBSET (0..naive) /\ S # {}
    BY <2>1
  <2>3. CompactionCut = Max(S)
    BY <1>2 DEF CompactionCut
  <2> HIDE DEF S, naive
  <2>4. Max(S) \in 0..naive
    BY <2>1, <2>2, MaxProperties
  <2> QED
    BY <2>1, <2>3, <2>4 DEF ConversationTypeOK
<1> QED
  BY <1>1, <1>2

-----------------------------------------------------------------------------
(***************************************************************************)
(* What happens to the items.                                              *)
(***************************************************************************)
\* Every item has a number that was given out.
LEMMA IdsGiven ==
    ASSUME Kept
    PROVE  /\ items \in Seq(ItemRecord) /\ Len(items) \in Nat /\ DOMAIN items = 1..Len(items)
           /\ \A i \in 1..Len(items) : items[i] \in ItemRecord /\ items[i].id \in 1..added
           /\ added \in Nat
<1>1. items \in Seq(ItemRecord) /\ added \in Nat
  BY DEF Kept, ConversationTypeOK, ItemRecord
<1>2. DOMAIN items = 1..Len(items) /\ Len(items) \in Nat
  BY <1>1
<1>3. \A i \in 1..Len(items) : items[i] \in ItemRecord
  BY <1>1
<1>4. Ids(items) \subseteq 1..added
  BY DEF Kept, NothingForgotten
<1> QED
  BY <1>1, <1>2, <1>3, <1>4 DEF Ids

\* A new item is the newest.
LEMMA AppendKeepsItems ==
    ASSUME Kept, NEW kind \in Kind, NEW of \in Nat, Append1(kind, of)
    PROVE  /\ items' \in Seq(ItemRecord) /\ added' = added + 1 /\ added' \in Nat
           /\ UNCHANGED <<memory, dropped>>
           /\ NothingForgotten' /\ MemoryIsOlder'
<1> DEFINE x == Item(added + 1, kind, of)
<1>1. added' = added + 1 /\ added' \in Nat /\ UNCHANGED <<memory, dropped>>
  BY IdsGiven DEF Append1
<1>2. x \in ItemRecord /\ x.id = added + 1
  BY IdsGiven DEF Item, ItemRecord
<1> HIDE DEF x
<1>3. items' = Append(items, x)
  BY DEF Append1, x
<1>4. /\ items' \in Seq(ItemRecord) /\ Len(items') = Len(items) + 1
      /\ DOMAIN items' = 1..(Len(items) + 1)
      /\ \A i \in 1..Len(items) : items'[i] = items[i]
      /\ items'[Len(items) + 1] = x
  BY <1>2, <1>3, IdsGiven
<1>5. Ids(items') = Ids(items) \cup {added + 1}
  <2>1. \A i \in 1..(Len(items) + 1) : i \in 1..Len(items) \/ i = Len(items) + 1
    BY IdsGiven
  <2>2. 1..Len(items) \subseteq 1..(Len(items) + 1) /\ Len(items) + 1 \in 1..(Len(items) + 1)
    BY IdsGiven
  <2> QED
    BY <1>2, <1>4, <2>1, <2>2, IdsGiven DEF Ids
<1>6. /\ 1..(added + 1) = 1..added \cup {added + 1}
      /\ added + 1 \notin 1..added
  BY IdsGiven
<1>7. NothingForgotten'
  BY <1>1, <1>5, <1>6 DEF NothingForgotten, Kept
<1>8. MemoryIsOlder'
  <2>1. memory \subseteq 1..added
    BY DEF Kept, ConversationTypeOK
  <2>2. \A i \in 1..Len(items) : items[i].id < added + 1
    BY IdsGiven
  <2>3. \A m \in memory : m < added + 1
    BY <2>1, IdsGiven
  <2>4. \A i, j \in 1..(Len(items) + 1) : i < j => i \in 1..Len(items)
    BY IdsGiven
  <2>5. \A j \in 1..(Len(items) + 1) : j \in 1..Len(items) \/ j = Len(items) + 1
    BY IdsGiven
  <2>6. \A i, j \in 1..Len(items) : i < j => items[i].id < items[j].id
    BY IdsGiven DEF Kept, MemoryIsOlder
  <2>7. \A m \in memory : \A i \in 1..Len(items) : m < items[i].id
    BY IdsGiven DEF Kept, MemoryIsOlder
  <2>8. \A i, j \in DOMAIN items' : i < j => items'[i].id < items'[j].id
    BY <1>2, <1>4, <2>2, <2>4, <2>5, <2>6
  <2>9. \A m \in memory' : \A i \in DOMAIN items' : m < items'[i].id
    BY <1>1, <1>2, <1>4, <2>3, <2>5, <2>7
  <2> QED
    BY <2>8, <2>9 DEF MemoryIsOlder
<1> QED
  BY <1>1, <1>4, <1>7, <1>8

\* Exactly the item that is dropped leaves the items.
LEMMA RemoveKeepsItems ==
    ASSUME Kept, NEW id, Remove1(id)
    PROVE  /\ items' \in Seq(ItemRecord) /\ UNCHANGED <<added, memory>>
           /\ dropped' \subseteq 1..added
           /\ NothingForgotten' /\ MemoryIsOlder'
<1>1. UNCHANGED <<added, memory>> /\ dropped' = dropped \cup ({id} \cap Ids(items))
  BY DEF Remove1
<1>2. dropped' \subseteq 1..added
  <2>1. Ids(items) \subseteq 1..added /\ dropped \subseteq 1..added
    BY DEF Kept, NothingForgotten
  <2> QED
    BY <1>1, <2>1
<1>3. CASE id \notin Ids(items) /\ UNCHANGED items
  <2>1. dropped' = dropped
    BY <1>1, <1>3
  <2> QED
    BY <1>1, <1>2, <1>3, <2>1, IdsGiven DEF Kept, NothingForgotten, MemoryIsOlder
<1>4. ASSUME NEW i \in DOMAIN items, items[i].id = id, items' = RemoveAt(items, i)
      PROVE  items' \in Seq(ItemRecord) /\ NothingForgotten' /\ MemoryIsOlder'
  <2>1. i \in 1..Len(items) /\ Len(items) \in Nat
    BY IdsGiven
  <2>2. /\ items' \in Seq(ItemRecord) /\ Len(items') = Len(items) - 1
        /\ \A j \in 1..(Len(items) - 1) : items'[j] = IF j < i THEN items[j] ELSE items[j + 1]
    BY <1>4, <2>1, IdsGiven, RemoveAtProperties
  <2>3. DOMAIN items' = 1..(Len(items) - 1)
    BY <2>2
  <2>4. \A j, k \in 1..Len(items) : j < k => items[j].id < items[k].id
    BY IdsGiven DEF Kept, MemoryIsOlder
  <2>5. \A j \in 1..Len(items) : items[j].id \in Nat
    BY IdsGiven
  <2>6. \A j \in 1..(Len(items) - 1) :
            \E k \in 1..Len(items) : k # i /\ items'[j] = items[k]
                                     /\ (j < i => k = j) /\ (~(j < i) => k = j + 1)
    <3> SUFFICES ASSUME NEW j \in 1..(Len(items) - 1)
                 PROVE  \E k \in 1..Len(items) : k # i /\ items'[j] = items[k]
                            /\ (j < i => k = j) /\ (~(j < i) => k = j + 1)
      OBVIOUS
    <3>1. CASE j < i
      <4>1. j \in 1..Len(items) /\ j # i
        BY <2>1, <3>1
      <4> QED
        BY <2>2, <3>1, <4>1
    <3>2. CASE ~(j < i)
      <4>1. j + 1 \in 1..Len(items) /\ j + 1 # i
        BY <2>1, <3>2
      <4> QED
        BY <2>2, <3>2, <4>1
    <3> QED
      BY <3>1, <3>2
  <2>7. ASSUME NEW k \in 1..Len(items), k # i
        PROVE  \E j \in 1..(Len(items) - 1) : items'[j] = items[k]
    <3>1. CASE k < i
      <4>1. k \in 1..(Len(items) - 1)
        BY <2>1, <3>1
      <4> QED
        BY <2>2, <3>1, <4>1
    <3>2. CASE ~(k < i)
      <4>1. k - 1 \in 1..(Len(items) - 1) /\ ~(k - 1 < i) /\ (k - 1) + 1 = k
        BY <2>1, <2>7, <3>2
      <4> QED
        BY <2>2, <4>1
    <3> QED
      BY <3>1, <3>2
  <2>8. \A k \in 1..Len(items) : k # i => items[k].id # id
    BY <1>4, <2>1, <2>4, <2>5
  <2>9. Ids(items') = Ids(items) \ {id}
    <3>1. ASSUME NEW n \in Ids(items') PROVE n \in Ids(items) \ {id}
      <4>1. PICK j \in 1..(Len(items) - 1) : n = items'[j].id
        BY <2>3, <3>1 DEF Ids
      <4>2. PICK k \in 1..Len(items) : k # i /\ items'[j] = items[k]
        BY <2>6
      <4> QED
        BY <2>8, <4>1, <4>2, IdsGiven DEF Ids
    <3>2. ASSUME NEW n \in Ids(items) \ {id} PROVE n \in Ids(items')
      <4>1. PICK k \in 1..Len(items) : n = items[k].id
        BY <3>2, IdsGiven DEF Ids
      <4>2. k # i
        BY <1>4, <3>2, <4>1
      <4>3. PICK j \in 1..(Len(items) - 1) : items'[j] = items[k]
        BY <2>7, <4>2
      <4> QED
        BY <2>3, <4>1, <4>3 DEF Ids
    <3> QED
      BY <3>1, <3>2
  <2>10. id \in Ids(items)
    BY <1>4 DEF Ids
  <2>11. NothingForgotten'
    BY <1>1, <2>9, <2>10 DEF Kept, NothingForgotten
  <2>12. ASSUME NEW j \in DOMAIN items', NEW k \in DOMAIN items', j < k
         PROVE  items'[j].id < items'[k].id
    <3>1. j \in 1..(Len(items) - 1) /\ k \in 1..(Len(items) - 1)
      BY <2>3
    <3>2. PICK a \in 1..Len(items) : items'[j] = items[a]
                    /\ (j < i => a = j) /\ (~(j < i) => a = j + 1)
      BY <2>6, <3>1
    <3>3. PICK b \in 1..Len(items) : items'[k] = items[b]
                    /\ (k < i => b = k) /\ (~(k < i) => b = k + 1)
      BY <2>6, <3>1
    <3>4. a < b
      BY <2>1, <2>12, <3>1, <3>2, <3>3
    <3> QED
      BY <2>4, <3>2, <3>3, <3>4
  <2>13. ASSUME NEW m \in memory', NEW j \in DOMAIN items'
         PROVE  m < items'[j].id
    <3>1. PICK k \in 1..Len(items) : items'[j] = items[k]
      BY <2>3, <2>6
    <3> QED
      BY <1>1, <3>1, IdsGiven DEF Kept, MemoryIsOlder
  <2> QED
    BY <2>2, <2>11, <2>12, <2>13 DEF MemoryIsOlder
<1> QED
  BY <1>1, <1>2, <1>3, <1>4 DEF Remove1

\* What is left of s without its first n elements.
LEMMA TailProperties ==
    ASSUME NEW S, NEW s \in Seq(S), NEW n \in 0..Len(s)
    PROVE  /\ SubSeq(s, n + 1, Len(s)) \in Seq(S)
           /\ Len(SubSeq(s, n + 1, Len(s))) = Len(s) - n
           /\ \A j \in 1..(Len(s) - n) : SubSeq(s, n + 1, Len(s))[j] = s[n + j]
OBVIOUS

\* A summary that is committed replaces the oldest items, the very ones it is of.
LEMMA CommitKeepsItems ==
    ASSUME Kept, compactor = "commit", PrefixMatches,
           memory' = prior \cup Ids(overflow),
           items' = SubSeq(items, Len(overflow) + 1, Len(items)),
           UNCHANGED <<added, dropped>>
    PROVE  /\ items' \in Seq(ItemRecord) /\ memory' \subseteq 1..added
           /\ NothingForgotten' /\ MemoryIsOlder'
<1> DEFINE n == Len(overflow)
           l == Len(items)
<1>1. overflow \in Seq(ItemRecord) /\ n \in Nat /\ DOMAIN overflow = 1..n
  BY DEF Kept, ConversationTypeOK, ItemRecord
<1>2. l \in Nat /\ n <= l /\ DOMAIN items = 1..l /\ items \in Seq(ItemRecord)
  BY IdsGiven DEF PrefixMatches
<1>3. \A i \in 1..n : items[i].id = overflow[i].id
  BY <1>1 DEF PrefixMatches
<1>s. items' = SubSeq(items, n + 1, l)
  OBVIOUS
<1> HIDE DEF n, l
<1>4. /\ items' \in Seq(ItemRecord) /\ Len(items') = l - n
      /\ \A j \in 1..(l - n) : items'[j] = items[n + j]
  <2>1. n \in 0..Len(items)
    BY <1>1, <1>2 DEF l
  <2> QED
    BY <1>2, <1>s, <2>1, TailProperties DEF l
<1>5. DOMAIN items' = 1..(l - n)
  <2>1. DOMAIN items' = 1..Len(items')
    BY <1>4
  <2> QED
    BY <1>4, <2>1
<1>6. \A i, j \in 1..l : i < j => items[i].id < items[j].id
  BY <1>2 DEF Kept, MemoryIsOlder
<1>7. \A i \in 1..l : items[i].id \in Nat /\ items[i].id \in 1..added
  BY <1>2, IdsGiven DEF l
<1>8. 1..n \subseteq 1..l
  BY <1>1, <1>2
<1>9. Ids(overflow) = {items[i].id : i \in 1..n}
  BY <1>1, <1>3 DEF Ids
<1>10. \A j \in 1..(l - n) : n + j \in 1..l /\ \A i \in 1..n : i < n + j
  BY <1>1, <1>2
<1>11. Ids(items') = {items[n + j].id : j \in 1..(l - n)}
  BY <1>4, <1>5 DEF Ids
<1>12. Ids(items) = Ids(overflow) \cup Ids(items')
  <2>1. ASSUME NEW k \in 1..l PROVE k \in 1..n \/ \E j \in 1..(l - n) : k = n + j
    <3>1. CASE k <= n
      BY <1>1, <3>1
    <3>2. CASE ~(k <= n)
      <4>1. k - n \in 1..(l - n) /\ k = n + (k - n)
        BY <1>1, <1>2, <3>2
      <4> QED
        BY <4>1
    <3> QED
      BY <3>1, <3>2
  <2>2. Ids(items) = {items[k].id : k \in 1..l}
    BY <1>2 DEF Ids
  <2> QED
    BY <1>8, <1>9, <1>10, <1>11, <2>1, <2>2
<1>13. \A m \in Ids(overflow) : \A j \in 1..(l - n) : m < items[n + j].id
  BY <1>6, <1>8, <1>9, <1>10
<1>14. Ids(overflow) \cap Ids(items') = {}
  <2>1. \A m \in Ids(overflow) : m \in Nat
    BY <1>7, <1>8, <1>9
  <2>2. \A m, k \in Nat : m < k => m # k
    OBVIOUS
  <2> QED
    BY <1>7, <1>10, <1>11, <1>13, <2>1, <2>2
<1>15. memory' = memory \cup Ids(overflow)
  BY DEF Kept
<1>16. NothingForgotten'
  BY <1>12, <1>14, <1>15 DEF Kept, NothingForgotten
<1>17. memory' \subseteq 1..added
  BY <1>12, <1>15 DEF Kept, NothingForgotten
<1>18. ASSUME NEW i \in DOMAIN items', NEW j \in DOMAIN items', i < j
       PROVE  items'[i].id < items'[j].id
  <2>1. i \in 1..(l - n) /\ j \in 1..(l - n)
    BY <1>5
  <2>2. n + i < n + j
    BY <1>1, <1>18, <2>1
  <2> QED
    BY <1>4, <1>6, <1>10, <2>1, <2>2
<1>19. ASSUME NEW m \in memory', NEW j \in DOMAIN items'
       PROVE  m < items'[j].id
  <2>1. j \in 1..(l - n)
    BY <1>5
  <2>2. CASE m \in memory
    BY <1>2, <1>4, <1>10, <2>1, <2>2 DEF Kept, MemoryIsOlder
  <2>3. CASE m \in Ids(overflow)
    BY <1>4, <1>13, <2>1, <2>3
  <2> QED
    BY <1>15, <2>2, <2>3
<1> QED
  BY <1>4, <1>16, <1>17, <1>18, <1>19 DEF MemoryIsOlder

-----------------------------------------------------------------------------
(***************************************************************************)
(* The steps.  For the conversation each is one of these.                  *)
(***************************************************************************)
ItemStep ==
    /\ \/ UNCHANGED itemVars
       \/ \E kind \in Kind, of \in Nat : Append1(kind, of)
       \/ \E id : Remove1(id)
    /\ UNCHANGED compactionVars

CoordinatorStep ==
    /\ UNCHANGED itemVars
    /\ \/ Trigger
       \/ compaction' = "Terminated" /\ UNCHANGED <<compactor, overflow, prior>>

LEMMA StepKinds ==
    ASSUME Kept, [Next]_vars
    PROVE  /\ ItemStep \/ CoordinatorStep \/ Compact
           /\ call' \in [Response -> Nat]
<1> USE DEF Kept, ItemStep, CoordinatorStep, conversationVars, responseVars, bodyVars, Kind
<1>0. added \in Nat /\ added + 1 \in Nat /\ 0 \in Nat
  BY DEF ConversationTypeOK
<1>1. CASE UNCHANGED vars
  BY <1>1 DEF vars
<1>2. CASE Close \/ StartVAD \/ StopVAD \/ CreateResponse \/ CommitAudio \/ CancelEvent
  BY <1>2 DEF Close, StartVAD, StopVAD, CreateResponse, CommitAudio, CancelEvent, Issue,
     CancelResponse
<1>3. CASE CreateItem
  <2>1. call' \in [Response -> Nat] /\ UNCHANGED compactionVars
    BY <1>3 DEF CreateItem
  <2>2. CASE Append1("message", 0)
    BY <2>1, <2>2
  <2>3. CASE \E i \in DOMAIN items : Append1("output", items[i].id)
    <3>1. \A i \in DOMAIN items : items[i].id \in Nat
      BY IdsGiven
    <3> QED
      BY <2>1, <2>3, <3>1
  <2> QED
    BY <1>3, <2>2, <2>3 DEF CreateItem
<1>4. CASE DeleteItem
  BY <1>4 DEF DeleteItem
<1>5. CASE Teardown
  BY <1>5 DEF Teardown, ShutdownResponses, CancelCompaction, ShutdownCompaction, DeleteSession
<1>6. ASSUME NEW v \in VAD, Detect(v)
      PROVE  ItemStep /\ call' = call
  BY <1>6 DEF Detect, ScanReturns, Tick, ScanQuiet, NoSpeech, Onset, StillSpeaking,
     KeepListening, CommitTurn, VADReturns, VADContextEnds, Issue, CancelResponse
<1>7. ASSUME NEW r \in Response, CallReturns(r) PROVE ItemStep /\ call' \in [Response -> Nat]
  <2>1. CASE UtteranceDropped(r) \/ PredictFails(r) \/ PredictReturns(r) \/ StreamReturns(r)
             \/ Spoken(r)
    BY <2>1 DEF UtteranceDropped, PredictFails, PredictReturns, StreamReturns, Spoken
  <2>2. CASE Transcribed(r) \/ Announce(r)
    BY <1>0, <2>2 DEF Transcribed, Announce
  <2>3. CASE StreamFails(r) \/ SpeechFails(r)
    BY <2>3 DEF StreamFails, SpeechFails, RollBack, Fail
  <2>4. CASE Execute(r)
    <3>1. call[r] \in Nat /\ Append1("output", call[r]) /\ UNCHANGED compactionVars
      BY <2>4 DEF Execute
    <3>2. call' \in [Response -> Nat]
      BY <2>4 DEF Execute
    <3> QED
      BY <3>1, <3>2
  <2> QED
    BY <1>7, <2>1, <2>2, <2>3, <2>4 DEF CallReturns
<1>8. ASSUME NEW r \in Response, Proceed(r)
      PROVE  (ItemStep \/ CoordinatorStep) /\ call' \in [Response -> Nat]
  <2>1. CASE Enter(r) \/ SaysNothing(r) \/ FollowUp(r) \/ ToolsDone(r) \/ Exit(r) \/ Finish(r)
    BY <2>1 DEF Enter, SaysNothing, FollowUp, ToolsDone, Exit, Finish
  <2>2. CASE AppendReply(r) \/ ClientCall(r)
    BY <1>0, <2>2 DEF AppendReply, ClientCall
  <2>3. CASE AssistantCall(r)
    <3>1. Append1("call", 0) /\ UNCHANGED compactionVars /\ call' = [call EXCEPT ![r] = added + 1]
      BY <2>3 DEF AssistantCall
    <3>2. call' \in [Response -> Nat]
      BY <1>0, <3>1
    <3> QED
      BY <1>0, <3>1, <3>2
  <2>4. CASE TriggerCompaction(r)
    BY <2>4 DEF TriggerCompaction
  <2> QED
    BY <1>8, <2>1, <2>2, <2>3, <2>4 DEF Proceed
<1>9. CASE Compacting
  BY <1>9 DEF Compacting
<1> QED
  BY <1>1, <1>2, <1>3, <1>4, <1>5, <1>6, <1>7, <1>8, <1>9 DEF Next, Event

\* The typing of a step that changes items only.
LEMMA ItemStepKeeps ==
    ASSUME Kept, ItemStep, call' \in [Response -> Nat]
    PROVE  Kept'
<1> USE DEF ItemStep, itemVars, compactionVars
<1>1. CASE UNCHANGED itemVars
  BY <1>1 DEF Kept, ConversationTypeOK, NothingForgotten, MemoryIsOlder, Ids
<1>2. ASSUME NEW kind \in Kind, NEW of \in Nat, Append1(kind, of) PROVE Kept'
  <2>1. /\ items' \in Seq(ItemRecord) /\ added' = added + 1 /\ added' \in Nat
        /\ UNCHANGED <<memory, dropped>> /\ NothingForgotten' /\ MemoryIsOlder'
    BY <1>2, AppendKeepsItems
  <2>2. 1..added \subseteq 1..added'
    BY <2>1, IdsGiven
  <2> QED
    BY <2>1, <2>2 DEF Kept, ConversationTypeOK, ItemRecord
<1>3. ASSUME NEW id, Remove1(id) PROVE Kept'
  <2>1. /\ items' \in Seq(ItemRecord) /\ UNCHANGED <<added, memory>>
        /\ dropped' \subseteq 1..added /\ NothingForgotten' /\ MemoryIsOlder'
    BY <1>3, RemoveKeepsItems
  <2> QED
    BY <2>1 DEF Kept, ConversationTypeOK, ItemRecord
<1> QED
  BY <1>1, <1>2, <1>3

\* The compaction works on a copy of the oldest items, and commits once.
LEMMA CompactKeeps ==
    ASSUME Kept, Compact, call' \in [Response -> Nat]
    PROVE  Kept'
<1> USE DEF itemVars, compactionVars
<1>1. CASE Snapshot
  <2>1. UNCHANGED <<itemVars, compaction>> /\ NothingForgotten' /\ MemoryIsOlder'
    BY <1>1 DEF Snapshot, Kept, NothingForgotten, MemoryIsOlder, Ids
  <2>2. CASE Over /\ CompactionCut > 0
    <3>1. CompactionCut \in 1..Len(items)
      BY <2>2, CutInItems, IdsGiven DEF Kept
    <3>2. overflow' = SubSeq(items, 1, CompactionCut) /\ prior' = memory /\ compactor' = "summarize"
      BY <1>1, <2>2 DEF Snapshot
    <3>3. overflow' \in Seq(ItemRecord)
      BY <3>1, <3>2, IdsGiven
    <3> QED
      BY <2>1, <3>2, <3>3 DEF Kept, ConversationTypeOK, ItemRecord
  <2>3. CASE ~(Over /\ CompactionCut > 0)
    <3>1. UNCHANGED <<overflow, prior>> /\ compactor' = "finish"
      BY <1>1, <2>3 DEF Snapshot
    <3> QED
      BY <2>1, <3>1 DEF Kept, ConversationTypeOK
  <2> QED
    BY <2>2, <2>3
<1>2. CASE SummaryArrives \/ SummaryFails
  BY <1>2 DEF SummaryArrives, SummaryFails, Kept, ConversationTypeOK, NothingForgotten,
     MemoryIsOlder, Ids
<1>3. CASE Commit
  <2>1. /\ UNCHANGED <<added, dropped, compaction, overflow, prior>>
        /\ compactor = "commit" /\ compactor' = "finish"
    BY <1>3 DEF Commit
  <2>2. CASE PrefixMatches
    <3>1. /\ memory' = prior \cup Ids(overflow)
          /\ items' = SubSeq(items, Len(overflow) + 1, Len(items))
      BY <1>3, <2>2 DEF Commit
    <3>2. /\ items' \in Seq(ItemRecord) /\ memory' \subseteq 1..added
          /\ NothingForgotten' /\ MemoryIsOlder'
      BY <2>1, <2>2, <3>1, CommitKeepsItems
    <3> QED
      BY <2>1, <3>2 DEF Kept, ConversationTypeOK, ItemRecord
  <2>3. CASE ~PrefixMatches
    <3>1. UNCHANGED <<memory, items>>
      BY <1>3, <2>3 DEF Commit
    <3> QED
      BY <2>1, <3>1 DEF Kept, ConversationTypeOK, NothingForgotten, MemoryIsOlder, Ids
  <2> QED
    BY <2>2, <2>3
<1>4. CASE CompactionFinished
  <2>1. <<>> \in Seq([id : Nat, kind : Kind, of : Nat])
    BY EmptySeq
  <2> QED
    BY <1>4, <2>1 DEF CompactionFinished, Kept, ConversationTypeOK, NothingForgotten,
       MemoryIsOlder, Ids
<1> QED
  BY <1>1, <1>2, <1>3, <1>4 DEF Compact

LEMMA StepKept == Kept /\ [Next]_vars => Kept'
<1> SUFFICES ASSUME Kept, [Next]_vars PROVE Kept'
  OBVIOUS
<1>1. call' \in [Response -> Nat]
  BY StepKinds
<1>2. CASE CoordinatorStep
  BY <1>1, <1>2 DEF CoordinatorStep, Trigger, itemVars, compactionVars, Kept,
     ConversationTypeOK, NothingForgotten, MemoryIsOlder, Ids
<1> QED
  BY <1>1, <1>2, StepKinds, ItemStepKeeps, CompactKeeps

LEMMA InitKept == Init => Kept
<1> SUFFICES ASSUME Init PROVE Kept
  OBVIOUS
<1>1. <<>> \in Seq([id : Nat, kind : Kind, of : Nat]) /\ DOMAIN <<>> = {}
  BY EmptySeq
<1>2. Ids(items) = {} /\ 1..added = {}
  BY <1>1 DEF Init, ConversationInit, Ids
<1> QED
  BY <1>1, <1>2 DEF Init, ConversationInit, Kept, ConversationTypeOK, NothingForgotten,
     MemoryIsOlder

LEMMA ConversationInvariance == Spec => []Kept
BY InitKept, StepKept, PTL DEF Spec

(***************************************************************************)
(* However many responses append and roll back, and whatever the client    *)
(* adds and deletes while a summary is made: every item is live, in the    *)
(* memory, or was dropped, and it is in one of these places only           *)
(* (Session.compact, "never dropped without a summary").                   *)
(***************************************************************************)
THEOREM NothingIsForgotten == Spec => []NothingForgotten
<1>1. Kept => NothingForgotten
  BY DEF Kept
<1> QED
  BY <1>1, ConversationInvariance, PTL

(***************************************************************************)
(* The live items are in the order of their arrival, and the memory is of  *)
(* older ones (compactionCut, prefixMatches).                              *)
(***************************************************************************)
THEOREM MemoryStaysOlder == Spec => []MemoryIsOlder
<1>1. Kept => MemoryIsOlder
  BY DEF Kept
<1> QED
  BY <1>1, ConversationInvariance, PTL
=============================================================================
