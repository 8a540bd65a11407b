--------------------------- MODULE RealtimeSession ---------------------------
(***************************************************************************)
(* One realtime session: the goroutine that reads the client's events and  *)
(* tears the session down, the turn-detection goroutines, the response     *)
(* coordinator with its goroutines, and the compaction of the conversation *)
(* (realtime.go, realtime_conncoord.go, realtime_respcoord.go,             *)
(* realtime_turncoord.go and the packages of their coordinators).          *)
(*                                                                         *)
(* An Apply on a coordinator, a critical section of conv.Lock and a call   *)
(* of a model are one action each.  The audio is left out: what a tick of  *)
(* turn detection finds in it is a choice.                                 *)
(***************************************************************************)
EXTENDS Conversation

CONSTANTS
    MaxItems,           \* bound: items after which the client adds none
    MaxCallItems,       \* bound: items after which models call no tool
    MaxDeletes,         \* bound: items that are dropped while the client deletes one
    MaxVADs,            \* bound: runs of the turn-detection goroutine
    MaxResponses,       \* bound: responses that are issued
    maxAssistantToolTurns,
    StreamLLM,          \* whether replies are streamed
    TokenLimits,        \* values of max_output_tokens of the requests
    NoLimit             \* no max_output_tokens

VAD == 1..MaxVADs

Response == 1..MaxResponses

NoVAD == 0

NoResponse == 0

Terminated == MaxResponses + 1

ASSUME SessionAssumption ==
    /\ MaxItems \in Nat
    /\ MaxCallItems \in Nat
    /\ MaxDeletes \in Nat
    /\ MaxVADs \in Nat
    /\ MaxResponses \in Nat
    /\ maxAssistantToolTurns \in Nat \ {0}
    /\ StreamLLM \in BOOLEAN
    /\ NoLimit \in TokenLimits

VARIABLES
    conn,               \* the step the session goroutine is about to take
    detector,           \* the VAD run whose vadDone the connection holds
    detectors,          \* number of VAD runs so far
    vpc,                \* vpc[v]: the step of handleVAD's goroutine
    vadDone,            \* runs whose done channel is closed
    vadEnded,           \* runs whose vadContext is cancelled
    speaking,           \* runs whose turn coordinator is Speaking
    resp,               \* the state of respcoord
    issued,             \* number of responses issued so far
    rpc,                \* rpc[r]: the step of the response goroutine
    parent,             \* parent[r]: the run whose vadContext is its parent
    cancelled,          \* responses whose own context is cancelled
    reply,              \* reply[r]: the assistant item it is speaking
    call,               \* call[r]: the tool call it executes
    executed,           \* responses that ran a tool in this turn
    turn,               \* turn[r]: its toolTurn
    outcome,            \* outcome[r]: r.outcome
    limit,              \* limit[r]: max_output_tokens of its request
    saved,              \* saved[r]: originalMaxTokens of its first turn
    maxTokens           \* Maxtokens of the model's configuration

vadVars == <<vpc, vadDone, vadEnded, speaking>>
connVars == <<conn, detector, detectors>>
bodyVars == <<reply, call, executed, turn, outcome>>
limitVars == <<limit, saved, maxTokens>>
responseVars == <<resp, issued, rpc, parent, cancelled, bodyVars, limitVars>>
vars == <<conversationVars, connVars, vadVars, responseVars>>

\* Steps of a response goroutine that waits for a model or a tool.
CallSteps == {"transcribe", "predict", "streaming", "speak", "execute"}

RPC == CallSteps \cup
    {"none", "enter", "predicted", "tools", "exit", "trigger", "finish", "gone"}

TypeOK ==
    /\ ConversationTypeOK
    /\ conn \in {"serving", "joinInputs", "joinResponses", "joinCompaction",
                 "delete", "returned"}
    /\ detector \in VAD \cup {NoVAD}
    /\ detectors \in 0..MaxVADs
    /\ vpc \in [VAD -> {"none", "select", "scan", "heard", "returned"}]
    /\ vadDone \subseteq VAD
    /\ vadEnded \subseteq vadDone
    /\ speaking \subseteq VAD
    /\ resp \in Response \cup {NoResponse, Terminated}
    /\ issued \in 0..MaxResponses
    /\ rpc \in [Response -> RPC]
    /\ parent \in [Response -> VAD \cup {NoVAD}]
    /\ cancelled \subseteq Response
    /\ reply \in [Response -> Nat]
    /\ call \in [Response -> Nat]
    /\ executed \subseteq Response
    /\ turn \in [Response -> 0..maxAssistantToolTurns - 1]
    /\ outcome \in [Response -> {"completed", "cancelled", "failed"}]
    /\ limit \in [Response -> TokenLimits]
    /\ saved \in [Response -> TokenLimits]
    /\ maxTokens \in TokenLimits

Init ==
    /\ ConversationInit
    /\ conn = "serving"
    /\ detector = NoVAD
    /\ detectors = 0
    /\ vpc = [v \in VAD |-> "none"]
    /\ vadDone = {}
    /\ vadEnded = {}
    /\ speaking = {}
    /\ resp = NoResponse
    /\ issued = 0
    /\ rpc = [r \in Response |-> "none"]
    /\ parent = [r \in Response |-> NoVAD]
    /\ cancelled = {}
    /\ reply = [r \in Response |-> 0]
    /\ call = [r \in Response |-> 0]
    /\ executed = {}
    /\ turn = [r \in Response |-> 0]
    /\ outcome = [r \in Response |-> "completed"]
    /\ limit = [r \in Response |-> NoLimit]
    /\ saved = [r \in Response |-> NoLimit]
    /\ maxTokens = NoLimit

Running == {r \in Response : rpc[r] \notin {"none", "gone"}}

Detecting == {v \in VAD : vpc[v] \notin {"none", "returned"}}

\* ctx.Err() # nil in the body of r.
Cancelled(r) == r \in cancelled \/ parent[r] \in vadEnded

-----------------------------------------------------------------------------
(***************************************************************************)
(* The response coordinator (respcoord.Next and responseSink).             *)
(***************************************************************************)

\* Wrong form: a new response does not cancel the old one.
IssueBeside(v, step, tokens) ==
    /\ issued < MaxResponses
    /\ issued' = issued + 1
    /\ IF resp = Terminated
       THEN UNCHANGED <<resp, rpc, parent, cancelled, limit>>
       ELSE /\ resp' = issued'
            /\ rpc' = [rpc EXCEPT ![issued'] = step]
            /\ parent' = [parent EXCEPT ![issued'] = v]
            /\ limit' = [limit EXCEPT ![issued'] = tokens]
            /\ UNCHANGED cancelled
    /\ UNCHANGED <<bodyVars, saved, maxTokens>>

(***************************************************************************)
(* responseSink.issue: Apply(Start).  A response in flight is superseded,  *)
(* its goroutine keeps running on a cancelled context.  After Shutdown     *)
(* nothing starts.                                                         *)
(***************************************************************************)
Issue(v, step, tokens) ==
    /\ issued < MaxResponses
    /\ issued' = issued + 1
    /\ IF resp = Terminated
       THEN UNCHANGED <<resp, rpc, parent, cancelled, limit>>
       ELSE /\ resp' = issued'
            /\ rpc' = [rpc EXCEPT ![issued'] = step]
            /\ parent' = [parent EXCEPT ![issued'] = v]
            /\ limit' = [limit EXCEPT ![issued'] = tokens]
            /\ cancelled' = cancelled \cup ({resp} \cap Response)
    /\ UNCHANGED <<bodyVars, saved, maxTokens>>

\* Apply(Cancel): a barge-in or response.cancel.
CancelResponse ==
    /\ resp' = IF resp = Terminated THEN Terminated ELSE NoResponse
    /\ cancelled' = cancelled \cup ({resp} \cap Response)
    /\ UNCHANGED <<issued, rpc, parent, bodyVars, limitVars>>

\* delete(s.cancels, id) and Apply(Finished), stale unless r is active.
Finish(r) ==
    /\ rpc[r] = "finish"
    /\ rpc' = [rpc EXCEPT ![r] = "gone"]
    /\ resp' = IF resp = r THEN NoResponse ELSE resp
    /\ cancelled' = cancelled \ {r}
    /\ parent' = [parent EXCEPT ![r] = NoVAD]
    /\ UNCHANGED <<conversationVars, connVars, vadVars, issued, bodyVars, limitVars>>

-----------------------------------------------------------------------------
(***************************************************************************)
(* The client's events.                                                    *)
(***************************************************************************)

\* session.update switches turn detection on: StartVAD.
StartVAD ==
    /\ conn = "serving"
    /\ detector = NoVAD
    /\ detectors < MaxVADs
    /\ detectors' = detectors + 1
    /\ detector' = detectors'
    /\ vpc' = [vpc EXCEPT ![detectors'] = "select"]
    /\ UNCHANGED <<conversationVars, conn, vadDone, vadEnded, speaking, responseVars>>

\* It switches turn detection off: StopVAD does not wait for the goroutine.
StopVAD ==
    /\ conn = "serving"
    /\ detector # NoVAD
    /\ vadDone' = vadDone \cup {detector}
    /\ detector' = NoVAD
    /\ UNCHANGED <<conversationVars, conn, detectors, vpc, vadEnded, speaking,
                   responseVars>>

\* conversation.item.create, with a message or the output of a tool call.
CreateItem ==
    /\ conn = "serving"
    /\ added < MaxItems
    /\ \/ Append1("message", 0)
       \/ \E i \in DOMAIN items : items[i].kind = "call" /\ Append1("output", items[i].id)
    /\ UNCHANGED <<compactionVars, connVars, vadVars, responseVars>>

\* conversation.item.delete
DeleteItem ==
    /\ conn = "serving"
    /\ Cardinality(dropped) < MaxDeletes
    /\ \E i \in DOMAIN items : Remove1(items[i].id)
    /\ UNCHANGED <<compactionVars, connVars, vadVars, responseVars>>

\* response.create; its additional items are CreateItem events before it.
CreateResponse ==
    /\ conn = "serving"
    /\ \E tokens \in TokenLimits : Issue(NoVAD, "enter", tokens)
    /\ UNCHANGED <<conversationVars, connVars, vadVars>>

\* input_audio_buffer.commit, refused while turn detection is active.
CommitAudio ==
    /\ conn = "serving"
    /\ detector = NoVAD
    /\ Issue(NoVAD, "transcribe", NoLimit)
    /\ UNCHANGED <<conversationVars, connVars, vadVars>>

\* response.cancel
CancelEvent ==
    /\ conn = "serving"
    /\ CancelResponse
    /\ UNCHANGED <<conversationVars, connVars, vadVars>>

Event ==
    \/ StartVAD \/ StopVAD \/ CreateItem \/ DeleteItem
    \/ CreateResponse \/ CommitAudio \/ CancelEvent

-----------------------------------------------------------------------------
(***************************************************************************)
(* The teardown.                                                           *)
(***************************************************************************)

\* Wrong form: the teardown does not stop turn detection.
CloseForgetsVAD ==
    /\ conn = "serving"
    /\ conn' = "joinInputs"
    /\ detector' = NoVAD
    /\ UNCHANGED <<conversationVars, detectors, vadVars, responseVars>>

\* ReadEvent fails: Apply(Close) closes vadDone, and the teardown begins.
Close ==
    /\ conn = "serving"
    /\ conn' = "joinInputs"
    /\ vadDone' = vadDone \cup ({detector} \cap VAD)
    /\ detector' = NoVAD
    /\ UNCHANGED <<conversationVars, detectors, vpc, vadEnded, speaking, responseVars>>

\* Wrong form: the goroutines of turn detection are not joined.
ShutdownResponsesEarly ==
    /\ conn = "joinInputs"
    /\ conn' = "joinResponses"
    /\ resp' = Terminated
    /\ cancelled' = cancelled \cup ({resp} \cap Response)
    /\ UNCHANGED <<conversationVars, detector, detectors, vadVars, issued, rpc,
                   parent, bodyVars, limitVars>>

\* s.wg.Wait() returns; respSink.shutdown applies Shutdown.
ShutdownResponses ==
    /\ conn = "joinInputs"
    /\ Detecting = {}
    /\ conn' = "joinResponses"
    /\ resp' = Terminated
    /\ cancelled' = cancelled \cup ({resp} \cap Response)
    /\ UNCHANGED <<conversationVars, detector, detectors, vadVars, issued, rpc,
                   parent, bodyVars, limitVars>>

\* Wrong form: the responses are not joined.
CancelCompactionEarly ==
    /\ conn = "joinResponses"
    /\ conn' = "joinCompaction"
    /\ UNCHANGED <<conversationVars, detector, detectors, vadVars, responseVars>>

\* respSink.wait returns; the compaction's context is cancelled.
CancelCompaction ==
    /\ conn = "joinResponses"
    /\ Running = {}
    /\ conn' = "joinCompaction"
    /\ UNCHANGED <<conversationVars, detector, detectors, vadVars, responseVars>>

\* The compaction's wg.Wait returns; Apply(Shutdown).
ShutdownCompaction ==
    /\ conn = "joinCompaction"
    /\ compactor = "none"
    /\ conn' = "delete"
    /\ compaction' = "Terminated"
    /\ UNCHANGED <<itemVars, compactor, overflow, prior, detector, detectors,
                   vadVars, responseVars>>

\* delete(sessions, sessionID)
DeleteSession ==
    /\ conn = "delete"
    /\ conn' = "returned"
    /\ UNCHANGED <<conversationVars, detector, detectors, vadVars, responseVars>>

Teardown ==
    ShutdownResponses \/ CancelCompaction \/ ShutdownCompaction \/ DeleteSession

-----------------------------------------------------------------------------
(***************************************************************************)
(* Turn detection (handleVAD, vadTick and the turn coordinator).           *)
(***************************************************************************)
Tick(v) ==
    /\ vpc[v] = "select"
    /\ vpc' = [vpc EXCEPT ![v] = "scan"]
    /\ UNCHANGED <<conversationVars, connVars, vadDone, vadEnded, speaking,
                   responseVars>>

\* Too little audio, a failed scan, or silence in an open turn.
ScanQuiet(v) ==
    /\ vpc[v] = "scan"
    /\ vpc' = [vpc EXCEPT ![v] = "select"]
    /\ UNCHANGED <<conversationVars, connVars, vadDone, vadEnded, speaking,
                   responseVars>>

\* Apply(Abort): the turn that was opened is no speech after all.
NoSpeech(v) ==
    /\ vpc[v] = "scan"
    /\ v \in speaking
    /\ vpc' = [vpc EXCEPT ![v] = "select"]
    /\ speaking' = speaking \ {v}
    /\ UNCHANGED <<conversationVars, connVars, vadDone, vadEnded, responseVars>>

\* Apply(Onset) opens the turn and barges in.
Onset(v) ==
    /\ vpc[v] = "scan"
    /\ v \notin speaking
    /\ vpc' = [vpc EXCEPT ![v] = "heard"]
    /\ speaking' = speaking \cup {v}
    /\ CancelResponse
    /\ UNCHANGED <<conversationVars, connVars, vadDone, vadEnded>>

\* Apply(Onset) in a turn that is open changes nothing.
StillSpeaking(v) ==
    /\ vpc[v] = "scan"
    /\ v \in speaking
    /\ vpc' = [vpc EXCEPT ![v] = "heard"]
    /\ UNCHANGED <<conversationVars, connVars, vadDone, vadEnded, speaking,
                   responseVars>>

\* The segment is open, or the silence after it is too short.
KeepListening(v) ==
    /\ vpc[v] = "heard"
    /\ vpc' = [vpc EXCEPT ![v] = "select"]
    /\ UNCHANGED <<conversationVars, connVars, vadDone, vadEnded, speaking,
                   responseVars>>

\* vadCommit and Apply(Silence): CommitTurn issues the response.
CommitTurn(v) ==
    /\ vpc[v] \in {"scan", "heard"}
    /\ v \in speaking
    /\ vpc' = [vpc EXCEPT ![v] = "select"]
    /\ speaking' = speaking \ {v}
    /\ Issue(v, "transcribe", NoLimit)
    /\ UNCHANGED <<conversationVars, connVars, vadDone, vadEnded>>

\* <-done, and the deferred Apply(Abort).
VADReturns(v) ==
    /\ vpc[v] = "select"
    /\ v \in vadDone
    /\ vpc' = [vpc EXCEPT ![v] = "returned"]
    /\ speaking' = speaking \ {v}
    /\ UNCHANGED <<conversationVars, connVars, vadDone, vadEnded, responseVars>>

\* The helper goroutine of handleVAD: <-done, then cancel().
VADContextEnds(v) ==
    /\ v \in vadDone \ vadEnded
    /\ vadEnded' = vadEnded \cup {v}
    /\ UNCHANGED <<conversationVars, connVars, vpc, vadDone, speaking, responseVars>>

ScanReturns(v) ==
    \/ ScanQuiet(v) \/ NoSpeech(v) \/ Onset(v) \/ StillSpeaking(v)
    \/ CommitTurn(v)

Detect(v) ==
    \/ Tick(v) \/ ScanReturns(v) \/ KeepListening(v)
    \/ VADReturns(v) \/ VADContextEnds(v)

-----------------------------------------------------------------------------
(***************************************************************************)
(* The body of a response (commitUtterance, triggerResponse).              *)
(***************************************************************************)

\* r goes on; nothing but its own step and what is listed changes.
Step(r, from, to) ==
    /\ rpc[r] = from
    /\ rpc' = [rpc EXCEPT ![r] = to]
    /\ UNCHANGED <<connVars, vadVars, resp, issued, parent, cancelled>>

\* generateResponse appends what was said; its context is not looked at.
Transcribed(r) ==
    /\ Step(r, "transcribe", "enter")
    /\ Append1("message", 0)
    /\ UNCHANGED <<compactionVars, bodyVars, limitVars>>

\* Nothing was said, the transcription failed, or the speaker is rejected.
UtteranceDropped(r) ==
    /\ Step(r, "transcribe", "finish")
    /\ UNCHANGED <<conversationVars, bodyVars, limitVars>>

(***************************************************************************)
(* triggerResponseAtTurn sets Maxtokens of the configuration that all      *)
(* responses share, and remembers what it was.  A follow-up turn has no    *)
(* overrides, and the session itself has no limit.                         *)
(***************************************************************************)
Enter(r) ==
    /\ Step(r, "enter", "predict")
    /\ IF turn[r] = 0
       THEN /\ saved' = [saved EXCEPT ![r] = maxTokens]
            /\ maxTokens' = IF limit[r] = NoLimit THEN maxTokens ELSE limit[r]
       ELSE UNCHANGED <<saved, maxTokens>>
    /\ UNCHANGED <<conversationVars, bodyVars, limit>>

(***************************************************************************)
(* Predict fails.  Requests without audio are not streamed even where      *)
(* StreamLLM is configured; the streamed path leaves the outcome alone.    *)
(***************************************************************************)
PredictFails(r) ==
    /\ Step(r, "predict", "exit")
    /\ \/ outcome' = [outcome EXCEPT ![r] = "failed"]
       \/ StreamLLM /\ UNCHANGED outcome
    /\ UNCHANGED <<conversationVars, reply, call, executed, turn, limitVars>>

\* The buffered path has the whole prediction.
PredictReturns(r) ==
    /\ Step(r, "predict", IF Cancelled(r) THEN "exit" ELSE "predicted")
    /\ outcome' = [outcome EXCEPT ![r] = IF Cancelled(r) THEN "cancelled" ELSE @]
    /\ UNCHANGED <<conversationVars, reply, call, executed, turn, limitVars>>

\* The streamed path announces its item with the first token.
Announce(r) ==
    /\ StreamLLM
    /\ Step(r, "predict", "streaming")
    /\ Append1("message", 0)
    /\ reply' = [reply EXCEPT ![r] = added + 1]
    /\ UNCHANGED <<compactionVars, call, executed, turn, outcome, limitVars>>

\* removeItemFromConv and cancel of streamLLMResponse, with the outcome.
RollBack(r, from) ==
    /\ Step(r, from, "exit")
    /\ Cancelled(r)
    /\ Remove1(reply[r])
    /\ reply' = [reply EXCEPT ![r] = 0]
    /\ outcome' = [outcome EXCEPT ![r] = "cancelled"]
    /\ UNCHANGED <<compactionVars, call, executed, turn, limitVars>>

\* An error that is not a cancellation; the item stays where it is.
Fail(r, from) ==
    /\ Step(r, from, "exit")
    /\ ~Cancelled(r)
    /\ reply' = [reply EXCEPT ![r] = 0]
    /\ outcome' = [outcome EXCEPT ![r] = "failed"]
    /\ UNCHANGED <<conversationVars, call, executed, turn, limitVars>>

\* The stream ends without a content token, or after some.
StreamReturns(r) ==
    /\ StreamLLM
    /\ ~Cancelled(r)
    /\ \/ Step(r, "predict", "predicted")
       \/ Step(r, "streaming", "speak")
    /\ UNCHANGED <<conversationVars, bodyVars, limitVars>>

StreamFails(r) ==
    /\ StreamLLM
    /\ \E from \in {"predict", "streaming"} : RollBack(r, from) \/ Fail(r, from)

\* emitAssistantMessage appends the item before it speaks.
AppendReply(r) ==
    /\ Step(r, "predicted", "speak")
    /\ Append1("message", 0)
    /\ reply' = [reply EXCEPT ![r] = added + 1]
    /\ UNCHANGED <<compactionVars, call, executed, turn, outcome, limitVars>>

SaysNothing(r) ==
    /\ Step(r, "predicted", "tools")
    /\ UNCHANGED <<conversationVars, bodyVars, limitVars>>

\* Speech synthesis ends, perhaps after the response was cancelled.
Spoken(r) ==
    /\ Step(r, "speak", "tools")
    /\ reply' = [reply EXCEPT ![r] = 0]
    /\ UNCHANGED <<conversationVars, call, executed, turn, outcome, limitVars>>

SpeechFails(r) == RollBack(r, "speak") \/ Fail(r, "speak")

\* A tool of the client: the call is an item, its output is up to the client.
ClientCall(r) ==
    /\ added < MaxCallItems
    /\ Step(r, "tools", "tools")
    /\ Append1("call", 0)
    /\ UNCHANGED <<compactionVars, bodyVars, limitVars>>

\* A tool of the assistant is executed here.
AssistantCall(r) ==
    /\ added < MaxCallItems
    /\ Step(r, "tools", "execute")
    /\ Append1("call", 0)
    /\ call' = [call EXCEPT ![r] = added + 1]
    /\ UNCHANGED <<compactionVars, reply, executed, turn, outcome, limitVars>>

\* Its output or its error is an item.
Execute(r) ==
    /\ Step(r, "execute", "tools")
    /\ Append1("output", call[r])
    /\ call' = [call EXCEPT ![r] = 0]
    /\ executed' = executed \cup {r}
    /\ UNCHANGED <<compactionVars, reply, turn, outcome, limitVars>>

\* The agentic loop goes on after a tool of the assistant, up to its limit.
FollowUp(r) ==
    /\ r \in executed
    /\ turn[r] + 1 < maxAssistantToolTurns
    /\ Step(r, "tools", "enter")
    /\ turn' = [turn EXCEPT ![r] = @ + 1]
    /\ executed' = executed \ {r}
    /\ UNCHANGED <<conversationVars, reply, call, outcome, limitVars>>

ToolsDone(r) ==
    /\ r \notin executed \/ turn[r] + 1 = maxAssistantToolTurns
    /\ Step(r, "tools", "exit")
    /\ executed' = executed \ {r}
    /\ UNCHANGED <<conversationVars, reply, call, turn, outcome, limitVars>>

(***************************************************************************)
(* The deferred restoration of Maxtokens, response.done from the outcome,  *)
(* and maybeCompact's look at the length.                                  *)
(***************************************************************************)
Exit(r) ==
    /\ Step(r, "exit", IF Over THEN "trigger" ELSE "finish")
    /\ maxTokens' = saved[r]
    /\ saved' = [saved EXCEPT ![r] = NoLimit]
    /\ limit' = [limit EXCEPT ![r] = NoLimit]
    /\ turn' = [turn EXCEPT ![r] = 0]
    /\ outcome' = [outcome EXCEPT ![r] = "completed"]
    /\ UNCHANGED <<conversationVars, reply, call, executed>>

TriggerCompaction(r) ==
    /\ Step(r, "trigger", "finish")
    /\ Trigger
    /\ UNCHANGED <<itemVars, bodyVars, limitVars>>

\* A call of a model or a tool ends.
CallReturns(r) ==
    \/ Transcribed(r) \/ UtteranceDropped(r)
    \/ PredictFails(r) \/ PredictReturns(r)
    \/ Announce(r) \/ StreamReturns(r) \/ StreamFails(r)
    \/ Spoken(r) \/ SpeechFails(r) \/ Execute(r)

\* What the goroutine does without waiting.
Proceed(r) ==
    \/ Enter(r) \/ AppendReply(r) \/ SaysNothing(r)
    \/ ClientCall(r) \/ AssistantCall(r) \/ FollowUp(r) \/ ToolsDone(r)
    \/ Exit(r) \/ TriggerCompaction(r) \/ Finish(r)

-----------------------------------------------------------------------------
Compacting == Compact /\ UNCHANGED <<connVars, vadVars, responseVars>>

Next ==
    \/ Event \/ Close \/ Teardown
    \/ \E v \in VAD : Detect(v)
    \/ \E r \in Response : CallReturns(r) \/ Proceed(r)
    \/ Compacting

(***************************************************************************)
(* Goroutines that can run do.  Calls of models and tools end once their   *)
(* context is cancelled (a summary also by its timeout), and a select with *)
(* a tick and a closed channel does not choose the tick for ever.  Nothing *)
(* obliges the client, the ticker, or a call that nobody cancels.          *)
(***************************************************************************)
Fairness ==
    /\ WF_vars(Teardown)
    /\ \A v \in VAD :
        /\ WF_vars(VADContextEnds(v))
        /\ WF_vars(v \in vadEnded /\ ScanReturns(v))
        /\ WF_vars(KeepListening(v))
        /\ SF_vars(VADReturns(v))
    /\ \A r \in Response :
        /\ WF_vars(Proceed(r))
        /\ WF_vars(Cancelled(r) /\ CallReturns(r))
    /\ WF_vars(Compacting)

Spec == Init /\ [][Next]_vars

FairSpec == Spec /\ Fairness

-----------------------------------------------------------------------------
(***************************************************************************)
(* No goroutine of a session outlives it, and none can start any more: not *)
(* a turn that is committed while the session ends, not a response that    *)
(* was superseded, not a compaction that the last response triggers.       *)
(***************************************************************************)
NoneOutlivesSession ==
    conn = "returned" =>
        /\ Detecting = {}
        /\ Running = {}
        /\ compactor = "none"
        /\ resp = Terminated
        /\ compaction = "Terminated"

(***************************************************************************)
(* The session ends level by level: responses end only after nobody can    *)
(* issue another, compactions only after nobody can trigger another.       *)
(***************************************************************************)
closed ==
    CASE conn = "serving" -> 0
      [] conn = "joinInputs" -> 1
      [] conn = "joinResponses" -> 2
      [] conn \in {"joinCompaction", "delete"} -> 3
      [] conn = "returned" -> 4

Tree == INSTANCE SessionTree WITH
    Inputs <- VAD,
    Responses <- Response,
    Compactions <- {"compaction"},
    inputs <- Detecting,
    responses <- Running,
    compactions <- IF compactor = "none" THEN {} ELSE {"compaction"}

IsSessionTree == Tree!Spec

(***************************************************************************)
(* One response speaks: every other response goroutine that still runs has *)
(* a cancelled context.  A superseded response that ends late must not     *)
(* make the coordinator forget the one that superseded it.                 *)
(***************************************************************************)
OneLive == \A r \in Running : Cancelled(r) \/ resp = r

(***************************************************************************)
(* A session whose connection is lost ends, whatever its turn detection,   *)
(* responses and compaction were doing.                                    *)
(***************************************************************************)
SessionEnds == conn = "joinInputs" ~> conn = "returned"

(***************************************************************************)
(* "The flag can never stick": a compaction that runs ends, so a later one *)
(* can start.                                                              *)
(***************************************************************************)
CompactionEnds == compaction = "Running" ~> compaction # "Running"

-----------------------------------------------------------------------------
(***************************************************************************)
(* What the comments and the design document say and the code does not do. *)
(***************************************************************************)

(***************************************************************************)
(* "Save original value to restore after prediction": when no response     *)
(* runs, the configuration has its own Maxtokens.                          *)
(***************************************************************************)
LimitIsRestored == Running = {} => maxTokens = NoLimit

(***************************************************************************)
(* "No two appenders to conv.Items from response logic"                    *)
(* (docs/design/realtime-state-machines.md:287).                           *)
(***************************************************************************)
OneAppender == Cardinality(Running) <= 1

(***************************************************************************)
(* "A specific error event was already sent; emit no terminal": a response *)
(* whose prediction fails does not end as completed.                       *)
(***************************************************************************)
FailureIsRecorded ==
    [][\A r \in Response : PredictFails(r) => outcome'[r] = "failed"]_vars
=============================================================================
