-------------------------- MODULE GalleryOpsProofs --------------------------
(***************************************************************************)
(* GalleryOps for any frontends, stops and bounds: typing, that a settled  *)
(* row stays, that a success reaches the row, and that the last word       *)
(* reaches the frontends that hear it.                                     *)
(***************************************************************************)
EXTENDS GalleryOps, SequenceTheorems, TLAPS

Messages == Seq(Said)

-----------------------------------------------------------------------------
(***************************************************************************)
(* The statements on the row.                                              *)
(***************************************************************************)
RowTyped == row \in [state : {"none", "pending"} \cup Processed, stale : BOOLEAN]

\* What no statement on the row does: it leaves a settled state, and an existing
\* row, alone, and only time makes a row stale.
RowKept ==
    /\ RowTyped'
    /\ row.state \in Settled => row'.state = row.state
    /\ row.state # "none" => row'.state # "none"
    /\ ~row.stale => ~row'.stale

LEMMA PersistKeeps ==
    ASSUME RowTyped, NEW state \in Said, Persist(state)
    PROVE  /\ RowKept
           /\ row.state = "none" => row' = row
           /\ row.state # "none" /\ state \in Settled => row'.state \in Settled
BY DEF RowTyped, Persist, Said, Processed, Settled, RowKept

LEMMA CleanKeeps ==
    ASSUME RowTyped, CleanStale
    PROVE  /\ RowKept
           /\ row.state = "none" => row' = row
           /\ row'.state \in Settled => row.state \in Settled
BY DEF RowTyped, CleanStale, Stale, Processed, Settled, RowKept

LEMMA SameRowKept ==
    ASSUME RowTyped, UNCHANGED row
    PROVE  RowKept
BY DEF RowTyped, RowKept

\* What is written or broadcast is a status; of a status that ends the operation
\* only one that ends it, too, and of a success one that settles the row.
LEMMA CurrentSaid ==
    ASSUME NEW f, NEW me, NEW say \in Said, NEW state \in Current(f, say, me)
    PROVE  /\ state \in Said
           /\ say \in Processed => state \in Processed
           /\ say = "completed" => state \in Settled
           /\ state # say => state \in Processed
BY DEF Current, Said, Processed, Settled

-----------------------------------------------------------------------------
(***************************************************************************)
(* Typing.                                                                 *)
(***************************************************************************)
StatusTyped == status \in [Frontends -> [state : Said \cup {"none"}, by : {"none", "op", "reaper"}]]

MessagesTyped ==
    /\ DOMAIN progress = Frontends
    /\ \A f \in Frontends : progress[f] \in Messages /\ Len(progress[f]) <= MaxLag
    /\ cancels \in [Frontends -> Nat]

OpTyped == op \in [at : OpSteps \cup Writing, say : Said \cup {"none"}, then : OpSteps,
                   ticks : 0..MaxTicks]

StopTyped == stop \in [Stops -> [at : {"idle", "persist", "publish", "done", "lost"},
                                 frontend : Frontends \cup {"none"},
                                 owned : BOOLEAN, live : BOOLEAN]]

ReaperTyped == reaper \in [Frontends -> {"idle", "clean", "check"} \cup Writing]

RestTyped ==
    /\ cancellations \subseteq Frontends
    /\ cancelled \in BOOLEAN
    /\ life \in [Frontends -> {"up", "down", "cleaned", "hydrated"}]
    /\ crashes \in 0..MaxCrashes
    /\ heard \subseteq Frontends /\ unheard \in BOOLEAN

LEMMA TypeOKParts ==
    /\ TypeOK <=> /\ StatusTyped /\ RowTyped /\ MessagesTyped /\ OpTyped /\ StopTyped
                  /\ ReaperTyped /\ RestTyped
    /\ TypeOK' <=> /\ StatusTyped' /\ RowTyped' /\ MessagesTyped' /\ OpTyped' /\ StopTyped'
                   /\ ReaperTyped' /\ RestTyped'
BY DEF TypeOK, StatusTyped, RowTyped, MessagesTyped, Messages, OpTyped, StopTyped, ReaperTyped,
       RestTyped

LEMMA InitTyped == Init => TypeOK
<1> SUFFICES ASSUME Init PROVE TypeOK
  OBVIOUS
<1>1. \A f \in Frontends : progress[f] = <<>> /\ Len(progress[f]) = 0
  BY DEF Init
<1>2. <<>> \in Messages
  BY DEF Messages
<1>3. MessagesTyped
  BY <1>1, <1>2, GalleryOpsAssumption DEF Init, MessagesTyped, GalleryOpsAssumption
<1>4. MaxTicks \in Nat /\ MaxCrashes \in Nat
  BY GalleryOpsAssumption DEF GalleryOpsAssumption
<1>5. StatusTyped /\ RowTyped
  BY DEF Init, StatusTyped, RowTyped, NoStatus, NoRow
<1>6. OpTyped
  BY <1>4 DEF Init, OpTyped, NoOp, OpSteps
<1>8. RestTyped
  <2>1. crashes \in 0..MaxCrashes
    BY <1>4 DEF Init
  <2>2. life \in [Frontends -> {"up", "down", "cleaned", "hydrated"}]
    BY DEF Init
  <2> QED
    BY <2>1, <2>2 DEF Init, RestTyped
<1>7. StopTyped /\ ReaperTyped
  BY DEF Init, StopTyped, ReaperTyped, NoStop
<1> QED
  BY <1>3, <1>5, <1>6, <1>7, <1>8, TypeOKParts

LEMMA PublishTyped ==
    ASSUME StatusTyped, MessagesTyped, RestTyped, NEW f \in Frontends, NEW me,
           NEW state \in Said, Publish(f, state, me), UNCHANGED cancels
    PROVE  /\ StatusTyped' /\ MessagesTyped'
           /\ heard' \subseteq Frontends /\ unheard' \in BOOLEAN
<1>1. StatusTyped'
  BY DEF StatusTyped, Publish
<1>2. ASSUME NEW g \in Frontends
      PROVE  progress'[g] \in Messages /\ Len(progress'[g]) <= MaxLag
  <2>1. /\ Append(progress[g], state) \in Messages
        /\ Len(Append(progress[g], state)) = Len(progress[g]) + 1
    BY AppendProperties DEF MessagesTyped, Messages
  <2>2. progress[g] \in Messages /\ Len(progress[g]) \in Nat /\ Len(progress[g]) <= MaxLag
    BY LenProperties DEF MessagesTyped, Messages
  <2>3. g \in Up => Len(progress[g]) < MaxLag
    BY DEF Publish
  <2> QED
    BY <2>1, <2>2, <2>3, GalleryOpsAssumption DEF Publish, GalleryOpsAssumption
<1> QED
  BY <1>1, <1>2 DEF Publish, MessagesTyped, RestTyped, Up

LEMMA MergeTyped ==
    ASSUME StatusTyped, MessagesTyped, NEW f \in Frontends, MergeStatus(f)
    PROVE  StatusTyped' /\ MessagesTyped'
<1>1. progress[f] \in Messages /\ progress[f] # <<>>
  BY DEF MessagesTyped, MergeStatus
<1>2. /\ Head(progress[f]) \in Said /\ Tail(progress[f]) \in Messages
      /\ Len(Tail(progress[f])) = Len(progress[f]) - 1
      /\ Len(progress[f]) \in Nat /\ Len(progress[f]) <= MaxLag
  BY <1>1, HeadTailProperties, LenProperties DEF Messages, MessagesTyped
<1>3. StatusTyped'
  BY <1>2 DEF StatusTyped, MergeStatus, Remember
<1> DEFINE left == Tail(progress[f])
<1>6. left \in Messages /\ Len(left) <= MaxLag
  <2>1. Len(progress[f]) - 1 <= MaxLag
    BY <1>2, GalleryOpsAssumption DEF GalleryOpsAssumption
  <2> QED
    BY <1>2, <2>1
<1>4. ASSUME NEW g \in Frontends
      PROVE  progress'[g] = IF g = f THEN left ELSE progress[g]
  BY DEF MergeStatus, MessagesTyped
<1> HIDE DEF left
<1>5. ASSUME NEW g \in Frontends
      PROVE  progress'[g] \in Messages /\ Len(progress'[g]) <= MaxLag
  <2>2. CASE g = f
    BY <1>6, <1>4, <2>2
  <2>3. CASE g # f
    BY <1>4, <2>3 DEF MessagesTyped
  <2> QED
    BY <2>2, <2>3
<1> QED
  BY <1>3, <1>5 DEF MessagesTyped, MergeStatus

\* What most statements leave alone keeps its type.
LEMMA FrameTyped ==
    ASSUME TypeOK
    PROVE  /\ UNCHANGED status => StatusTyped'
           /\ UNCHANGED row => RowTyped'
           /\ UNCHANGED messages => MessagesTyped'
           /\ UNCHANGED op => OpTyped'
           /\ UNCHANGED stop => StopTyped'
           /\ UNCHANGED reaper => ReaperTyped'
           /\ UNCHANGED <<cancellations, cancelled, life, crashes, history>> => RestTyped'
<1>1. StatusTyped /\ RowTyped /\ MessagesTyped /\ OpTyped /\ StopTyped /\ ReaperTyped /\ RestTyped
  BY TypeOKParts
<1> QED
  BY <1>1 DEF StatusTyped, RowTyped, MessagesTyped, OpTyped, StopTyped, ReaperTyped, RestTyped, messages, history

LEMMA HandlerTyped ==
    ASSUME TypeOK,
           \/ Admit \/ OpRemembers \/ OpPersists \/ QueueStep \/ HandlerStep \/ InstallStep
           \/ Ages
    PROVE  TypeOK'
<1>1. StatusTyped /\ RowTyped /\ MessagesTyped /\ OpTyped /\ StopTyped /\ ReaperTyped /\ RestTyped
  BY TypeOKParts
<1>2. MessagesTyped' /\ StopTyped' /\ ReaperTyped'
  BY FrameTyped DEF Admit, OpRemembers, OpPersists, QueueStep, HandlerStep, InstallStep, Enqueue,
     AbandonQueued, Deliver, CreateRow, FindDuplicate, CheckCancelled, InstallCancelled,
     Unwind, UpdateError, RemoveCancellation, Tick, InstallSucceeds, InstallFails, Ages
<1>3. Home \in Frontends /\ MaxTicks \in Nat
  BY GalleryOpsAssumption DEF GalleryOpsAssumption
<1>4. RestTyped'
  BY <1>1, <1>3 DEF RestTyped, history,
     Admit, OpRemembers, OpPersists, QueueStep, HandlerStep, InstallStep, Enqueue,
     AbandonQueued, Deliver, CreateRow, FindDuplicate, CheckCancelled, InstallCancelled,
     Unwind, UpdateError, RemoveCancellation, Tick, InstallSucceeds, InstallFails, Ages
<1>5. StatusTyped'
  <2>1. CASE OpRemembers
    BY <1>1, <1>3, <2>1 DEF OpRemembers, Remember, StatusTyped, OpTyped, Said
  <2>2. CASE ~OpRemembers
    BY <2>2, FrameTyped DEF Admit, OpPersists, QueueStep, HandlerStep, InstallStep, Enqueue,
     AbandonQueued, Deliver, CreateRow, FindDuplicate, CheckCancelled, InstallCancelled,
     Unwind, UpdateError, RemoveCancellation, Tick, InstallSucceeds, InstallFails, Ages
  <2> QED
    BY <2>1, <2>2
<1>6. RowTyped'
  <2>1. CASE Admit \/ CreateRow \/ Ages
    <3>1. CASE Admit
      BY <1>1, <3>1, FrameTyped DEF Admit, RowTyped
    <3>2. CASE CreateRow
      BY <1>1, <3>2, FrameTyped DEF CreateRow, RowTyped
    <3>3. CASE Ages
      BY <1>1, <3>3 DEF Ages, RowTyped
    <3> QED
      BY <2>1, <3>1, <3>2, <3>3
  <2>2. CASE OpPersists
    BY <1>1, <2>2 DEF OpPersists, Persist, Current, RowTyped, OpTyped, Said, Processed
  <2>3. CASE ~(Admit \/ CreateRow \/ Ages \/ OpPersists)
    BY <2>3, FrameTyped DEF OpRemembers, QueueStep, HandlerStep, InstallStep, Enqueue,
     AbandonQueued, Deliver, FindDuplicate, CheckCancelled, InstallCancelled,
     Unwind, UpdateError, RemoveCancellation, Tick, InstallSucceeds, InstallFails
  <2> QED
    BY <2>1, <2>2, <2>3
<1>7. OpTyped'
  <2>1. CASE Tick
    BY <1>1, <1>3, <2>1 DEF Tick, OpTyped, Said, OpSteps, Writing
  <2>2. CASE Ages
    BY <2>2, FrameTyped DEF Ages
  <2>3. CASE ~(Tick \/ Ages)
    <3>1. ASSUME NEW step \in OpSteps \cup Writing, Goto(step)
          PROVE  OpTyped'
      BY <1>1, <3>1 DEF OpTyped, Goto
    <3>2. ASSUME NEW state \in Said, NEW step \in OpSteps, Say(state, step)
          PROVE  OpTyped'
      BY <1>3, <3>2 DEF OpTyped, Say, Writing
    <3>3. CASE Admit \/ OpRemembers \/ OpPersists \/ Deliver \/ CreateRow
      BY <3>1, <3>3 DEF Admit, OpRemembers, OpPersists, Deliver, CreateRow, OpSteps, Writing
    <3>4. CASE Enqueue \/ AbandonQueued \/ FindDuplicate
      BY <3>1, <3>2, <3>4 DEF Enqueue, AbandonQueued, FindDuplicate, OpSteps, Said, Processed
    <3>5. CASE CheckCancelled \/ InstallCancelled \/ Unwind
      BY <3>1, <3>2, <3>5 DEF CheckCancelled, InstallCancelled, Unwind, OpSteps, Said, Processed
    <3>6. CASE UpdateError \/ InstallSucceeds
      BY <3>2, <3>6 DEF UpdateError, InstallSucceeds, OpSteps, Said, Processed
    <3>7. CASE RemoveCancellation
      <4>1. op' = [at |-> "done", say |-> op.say, then |-> "idle", ticks |-> 0]
        BY <3>7 DEF RemoveCancellation, NoOp
      <4> QED
        BY <1>1, <1>3, <4>1 DEF OpTyped, OpSteps
    <3>8. CASE InstallFails
      BY <1>3, <3>8 DEF InstallFails, NoOp, OpTyped, OpSteps
    <3> QED
      BY <2>3, <3>3, <3>4, <3>5, <3>6, <3>7, <3>8 DEF QueueStep, HandlerStep, InstallStep
  <2> QED
    BY <2>1, <2>2, <2>3
<1> QED
  BY <1>2, <1>4, <1>5, <1>6, <1>7, TypeOKParts

LEMMA StopsTyped ==
    ASSUME TypeOK, NEW s \in Stops, StopOperation(s) \/ StopStep(s)
    PROVE  TypeOK'
<1>1. StatusTyped /\ RowTyped /\ MessagesTyped /\ OpTyped /\ StopTyped /\ ReaperTyped /\ RestTyped
  BY TypeOKParts
<1>2. CASE StopOperation(s)
  <2>1. RowTyped' /\ MessagesTyped' /\ OpTyped' /\ ReaperTyped'
    BY <1>2, FrameTyped DEF StopOperation
  <2>2. PICK f \in Up :
           /\ MarkCancelled(f)
           /\ cancellations' = cancellations \ {f}
           /\ \E owned, live \in BOOLEAN :
                 stop' = [stop EXCEPT ![s] = [at |-> "persist", frontend |-> f,
                                              owned |-> owned, live |-> live]]
    <3>1. PICK f \in Up :
             /\ MarkCancelled(f)
             /\ cancellations' = cancellations \ {f}
             /\ stop' = [stop EXCEPT ![s] =
                    [at |-> "persist", frontend |-> f, owned |-> f \in cancellations,
                     live |-> /\ op.at # "admitted" /\ row.state = "pending" /\ ~row.stale
                              /\ \A g \in Frontends : reaper[g] = "idle"]]
      BY <1>2, Zenon DEF StopOperation
    <3>2. /\ (f \in cancellations) \in BOOLEAN
          /\ (/\ op.at # "admitted" /\ row.state = "pending" /\ ~row.stale
              /\ \A g \in Frontends : reaper[g] = "idle") \in BOOLEAN
      OBVIOUS
    <3> QED
      BY <3>1, <3>2, Zenon
  <2>3. f \in Frontends
    BY DEF Up
  <2>4. StatusTyped'
    BY <1>1, <2>2, <2>3 DEF StatusTyped, MarkCancelled, Said, Processed
  <2>5. StopTyped'
    BY <1>1, <2>2, <2>3 DEF StopTyped
  <2>6. RestTyped'
    BY <1>1, <1>2, <2>2 DEF RestTyped, StopOperation, history
  <2> QED
    BY <2>1, <2>4, <2>5, <2>6, TypeOKParts
<1>3. CASE StopPersists(s)
  <2>1. /\ StatusTyped' /\ MessagesTyped' /\ OpTyped' /\ ReaperTyped' /\ RestTyped'
    BY <1>3, FrameTyped DEF StopPersists
  <2>2. RowTyped'
    BY <1>1, <1>3, PersistKeeps DEF StopPersists, Said, Processed, RowKept
  <2>3. StopTyped'
    BY <1>1, <1>3 DEF StopTyped, StopPersists
  <2> QED
    BY <2>1, <2>2, <2>3, TypeOKParts
<1>4. CASE StopPublishes(s)
  <2>1. /\ StatusTyped' /\ RowTyped' /\ OpTyped' /\ ReaperTyped'
    BY <1>4, FrameTyped DEF StopPublishes
  <2>2. MessagesTyped'
    <3>1. cancels' \in [Frontends -> Nat]
      BY <1>1, <1>4 DEF StopPublishes, MessagesTyped
    <3> QED
      BY <1>1, <1>4, <3>1 DEF StopPublishes, MessagesTyped
  <2>3. RestTyped'
    <3>1. stop[s].owned \in BOOLEAN
      BY <1>1 DEF StopTyped
    <3> QED
      BY <1>1, <1>4, <3>1 DEF RestTyped, StopPublishes, history
  <2>4. StopTyped'
    <3>2. stop' = [stop EXCEPT ![s] =
                      [at |-> "done", frontend |-> "none", owned |-> FALSE, live |-> stop[s].live]]
      BY <1>4 DEF StopPublishes
    <3>3. stop[s].live \in BOOLEAN
      BY <1>1 DEF StopTyped
    <3> QED
      BY <1>1, <3>2, <3>3 DEF StopTyped
  <2> QED
    BY <2>1, <2>2, <2>3, <2>4, TypeOKParts
<1> QED
  BY <1>2, <1>3, <1>4 DEF StopStep

LEMMA HearingTyped ==
    ASSUME TypeOK, NEW f \in Frontends, MergeStatus(f) \/ ApplyCancel(f)
    PROVE  TypeOK'
<1>1. StatusTyped /\ RowTyped /\ MessagesTyped /\ OpTyped /\ StopTyped /\ ReaperTyped /\ RestTyped
  BY TypeOKParts
<1>2. CASE MergeStatus(f)
  <2>1. RowTyped' /\ OpTyped' /\ StopTyped' /\ ReaperTyped' /\ RestTyped'
    BY <1>2, FrameTyped DEF MergeStatus
  <2> QED
    BY <1>1, <1>2, <2>1, MergeTyped, TypeOKParts
<1>3. CASE ApplyCancel(f)
  <2>1. RowTyped' /\ OpTyped' /\ StopTyped' /\ ReaperTyped'
    BY <1>3, FrameTyped DEF ApplyCancel
  <2>2. StatusTyped'
    <3>1. CASE UNCHANGED status
      BY <3>1, FrameTyped
    <3>2. CASE MarkCancelled(f)
      BY <1>1, <3>2 DEF StatusTyped, MarkCancelled, Said, Processed
    <3> QED
      BY <1>3, <3>1, <3>2 DEF ApplyCancel
  <2>3. MessagesTyped'
    BY <1>1, <1>3 DEF ApplyCancel, MessagesTyped
  <2>4. RestTyped'
    <3>1. cancelled' \in BOOLEAN
      BY <1>1, <1>3 DEF ApplyCancel, RestTyped
    <3> QED
      BY <1>1, <1>3, <3>1 DEF ApplyCancel, RestTyped, history
  <2> QED
    BY <2>1, <2>2, <2>3, <2>4, TypeOKParts
<1> QED
  BY <1>2, <1>3

LEMMA ReapersTyped ==
    ASSUME TypeOK, NEW f \in Frontends, ReapStep(f)
    PROVE  TypeOK'
<1>1. StatusTyped /\ RowTyped /\ MessagesTyped /\ OpTyped /\ StopTyped /\ ReaperTyped /\ RestTyped
  BY TypeOKParts
<1>0. "failed" \in Said
  BY DEF Said, Processed
<1>2. CASE ReapCleans(f)
  <2>1. /\ StatusTyped' /\ MessagesTyped' /\ OpTyped' /\ StopTyped' /\ RestTyped'
    BY <1>2, FrameTyped DEF ReapCleans
  <2>2. RowTyped'
    BY <1>1, <1>2, CleanKeeps DEF ReapCleans, RowKept
  <2>3. ReaperTyped'
    BY <1>1, <1>2 DEF ReaperTyped, ReapCleans
  <2> QED
    BY <2>1, <2>2, <2>3, TypeOKParts
<1>3. CASE ReapChecks(f)
  <2>1. /\ RowTyped' /\ MessagesTyped' /\ OpTyped' /\ StopTyped'
    BY <1>3, FrameTyped DEF ReapChecks
  <2>2. StatusTyped'
    BY <1>0, <1>1, <1>3 DEF ReapChecks, Remember, StatusTyped
  <2>3. ReaperTyped'
    BY <1>1, <1>3 DEF ReaperTyped, ReapChecks, Writing
  <2>4. RestTyped'
    BY <1>1, <1>3 DEF RestTyped, ReapChecks
  <2> QED
    BY <2>1, <2>2, <2>3, <2>4, TypeOKParts
<1>4. CASE ReapPersists(f)
  <2>1. /\ StatusTyped' /\ MessagesTyped' /\ OpTyped' /\ StopTyped' /\ RestTyped'
    BY <1>4, FrameTyped DEF ReapPersists
  <2>2. RowTyped'
    BY <1>0, <1>1, <1>4, CurrentSaid, PersistKeeps DEF ReapPersists, RowKept
  <2>3. ReaperTyped'
    BY <1>1, <1>4 DEF ReaperTyped, ReapPersists, Writing
  <2> QED
    BY <2>1, <2>2, <2>3, TypeOKParts
<1>5. CASE ReapPublishes(f)
  <2>1. /\ RowTyped' /\ OpTyped' /\ StopTyped'
    BY <1>5, FrameTyped DEF ReapPublishes
  <2>2. PICK state \in Said : Publish(f, state, "reaper")
    BY <1>0, <1>5, CurrentSaid DEF ReapPublishes
  <2>3. /\ StatusTyped' /\ MessagesTyped'
        /\ heard' \subseteq Frontends /\ unheard' \in BOOLEAN
    BY <1>1, <1>5, <2>2, PublishTyped DEF ReapPublishes
  <2>4. RestTyped'
    BY <1>1, <1>5, <2>3 DEF RestTyped, ReapPublishes
  <2>5. ReaperTyped'
    BY <1>1, <1>5 DEF ReaperTyped, ReapPublishes
  <2> QED
    BY <2>1, <2>3, <2>4, <2>5, TypeOKParts
<1> QED
  BY <1>2, <1>3, <1>4, <1>5 DEF ReapStep

LEMMA BootsTyped ==
    ASSUME TypeOK, NEW f \in Frontends, BootStep(f)
    PROVE  TypeOK'
<1>1. StatusTyped /\ RowTyped /\ MessagesTyped /\ OpTyped /\ StopTyped /\ ReaperTyped /\ RestTyped
  BY TypeOKParts
<1>2. MessagesTyped' /\ OpTyped' /\ StopTyped' /\ ReaperTyped'
  BY FrameTyped DEF BootStep, Boot, Hydrate, SubscribeBroadcasts
<1>3. RowTyped'
  BY <1>1, FrameTyped, CleanKeeps DEF BootStep, Boot, Hydrate, SubscribeBroadcasts, RowKept
<1>4. StatusTyped'
  <2>1. CASE Hydrate(f)
    BY <1>1, <2>1 DEF Hydrate, StatusTyped, Said
  <2>2. CASE Boot(f) \/ SubscribeBroadcasts(f)
    BY <2>2, FrameTyped DEF Boot, SubscribeBroadcasts
  <2> QED
    BY <2>1, <2>2 DEF BootStep
<1>5. RestTyped'
  <2>1. CASE Boot(f)
    BY <1>1, <2>1 DEF Boot, RestTyped
  <2>2. CASE Hydrate(f) \/ SubscribeBroadcasts(f)
    BY <1>1, <2>2 DEF Hydrate, SubscribeBroadcasts, RestTyped, history
  <2> QED
    BY <2>1, <2>2 DEF BootStep
<1> QED
  BY <1>2, <1>3, <1>4, <1>5, TypeOKParts

LEMMA CrashTyped ==
    ASSUME TypeOK, NEW f \in Frontends, Crash(f)
    PROVE  TypeOK'
<1>1. StatusTyped /\ RowTyped /\ MessagesTyped /\ OpTyped /\ StopTyped /\ ReaperTyped /\ RestTyped
  BY TypeOKParts
<1>2. RowTyped' /\ ReaperTyped'
  BY <1>1, FrameTyped DEF Crash, ReaperTyped
<1>3. StatusTyped'
  BY <1>1 DEF Crash, StatusTyped, NoStatus
<1>4. MessagesTyped'
  <2>1. <<>> \in Messages /\ Len(<<>>) = 0
    BY DEF Messages
  <2>2. ASSUME NEW g \in Frontends
        PROVE  progress'[g] = IF g = f THEN <<>> ELSE progress[g]
    BY <1>1 DEF Crash, MessagesTyped
  <2>3. ASSUME NEW g \in Frontends
        PROVE  progress'[g] \in Messages /\ Len(progress'[g]) <= MaxLag
    <3>1. CASE g = f
      BY <2>1, <2>2, <3>1, GalleryOpsAssumption DEF GalleryOpsAssumption
    <3>2. CASE g # f
      BY <1>1, <2>2, <3>2 DEF MessagesTyped
    <3> QED
      BY <3>1, <3>2
  <2> QED
    BY <1>1, <2>3 DEF Crash, MessagesTyped
<1>5. OpTyped'
  <2>1. MaxTicks \in Nat
    BY GalleryOpsAssumption DEF GalleryOpsAssumption
  <2> QED
    BY <1>1, <2>1 DEF Crash, OpTyped, NoOp, OpSteps
<1>6. StopTyped'
  BY <1>1 DEF Crash, StopTyped, NoStop
<1>7. RestTyped'
  <2>1. crashes' \in 0..MaxCrashes
    BY <1>1, GalleryOpsAssumption DEF Crash, RestTyped, GalleryOpsAssumption
  <2>2. life' \in [Frontends -> {"up", "down", "cleaned", "hydrated"}]
    BY <1>1 DEF Crash, RestTyped
  <2>3. cancelled' \in BOOLEAN /\ unheard' \in BOOLEAN
    BY <1>1, Zenon DEF Crash, RestTyped
  <2>4. heard' \subseteq Frontends /\ cancellations' \subseteq Frontends
    BY <1>1 DEF Crash, RestTyped
  <2> QED
    BY <2>1, <2>2, <2>3, <2>4 DEF RestTyped
<1> QED
  BY <1>2, <1>3, <1>4, <1>5, <1>6, <1>7, TypeOKParts

-----------------------------------------------------------------------------
(***************************************************************************)
(* Where the handler goes: what it says, and what it does next.            *)
(***************************************************************************)
Moves(from, to) == op.at = from /\ op'.at = to /\ op'.say = op.say /\ op'.then = op.then

Says(from, state, step) ==
    op.at = from /\ op'.at = "write" /\ op'.say = state /\ op'.then = step

HandlerMoves ==
    \/ Moves("idle", "admitted")
    \/ Moves("write", "persist") \/ Moves("persist", "publish") \/ Moves("publish", op.then)
    \/ Says("admitted", "active", "waiting")
    \/ Moves("waiting", "done") \/ Says("waiting", "failed", "done")
    \/ Moves("waiting", "create") \/ Moves("create", "dedup")
    \/ Says("dedup", "completed", "end") \/ Moves("dedup", "check")
    \/ Says("check", "cancelled", "error") \/ Says("check", "active", "install")
    \/ Says("install", "active", "install") \/ Says("install", "completed", "end")
    \/ Says("install", "cancelled", "unwind")
    \/ op.at = "install" /\ op'.at = "unwind" /\ op'.say = "none"
    \/ Moves("unwind", "error") \/ Says("unwind", "active", "error")
    \/ Says("error", "failed", "end")
    \/ op.at = "end" /\ op'.at = "done" /\ op'.say = op.say

Lost == op.at \notin {"idle", "done"} /\ op'.at = "lost" /\ op'.say = "none"

HandlerActs == Admit \/ WriteStep \/ QueueStep \/ HandlerStep \/ InstallStep

\* Only a crash takes the operation away from its handler.
LEMMA OthersMove ==
    ASSUME Next
    PROVE  HandlerActs \/ UNCHANGED op \/ Lost
<1>1. ASSUME NEW f \in Frontends, Crash(f)
      PROVE  UNCHANGED op \/ Lost
  BY <1>1 DEF Crash, NoOp, Lost
<1>2. ASSUME NEW f \in Frontends, MergeStatus(f) \/ ApplyCancel(f) \/ ReapStep(f) \/ BootStep(f)
      PROVE  UNCHANGED op
  BY <1>2 DEF MergeStatus, ApplyCancel, ReapStep, ReapCleans, ReapChecks, ReapPersists,
     ReapPublishes, BootStep, Boot, Hydrate, SubscribeBroadcasts
<1>3. ASSUME NEW s \in Stops, StopOperation(s) \/ StopStep(s)
      PROVE  UNCHANGED op
  BY <1>3 DEF StopOperation, StopStep, StopPersists, StopPublishes
<1>4. CASE Ages
  BY <1>4 DEF Ages
<1> QED
  BY <1>1, <1>2, <1>3, <1>4 DEF Next, HandlerActs

LEMMA StepMoves ==
    ASSUME OpTyped
    PROVE  /\ \A step \in OpSteps \cup Writing : Goto(step) => Moves(op.at, step)
           /\ \A state, step : Say(state, step) => Says(op.at, state, step)
<1>1. ASSUME NEW step \in OpSteps \cup Writing, Goto(step) PROVE Moves(op.at, step)
  BY <1>1 DEF OpTyped, Goto, Moves
<1>2. ASSUME NEW state, NEW step, Say(state, step) PROVE Says(op.at, state, step)
  BY <1>2 DEF OpTyped, Say, Says
<1> QED
  BY <1>1, <1>2

LEMMA OpMoves ==
    ASSUME TypeOK, Next
    PROVE  UNCHANGED op \/ HandlerMoves \/ Lost
<1>0. OpTyped
  BY TypeOKParts
<1>1. CASE Admit \/ Deliver \/ CreateRow
  BY <1>0, <1>1, StepMoves DEF Admit, Deliver, CreateRow, HandlerMoves, OpSteps
<1>2. CASE WriteStep
  <2>1. op.then \in OpSteps
    BY <1>0 DEF OpTyped
  <2> QED
    BY <1>0, <1>2, <2>1, StepMoves DEF WriteStep, OpRemembers, OpPersists, OpPublishes,
       HandlerMoves, Writing
<1>3. CASE Enqueue \/ AbandonQueued
  BY <1>0, <1>3, StepMoves DEF Enqueue, AbandonQueued, HandlerMoves, OpSteps
<1>4. CASE FindDuplicate \/ CheckCancelled
  BY <1>0, <1>4, StepMoves DEF FindDuplicate, CheckCancelled, HandlerMoves, OpSteps
<1>5. CASE InstallCancelled \/ InstallSucceeds
  BY <1>0, <1>5, StepMoves DEF InstallCancelled, InstallSucceeds, HandlerMoves
<1>6. CASE Unwind \/ UpdateError
  BY <1>0, <1>6, StepMoves DEF Unwind, UpdateError, HandlerMoves, OpSteps
<1>7. CASE RemoveCancellation
  <2>1. op' = [at |-> "done", say |-> op.say, then |-> "idle", ticks |-> 0]
    BY <1>7 DEF RemoveCancellation, NoOp
  <2> QED
    BY <1>7, <2>1 DEF RemoveCancellation, HandlerMoves
<1>8. CASE InstallFails
  BY <1>8 DEF InstallFails, NoOp, HandlerMoves
<1>9. CASE Tick
  BY <1>9 DEF Tick, Says, HandlerMoves
<1> QED
  BY <1>1, <1>2, <1>3, <1>4, <1>5, <1>6, <1>7, <1>8, <1>9, OthersMove
     DEF HandlerActs, QueueStep, HandlerStep, InstallStep

\* A handler that is about to write its status, or its row, does nothing else.
LEMMA NextAtWrite ==
    ASSUME Next
    PROVE  /\ op.at = "persist" => OpPersists \/ UNCHANGED op \/ Lost
           /\ op.at = "create" => CreateRow \/ UNCHANGED op \/ Lost
<1>1. ASSUME op.at \in {"persist", "create"}, HandlerActs
      PROVE  (op.at = "persist" /\ OpPersists) \/ (op.at = "create" /\ CreateRow)
  BY <1>1 DEF HandlerActs, Admit, WriteStep, OpRemembers, OpPersists, OpPublishes, QueueStep,
     Enqueue, AbandonQueued, Deliver, HandlerStep, CreateRow, FindDuplicate, CheckCancelled,
     InstallCancelled, Unwind, UpdateError, RemoveCancellation, InstallStep, Tick,
     InstallSucceeds, InstallFails
<1> QED
  BY <1>1, OthersMove

-----------------------------------------------------------------------------
(***************************************************************************)
(* What the handler may be saying, and what is untouched until it waits.   *)
(***************************************************************************)
Pairs ==
    op.at \in Writing =>
        \/ op.say = "completed" /\ op.then = "end"
        \/ op.say = "failed" /\ op.then \in {"end", "done"}
        \/ op.say = "cancelled" /\ op.then \in {"error", "unwind"}
        \/ op.say = "active" /\ op.then \in {"waiting", "install", "error"}

Succeeds ==
    op.say = "completed" =>
        op.at \in {"end", "done"} \/ (op.at \in Writing /\ op.then = "end")

\* The operation has not been queued yet.
IsEarly == op.at \in {"idle", "admitted"} \/ (op.at \in Writing /\ op.then = "waiting")

Early ==
    IsEarly => /\ heard = {} /\ ~row.stale
               /\ \A f \in Frontends : reaper[f] = "idle"

Unknown == op.at = "idle" => row.state = "none" /\ \A s \in Stops : stop[s].at # "persist"

\* The worker writes the row before anything that a success depends on.
Created ==
    row.state = "none" =>
        \/ op.at \in {"idle", "admitted", "waiting", "create", "done", "lost"}
        \/ op.at \in Writing /\ op.then \in {"waiting", "done"}

Outcome == op.say = "completed" /\ op.at \notin {"write", "persist"} => row.state \in Settled

LastSaid(f) ==
    IF progress[f] = <<>> THEN status[f].state \in Processed
                          ELSE progress[f][Len(progress[f])] \in Processed

Told ==
    /\ heard \subseteq Up
    /\ op.at \in {"waiting", "end", "done"} => \A f \in heard : LastSaid(f)

Inv == TypeOK /\ Pairs /\ Succeeds /\ Early /\ Unknown /\ Created /\ Outcome /\ Told

LEMMA InitInv == Init => Inv
<1> SUFFICES ASSUME Init PROVE Inv
  OBVIOUS
<1>1. op.at = "idle" /\ op.say = "none" /\ row.state = "none" /\ ~row.stale /\ heard = {}
  BY DEF Init, NoOp, NoRow
<1>2. (\A f \in Frontends : reaper[f] = "idle") /\ \A s \in Stops : stop[s].at = "idle"
  BY DEF Init, NoStop
<1>3. Pairs /\ Succeeds /\ Early /\ Unknown /\ Created /\ Outcome /\ Told
  BY <1>1, <1>2 DEF Pairs, Succeeds, Early, Unknown, Created, Outcome, Told, Writing
<1> QED
  BY <1>3, InitTyped DEF Inv

LEMMA PairsKept ==
    ASSUME TypeOK, Pairs, Succeeds, Next
    PROVE  Pairs' /\ Succeeds'
<1>1. op.then \in OpSteps
  BY TypeOKParts DEF OpTyped
<1>2. UNCHANGED op \/ HandlerMoves \/ Lost
  BY OpMoves
<1>3. CASE UNCHANGED op
  BY <1>3 DEF Pairs, Succeeds
<1>4. CASE HandlerMoves
  <2>1. Pairs'
    BY <1>1, <1>4 DEF HandlerMoves, Moves, Says, Pairs, Writing, OpSteps
  <2>2. Succeeds'
    BY <1>1, <1>4 DEF HandlerMoves, Moves, Says, Pairs, Succeeds, Writing, OpSteps
  <2> QED
    BY <2>1, <2>2
<1>5. CASE Lost
  BY <1>5 DEF Lost, Pairs, Succeeds, Writing
<1> QED
  BY <1>2, <1>3, <1>4, <1>5

\* Nothing becomes early again, or unknown.
LEMMA EarlyOnce ==
    ASSUME TypeOK, Pairs, Next
    PROVE  /\ IsEarly' => IsEarly
           /\ op'.at = "idle" => op.at = "idle"
<1>1. op.then \in OpSteps
  BY TypeOKParts DEF OpTyped
<1>2. UNCHANGED op \/ HandlerMoves \/ Lost
  BY OpMoves
<1>3. CASE UNCHANGED op
  BY <1>3 DEF IsEarly
<1>4. CASE HandlerMoves
  BY <1>1, <1>4 DEF HandlerMoves, Moves, Says, Pairs, IsEarly, Writing, OpSteps
<1>5. CASE Lost
  BY <1>5 DEF Lost, IsEarly, Writing
<1> QED
  BY <1>2, <1>3, <1>4, <1>5

-----------------------------------------------------------------------------
(***************************************************************************)
(* The steps that need more than types: the broadcast of the handler, and  *)
(* what each step does to the row.                                         *)
(***************************************************************************)
LEMMA OpSays ==
    ASSUME Pairs, op.at \in Writing
    PROVE  op.say \in Said
BY DEF Pairs, Said, Processed

LEMMA OpPublishesTyped ==
    ASSUME TypeOK, Pairs, OpPublishes
    PROVE  TypeOK'
<1>1. StatusTyped /\ RowTyped /\ MessagesTyped /\ OpTyped /\ StopTyped /\ ReaperTyped /\ RestTyped
  BY TypeOKParts
<1>2. Home \in Frontends /\ op.say \in Said
  BY OpSays, GalleryOpsAssumption DEF OpPublishes, Writing, GalleryOpsAssumption
<1>3. PICK state \in Said : Publish(Home, state, "op")
  BY <1>2, CurrentSaid DEF OpPublishes
<1>4. /\ StatusTyped' /\ MessagesTyped'
      /\ heard' \subseteq Frontends /\ unheard' \in BOOLEAN
  BY <1>1, <1>2, <1>3, PublishTyped DEF OpPublishes
<1>5. RowTyped' /\ StopTyped' /\ ReaperTyped'
  BY FrameTyped DEF OpPublishes
<1>6. RestTyped'
  BY <1>1, <1>4 DEF RestTyped, OpPublishes
<1>7. OpTyped'
  BY <1>1 DEF OpPublishes, Goto, OpTyped
<1> QED
  BY <1>4, <1>5, <1>6, <1>7, TypeOKParts

LEMMA NextTyped ==
    ASSUME TypeOK, Pairs, Next
    PROVE  TypeOK'
BY HandlerTyped, OpPublishesTyped, StopsTyped, HearingTyped, ReapersTyped, BootsTyped, CrashTyped
   DEF Next, WriteStep

LEMMA NextRow ==
    ASSUME TypeOK, Pairs, Unknown, Next
    PROVE  /\ row.state \in Settled => row'.state = row.state
           /\ row.state # "none" => row'.state # "none"
<1>1. RowTyped
  BY TypeOKParts
<1>2. CASE Admit
  BY <1>1, <1>2 DEF Admit, Unknown, RowTyped, Settled
<1>3. CASE OpPersists
  <2>1. op.say \in Said
    BY <1>3, OpSays DEF OpPersists, Writing
  <2> QED
    BY <1>1, <1>3, <2>1, CurrentSaid, PersistKeeps DEF OpPersists, RowKept
<1>4. CASE CreateRow
  BY <1>4 DEF CreateRow
<1>5. CASE Ages
  BY <1>1, <1>5 DEF Ages, RowTyped
<1>6. ASSUME NEW s \in Stops, StopPersists(s)
      PROVE  RowKept
  BY <1>1, <1>6, PersistKeeps DEF StopPersists, Said, Processed
<1>7. ASSUME NEW f \in Frontends, ReapCleans(f) \/ Boot(f)
      PROVE  RowKept
  BY <1>1, <1>7, CleanKeeps DEF ReapCleans, Boot
<1>8. ASSUME NEW f \in Frontends, ReapPersists(f)
      PROVE  RowKept
  <2>1. "failed" \in Said
    BY DEF Said, Processed
  <2> QED
    BY <1>1, <1>8, <2>1, CurrentSaid, PersistKeeps DEF ReapPersists
<1>9. CASE OpRemembers \/ OpPublishes \/ QueueStep \/ InstallStep
  BY <1>9 DEF OpRemembers, OpPublishes, QueueStep, Enqueue, AbandonQueued, Deliver, InstallStep,
     Tick, InstallSucceeds, InstallFails
<1>10. CASE HandlerStep /\ ~CreateRow
  BY <1>10 DEF HandlerStep, FindDuplicate, CheckCancelled, InstallCancelled, Unwind, UpdateError,
     RemoveCancellation
<1>11. ASSUME NEW s \in Stops, StopOperation(s) \/ StopPublishes(s)
       PROVE  UNCHANGED row
  BY <1>11 DEF StopOperation, StopPublishes
<1>12. ASSUME NEW f \in Frontends,
              \/ MergeStatus(f) \/ ApplyCancel(f) \/ Crash(f) \/ ReapChecks(f)
              \/ ReapPublishes(f) \/ Hydrate(f) \/ SubscribeBroadcasts(f)
       PROVE  UNCHANGED row
  BY <1>12 DEF MergeStatus, ApplyCancel, Crash, ReapChecks, ReapPublishes, Hydrate,
     SubscribeBroadcasts
<1> QED
  BY <1>2, <1>3, <1>4, <1>5, <1>6, <1>7, <1>8, <1>9, <1>10, <1>11, <1>12
     DEF Next, WriteStep, StopStep, ReapStep, BootStep, RowKept

-----------------------------------------------------------------------------
(***************************************************************************)
(* The other parts of the invariant, one lemma each.                       *)
(***************************************************************************)
\* Nothing is broadcast as ended, no row is old and no reaper runs before the
\* operation waits.
LEMMA EarlyKept ==
    ASSUME TypeOK, Pairs, Early, Unknown, Next
    PROVE  Early'
<1> SUFFICES ASSUME IsEarly'
             PROVE  /\ heard' = {} /\ ~row'.stale
                    /\ \A f \in Frontends : reaper'[f] = "idle"
  BY DEF Early
<1>1. RowTyped
  BY TypeOKParts
<1>2. IsEarly /\ heard = {} /\ ~row.stale /\ \A f \in Frontends : reaper[f] = "idle"
  BY EarlyOnce DEF Early
<1>3. op.at \notin {"waiting", "lost"} /\ (op.at \in Writing => op.then = "waiting")
  BY <1>2 DEF IsEarly, Writing
<1>4. CASE OpPublishes
  <2>1. op.then = "waiting"
    BY <1>3, <1>4 DEF OpPublishes, Writing
  <2>2. op'.at = "waiting"
    BY <1>4, <2>1, StepMoves, TypeOKParts DEF OpPublishes, Moves, OpSteps
  <2> QED
    BY <2>2 DEF IsEarly, Writing
<1>5. ASSUME NEW f \in Frontends, ReapStep(f)
      PROVE  FALSE
  BY <1>2, <1>5 DEF ReapStep, ReapCleans, Stale, ReapChecks, ReapPersists, ReapPublishes
<1>6. ASSUME NEW f \in Frontends, Crash(f)
      PROVE  heard' = {} /\ UNCHANGED row /\ \A g \in Frontends : reaper'[g] = "idle"
  <2>1. reaper \in [Frontends -> {"idle", "clean", "check"} \cup Writing]
    BY TypeOKParts DEF ReaperTyped
  <2> QED
    BY <1>2, <1>6, <2>1 DEF Crash
<1>7. ASSUME NEW f \in Frontends, MergeStatus(f) \/ ApplyCancel(f) \/ BootStep(f)
      PROVE  heard' = {} /\ UNCHANGED <<row, reaper>>
  BY <1>2, <1>7 DEF MergeStatus, ApplyCancel, BootStep, Boot, CleanStale, Stale, Hydrate,
     SubscribeBroadcasts, history
<1>8. ASSUME NEW s \in Stops, StopOperation(s) \/ StopStep(s)
      PROVE  heard' = {} /\ ~row'.stale /\ UNCHANGED reaper
  <2>1. CASE StopPersists(s)
    BY <1>1, <1>2, <2>1, PersistKeeps DEF StopPersists, Said, Processed, RowKept, history
  <2>2. CASE StopOperation(s) \/ StopPublishes(s)
    BY <1>2, <2>2 DEF StopOperation, StopPublishes, history
  <2> QED
    BY <1>8, <2>1, <2>2 DEF StopStep
<1>9. ASSUME Admit \/ OpRemembers \/ QueueStep \/ HandlerStep \/ InstallStep
      PROVE  heard' = {} /\ ~row'.stale /\ UNCHANGED reaper
  <2>1. CASE Admit
    BY <1>1, <1>2, <2>1 DEF Admit, RowTyped, history
  <2>2. CASE OpRemembers \/ QueueStep \/ InstallStep
    BY <1>2, <2>2 DEF OpRemembers, QueueStep, Enqueue, AbandonQueued, Deliver, InstallStep,
       Tick, InstallSucceeds, InstallFails, history
  <2>3. CASE HandlerStep
    BY <1>2, <2>3 DEF HandlerStep, CreateRow, FindDuplicate, CheckCancelled, InstallCancelled,
       Unwind, UpdateError, RemoveCancellation, history
  <2> QED
    BY <1>9, <2>1, <2>2, <2>3
<1>10. CASE OpPersists
  <2>1. op.say \in Said
    BY <1>10, OpSays DEF OpPersists, Writing
  <2> QED
    BY <1>1, <1>2, <1>10, <2>1, CurrentSaid, PersistKeeps DEF OpPersists, RowKept, history
<1>11. ~Ages
  BY <1>3 DEF Ages
<1> QED
  BY <1>2, <1>4, <1>5, <1>6, <1>7, <1>8, <1>9, <1>10, <1>11 DEF Next, WriteStep

\* An operation that is not admitted cannot be stopped: nobody knows its ID.
LEMMA UnknownKept ==
    ASSUME TypeOK, Pairs, Early, Unknown, Next
    PROVE  Unknown'
<1> SUFFICES ASSUME op'.at = "idle"
             PROVE  row'.state = "none" /\ \A s \in Stops : stop'[s].at # "persist"
  BY DEF Unknown
<1>1. op.at = "idle" /\ row.state = "none" /\ \A s \in Stops : stop[s].at # "persist"
  BY EarlyOnce DEF Unknown
<1>2. StopTyped /\ OpTyped
  BY TypeOKParts
<1>3. ASSUME NEW f \in Frontends, Crash(f)
      PROVE  UNCHANGED row /\ \A s \in Stops : stop'[s].at # "persist"
  BY <1>1, <1>3 DEF Crash, NoStop
<1>4. ASSUME NEW f \in Frontends, MergeStatus(f) \/ ApplyCancel(f) \/ BootStep(f) \/ ReapStep(f)
      PROVE  UNCHANGED stop /\ row'.state = "none"
  <2>1. CASE MergeStatus(f) \/ ApplyCancel(f)
    BY <1>1, <2>1 DEF MergeStatus, ApplyCancel
  <2>2. CASE BootStep(f)
    BY <1>1, <2>2 DEF BootStep, Boot, CleanStale, Stale, Hydrate, SubscribeBroadcasts
  <2>3. CASE ReapStep(f)
    BY <1>1, <2>3 DEF ReapStep, ReapCleans, Stale, ReapChecks, ReapPersists, ReapPublishes, Persist
  <2> QED
    BY <1>4, <2>1, <2>2, <2>3
<1>5. ASSUME NEW s \in Stops, StopStep(s)
      PROVE  UNCHANGED row /\ \A t \in Stops : stop'[t].at # "persist"
  BY <1>1, <1>2, <1>5 DEF StopStep, StopPersists, StopPublishes, StopTyped
<1>6. ~Admit
  <2>1. ASSUME Admit PROVE op'.at = "admitted"
    BY <1>2, <2>1, StepMoves DEF Admit, Moves, OpSteps
  <2> QED
    BY <2>1
<1>7. ~(WriteStep \/ QueueStep \/ HandlerStep \/ InstallStep \/ Ages)
  BY <1>1 DEF WriteStep, OpRemembers, OpPersists, OpPublishes, QueueStep, Enqueue, AbandonQueued,
     Deliver, HandlerStep, CreateRow, FindDuplicate, CheckCancelled, InstallCancelled, Unwind,
     UpdateError, RemoveCancellation, InstallStep, Tick, InstallSucceeds, InstallFails, Ages
<1>8. \A s \in Stops : ~StopOperation(s)
  BY <1>1 DEF StopOperation, Known
<1> QED
  BY <1>1, <1>3, <1>4, <1>5, <1>6, <1>7, <1>8 DEF Next

\* Once the handler is past CreateRow, there is a row.
LEMMA CreatedKept ==
    ASSUME TypeOK, Pairs, Unknown, Created, Next
    PROVE  Created'
<1> SUFFICES ASSUME row'.state = "none"
             PROVE  \/ op'.at \in {"idle", "admitted", "waiting", "create", "done", "lost"}
                    \/ op'.at \in Writing /\ op'.then \in {"waiting", "done"}
  BY DEF Created, Writing
<1>1. \/ op.at \in {"idle", "admitted", "waiting", "create", "done", "lost"}
      \/ op.at \in Writing /\ op.then \in {"waiting", "done"}
  BY NextRow DEF Created
<1>2. UNCHANGED op \/ HandlerMoves \/ Lost
  BY OpMoves
<1>3. op.at = "create" => UNCHANGED op \/ Lost
  <2>1. ~CreateRow
    BY DEF CreateRow, Settled
  <2> QED
    BY <2>1, NextAtWrite
<1>4. CASE UNCHANGED op
  BY <1>1, <1>4
<1>5. CASE HandlerMoves /\ op.at # "create"
  BY <1>1, <1>5 DEF HandlerMoves, Moves, Says, Writing
<1>6. CASE Lost
  BY <1>6 DEF Lost
<1> QED
  BY <1>2, <1>3, <1>4, <1>5, <1>6

LEMMA OutcomeKept ==
    ASSUME TypeOK, Pairs, Succeeds, Unknown, Created, Outcome, Next
    PROVE  Outcome'
<1> SUFFICES ASSUME op'.say = "completed", op'.at \notin {"write", "persist"}
             PROVE  row'.state \in Settled
  BY DEF Outcome
<1>1. RowTyped /\ OpTyped
  BY TypeOKParts
<1>2. CASE OpPersists
  <2>1. op.say = "completed"
    BY <1>1, <1>2, StepMoves DEF OpPersists, Moves, Writing
  <2>2. op.then = "end"
    BY <1>2, <2>1 DEF OpPersists, Succeeds
  <2>3. row.state # "none"
    BY <1>2, <2>2 DEF OpPersists, Created
  <2>4. op.say \in Said /\ \A state \in Current(Home, op.say, "op") : state \in Said /\ state \in Settled
    BY <2>1, CurrentSaid DEF Said, Processed
  <2> QED
    BY <1>1, <1>2, <2>3, <2>4, PersistKeeps DEF OpPersists
<1>3. CASE UNCHANGED op
  BY <1>3, NextRow DEF Outcome
<1>4. CASE HandlerMoves /\ op.at # "persist"
  <2>1. op.say = "completed" /\ op.at \notin {"write", "persist"}
    BY <1>4 DEF HandlerMoves, Moves, Says
  <2> QED
    BY <2>1, NextRow DEF Outcome
<1>5. CASE Lost
  BY <1>5 DEF Lost
<1> QED
  BY <1>2, <1>3, <1>4, <1>5, OpMoves, NextAtWrite

-----------------------------------------------------------------------------
(***************************************************************************)
(* What a frontend shows, once it has merged what it was sent.             *)
(***************************************************************************)
LEMMA PublishTold ==
    ASSUME MessagesTyped, NEW f \in Frontends, NEW me, NEW state \in Processed,
           Publish(f, state, me)
    PROVE  heard' = Up /\ \A g \in Up : LastSaid(g)'
<1>1. heard' = Up
  BY DEF Publish
<1>2. ASSUME NEW g \in Up PROVE LastSaid(g)'
  <2>1. g \in Frontends /\ progress[g] \in Messages
    BY DEF Up, MessagesTyped
  <2>2. progress'[g] = Append(progress[g], state)
    BY <2>1 DEF Publish
  <2>3. state \in Said
    BY DEF Said
  <2>4. /\ progress'[g] # <<>> /\ Len(progress'[g]) = Len(progress[g]) + 1
        /\ progress'[g][Len(progress[g]) + 1] = state
    BY <2>1, <2>2, <2>3, AppendProperties DEF Messages
  <2> QED
    BY <2>4 DEF LastSaid
<1> QED
  BY <1>1, <1>2

LEMMA MergeTold ==
    ASSUME StatusTyped, MessagesTyped, NEW f \in Frontends, MergeStatus(f),
           NEW g \in Frontends, LastSaid(g)
    PROVE  LastSaid(g)'
<1>1. CASE g # f
  <2>1. progress'[g] = progress[g] /\ status'[g] = status[g]
    BY <1>1 DEF MergeStatus, Remember, StatusTyped, MessagesTyped
  <2> QED
    BY <2>1 DEF LastSaid
<1>2. CASE g = f
  <2> DEFINE queue == progress[f]
             left == Tail(queue)
  <2>1. queue \in Messages /\ queue # <<>> /\ queue[Len(queue)] \in Processed
    BY <1>2 DEF MessagesTyped, MergeStatus, LastSaid
  <2>2. progress'[f] = left /\ status'[f].state = Head(queue)
    BY DEF MergeStatus, Remember, StatusTyped, MessagesTyped
  <2>3. Len(queue) \in Nat /\ Len(queue) > 0 /\ Head(queue) = queue[1]
    BY <2>1 DEF Messages
  <2>4. left \in Messages /\ Len(left) = Len(queue) - 1
        /\ \A i \in 1..Len(left) : left[i] = queue[i + 1]
    BY <2>1, HeadTailProperties DEF Messages
  <2>5. left = <<>> <=> Len(left) = 0
    BY <2>4, EmptySeq DEF Messages
  <2> HIDE DEF queue, left
  <2>6. CASE left = <<>>
    <3>1. Len(queue) = 1
      BY <2>3, <2>4, <2>5, <2>6
    <3>2. status'[f].state \in Processed
      BY <2>1, <2>2, <2>3, <3>1
    <3> QED
      BY <1>2, <2>2, <2>6, <3>2 DEF LastSaid
  <2>7. CASE left # <<>>
    <3>1. Len(left) \in 1..Len(left) /\ Len(left) + 1 = Len(queue)
      BY <2>3, <2>4, <2>5, <2>7
    <3>2. left[Len(left)] \in Processed
      BY <2>1, <2>4, <3>1
    <3> QED
      BY <1>2, <2>2, <2>7, <3>2 DEF LastSaid
  <2> QED
    BY <2>6, <2>7
<1> QED
  BY <1>1, <1>2

\* The mark of a cancellation ends the operation, too.
LEMMA MarkTold ==
    ASSUME StatusTyped, NEW f \in Frontends, MarkCancelled(f), UNCHANGED progress,
           NEW g \in Frontends, LastSaid(g)
    PROVE  LastSaid(g)'
<1>1. status'[g].state = status[g].state \/ status'[g].state = "cancelled"
  BY DEF MarkCancelled, StatusTyped
<1> QED
  BY <1>1 DEF LastSaid, Processed

LEMMA ToldKept ==
    ASSUME TypeOK, Pairs, Early, Told, Next
    PROVE  Told'
<1> DEFINE Final == op.at \in {"waiting", "end", "done"}
<1>0. /\ StatusTyped /\ MessagesTyped /\ OpTyped /\ RestTyped
      /\ heard \subseteq Frontends /\ Up \subseteq Frontends
  BY TypeOKParts DEF RestTyped, Up
<1>1. /\ UNCHANGED <<heard, status, progress, life>> => \A f \in Frontends : LastSaid(f) => LastSaid(f)'
      /\ UNCHANGED life => Up' = Up
  BY DEF LastSaid, Up
<1>2. CASE OpPublishes
  <2>1. op.at = "publish" /\ op.say \in Said
    BY <1>2, OpSays DEF OpPublishes, Writing
  <2>2. PICK state \in Said : Publish(Home, state, "op") /\ (state # op.say => state \in Processed)
    BY <1>2, <2>1, CurrentSaid DEF OpPublishes
  <2>3. op'.at = op.then /\ Up' = Up
    BY <1>0, <1>2, StepMoves DEF OpPublishes, Moves, Up, OpTyped
  <2>4. CASE state \in Processed
    <3>1. heard' = Up /\ \A g \in Up : LastSaid(g)'
      BY <1>0, <2>2, <2>4, PublishTold, GalleryOpsAssumption DEF GalleryOpsAssumption
    <3> QED
      BY <2>3, <3>1 DEF Told
  <2>5. CASE state \notin Processed
    <3>1. op.say = "active" /\ heard' = heard
      BY <2>1, <2>2, <2>5 DEF Said, Publish
    <3>2. op.then \in {"waiting", "install", "error"}
      BY <2>1, <3>1 DEF Pairs, Writing
    <3>3. op.then = "waiting" => heard = {}
      BY <2>1 DEF Early, IsEarly, Writing
    <3> QED
      BY <2>3, <3>1, <3>2, <3>3 DEF Told
  <2> QED
    BY <2>4, <2>5
<1>3. CASE OpRemembers
  <2>1. op'.at = "persist" /\ heard' = heard /\ Up' = Up
    BY <1>0, <1>3, StepMoves DEF OpRemembers, Moves, Writing, history, Up
  <2> QED
    BY <2>1 DEF Told
<1>4. CASE Admit \/ OpPersists \/ QueueStep \/ HandlerStep \/ InstallStep
  <2>1. UNCHANGED <<heard, status, progress, life>>
    BY <1>4 DEF Admit, OpPersists, QueueStep, Enqueue, AbandonQueued, Deliver, HandlerStep,
       CreateRow, FindDuplicate, CheckCancelled, InstallCancelled, Unwind, UpdateError,
       RemoveCancellation, InstallStep, Tick, InstallSucceeds, InstallFails, history, messages
  <2>2. op'.at \in {"waiting", "end", "done"} => Final
    <3>1. ~Moves("publish", op.then)
      BY <1>4 DEF Moves, Admit, OpPersists, QueueStep, Enqueue, AbandonQueued, Deliver, HandlerStep,
         CreateRow, FindDuplicate, CheckCancelled, InstallCancelled, Unwind, UpdateError,
         RemoveCancellation, InstallStep, Tick, InstallSucceeds, InstallFails
    <3>2. UNCHANGED op \/ HandlerMoves \/ Lost
      BY OpMoves
    <3> QED
      BY <3>1, <3>2 DEF HandlerMoves, Moves, Says, Lost
  <2> QED
    BY <1>0, <1>1, <2>1, <2>2 DEF Told
<1>5. CASE Ages
  BY <1>0, <1>1, <1>5 DEF Ages, Told, history, messages
<1>6. ASSUME NEW s \in Stops, StopOperation(s) \/ StopStep(s)
      PROVE  Told'
  <2>1. UNCHANGED <<op, heard, progress, life>>
    BY <1>6 DEF StopOperation, StopStep, StopPersists, StopPublishes, history, messages
  <2>2. CASE UNCHANGED status
    BY <1>0, <1>1, <2>1, <2>2 DEF Told
  <2>3. CASE StopOperation(s)
    <3>1. PICK f \in Up : MarkCancelled(f)
      BY <2>3 DEF StopOperation
    <3>2. \A g \in Frontends : LastSaid(g) => LastSaid(g)'
      BY <1>0, <2>1, <3>1, MarkTold
    <3> QED
      BY <1>0, <1>1, <2>1, <3>2 DEF Told
  <2> QED
    BY <1>6, <2>2, <2>3 DEF StopStep, StopPersists, StopPublishes
<1>7. ASSUME NEW f \in Frontends, MergeStatus(f)
      PROVE  Told'
  <2>1. UNCHANGED <<op, heard, life>>
    BY <1>7 DEF MergeStatus, history
  <2>2. \A g \in Frontends : LastSaid(g) => LastSaid(g)'
    BY <1>0, <1>7, MergeTold
  <2> QED
    BY <1>0, <1>1, <2>1, <2>2 DEF Told
<1>8. ASSUME NEW f \in Frontends, ApplyCancel(f)
      PROVE  Told'
  <2>1. UNCHANGED <<op, heard, progress, life>>
    BY <1>8 DEF ApplyCancel, history
  <2>2. \A g \in Frontends : LastSaid(g) => LastSaid(g)'
    BY <1>0, <1>1, <1>8, <2>1, MarkTold DEF ApplyCancel
  <2> QED
    BY <1>0, <1>1, <2>1, <2>2 DEF Told
<1>9. ASSUME NEW f \in Frontends, ReapCleans(f) \/ ReapPersists(f) \/ Boot(f) \/ SubscribeBroadcasts(f)
      PROVE  Told'
  <2>1. UNCHANGED <<op, heard, status, progress>>
    BY <1>9 DEF ReapCleans, ReapPersists, Boot, SubscribeBroadcasts, history, messages
  <2>2. Up \subseteq Up'
    BY <1>0, <1>9 DEF ReapCleans, ReapPersists, Boot, SubscribeBroadcasts, Up, RestTyped
  <2> QED
    BY <1>0, <2>1, <2>2 DEF Told, LastSaid
<1>10. ASSUME NEW f \in Frontends, ReapChecks(f)
       PROVE  Told'
  <2>1. UNCHANGED <<op, heard, progress, life>>
    BY <1>10 DEF ReapChecks, messages
  <2>2. ASSUME NEW g \in Frontends, LastSaid(g)
        PROVE  LastSaid(g)'
    <3>1. status'[g] = status[g] \/ status'[g].state = "failed"
      BY <1>0, <1>10 DEF ReapChecks, Remember, StatusTyped
    <3> QED
      BY <2>1, <2>2, <3>1 DEF LastSaid, Processed
  <2> QED
    BY <1>0, <1>1, <2>1, <2>2 DEF Told
<1>11. ASSUME NEW f \in Frontends, ReapPublishes(f)
       PROVE  Told'
  <2>1. PICK state \in Processed : Publish(f, state, "reaper")
    BY <1>11, CurrentSaid DEF ReapPublishes, Said, Processed
  <2>2. heard' = Up /\ \A g \in Up : LastSaid(g)'
    BY <1>0, <2>1, PublishTold
  <2>3. Up' = Up
    BY <1>1, <1>11 DEF ReapPublishes
  <2> QED
    BY <2>2, <2>3 DEF Told
<1>12. ASSUME NEW f \in Frontends, Hydrate(f)
       PROVE  Told'
  <2>1. UNCHANGED <<op, heard, progress>> /\ f \notin Up /\ Up \subseteq Up'
    BY <1>0, <1>12 DEF Hydrate, Up, RestTyped, history, messages
  <2>2. \A g \in Frontends : g # f => status'[g] = status[g]
    BY <1>0, <1>12 DEF Hydrate, StatusTyped
  <2> QED
    BY <1>0, <2>1, <2>2 DEF Told, LastSaid
<1>13. ASSUME NEW f \in Frontends, Crash(f)
       PROVE  Told'
  <2>1. /\ heard' = heard \ {f}
        /\ Up \ {f} \subseteq Up'
        /\ op'.at \in {"waiting", "end", "done"} => Final
    BY <1>0, <1>13 DEF Crash, Up, RestTyped, NoOp
  <2>2. \A g \in Frontends : g # f => status'[g] = status[g] /\ progress'[g] = progress[g]
    BY <1>0, <1>13 DEF Crash, StatusTyped, MessagesTyped
  <2> QED
    BY <1>0, <2>1, <2>2 DEF Told, LastSaid
<1> QED
  BY <1>2, <1>3, <1>4, <1>5, <1>6, <1>7, <1>8, <1>9, <1>10, <1>11, <1>12, <1>13
     DEF Next, WriteStep, ReapStep, BootStep

-----------------------------------------------------------------------------
LEMMA NextInv == Inv /\ [Next]_vars => Inv'
<1>1. ASSUME Inv, Next PROVE Inv'
  BY <1>1, NextTyped, PairsKept, EarlyKept, UnknownKept, CreatedKept, OutcomeKept, ToldKept DEF Inv
<1>2. ASSUME Inv, UNCHANGED vars PROVE Inv'
  <2>1. UNCHANGED <<status, cancellations, cancelled, row, progress, cancels, op, stop, reaper,
                    life, crashes, heard, unheard>>
    BY <1>2 DEF vars, messages, history
  <2>2. TypeOK'
    BY <1>2, <2>1 DEF Inv, TypeOK
  <2>3. Pairs' /\ Succeeds' /\ Early' /\ Unknown' /\ Created' /\ Outcome'
    BY <1>2, <2>1 DEF Inv, Pairs, Succeeds, Early, IsEarly, Unknown, Created, Outcome
  <2>4. Told'
    BY <1>2, <2>1 DEF Inv, Told, LastSaid, Up
  <2> QED
    BY <2>2, <2>3, <2>4 DEF Inv
<1> QED
  BY <1>1, <1>2

(***************************************************************************)
(* The inductive invariant: what a handler may be saying, that a success   *)
(* has settled the row, and what the frontends were told last.             *)
(***************************************************************************)
THEOREM Invariant == Spec => []Inv
  BY InitInv, NextInv, PTL DEF Spec

(***************************************************************************)
(* Type correctness, for any frontends, stops and bounds.                  *)
(***************************************************************************)
THEOREM TypeCorrect == Spec => []TypeOK
<1>1. Inv => TypeOK
  BY DEF Inv
<1> QED
  BY <1>1, Invariant, PTL

(***************************************************************************)
(* A settled row keeps its state, whatever the handler, the reapers, the   *)
(* boots and the stops still write (UpdateStatus, Create, CleanStale).     *)
(***************************************************************************)
THEOREM SettledRowStays == Spec => RowSettles
<1>1. Inv /\ [Next]_vars => [row.state \in Settled => row'.state = row.state]_vars
  BY NextRow DEF Inv
<1> QED
  BY <1>1, Invariant, PTL DEF Spec, RowSettles

(***************************************************************************)
(* A success reaches the row, also one that a reaper had failed: Create    *)
(* opens it again before the handler installs.                             *)
(***************************************************************************)
THEOREM SuccessIsRecorded == Spec => []OutcomeRecorded
<1>1. Inv => OutcomeRecorded
  BY DEF Inv, Outcome, OutcomeRecorded
<1> QED
  BY <1>1, Invariant, PTL

(***************************************************************************)
(* Of what a frontend was sent, the end of the operation is the last: the  *)
(* handler closes its reports before it says how it ended.                 *)
(***************************************************************************)
THEOREM LastWordArrives == Spec => []FinalWordArrives
<1>1. Inv => FinalWordArrives
  BY DEF Inv, Told, LastSaid, FinalWordArrives
<1> QED
  BY <1>1, Invariant, PTL
=============================================================================
