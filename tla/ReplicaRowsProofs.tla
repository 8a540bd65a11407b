------------------------- MODULE ReplicaRowsProofs -------------------------
(***************************************************************************)
(* ReplicaRows for every number of slots, frontends, requests and loads:   *)
(* typing, that no row of an old configuration serves, and that every unit *)
(* of a counter is one that somebody gives back, or that a kill or a       *)
(* client that went away has left.                                         *)
(*                                                                         *)
(* A step either leaves the counters and revisions of the rows alone, or   *)
(* lowers them (Lowers), or writes a row, or adds one unit (Incremented).  *)
(* The three invariants are then shown once for each of these kinds.       *)
(***************************************************************************)
EXTENDS ReplicaRows, FiniteSetTheorems, TLAPS

-----------------------------------------------------------------------------
(***************************************************************************)
(* What the statements do to the rows.                                     *)
(***************************************************************************)
RowsTyped == rows \in [Slots -> Row] /\ leaked \in [Slots -> Nat]

\* Rows x and y are of one write.
SameWrite(x, y) == x.id = y.id /\ x.writer = y.writer /\ x.rev = y.rev

\* No counter grows, what was left in it may, and no row is written anew.
Lowers ==
    \A s \in Slots :
        /\ \/ rows'[s].inFlight = 0
           \/ /\ rows'[s].inFlight <= rows[s].inFlight
              /\ leaked'[s] \in {leaked[s], leaked[s] + 1}
        /\ \/ rows'[s].state = "none"
           \/ /\ SameWrite(rows'[s], rows[s])
              /\ \/ rows'[s].state = rows[s].state
                 \/ /\ rows[s].state \in Active /\ rows'[s].state = "unloading"
                    /\ revision' # revision

LEMMA NoRowTyped == NoRow \in Row
BY ReplicaRowsAssumption DEF ReplicaRowsAssumption, NoRow, Row, RowIDs, Active

LEMMA UnchangedLowers ==
    ASSUME RowsTyped, UNCHANGED <<rows, leaked>>
    PROVE  RowsTyped' /\ Lowers
BY DEF RowsTyped, Lowers, Row, SameWrite

\* A client goes away, and leaves a unit.
LEMMA LostLowers ==
    ASSUME RowsTyped, NEW r, ReservationLost(r)
    PROVE  RowsTyped' /\ Lowers
<1>1. UNCHANGED rows /\ leaked' = [leaked EXCEPT ![req[r].slot] = leaked[req[r].slot] + 1]
  BY DEF ReservationLost
<1>2. \A s \in Slots : leaked[s] \in Nat /\ leaked[s] + 1 \in Nat /\ rows[s].inFlight \in Nat
  BY DEF RowsTyped, Row
<1>3. \A s \in Slots : leaked'[s] \in {leaked[s], leaked[s] + 1}
  BY <1>1 DEF RowsTyped
<1>4. leaked' \in [Slots -> Nat]
  BY <1>1, <1>2 DEF RowsTyped
<1> QED
  BY <1>1, <1>2, <1>3, <1>4 DEF RowsTyped, Lowers, SameWrite

LEMMA RemovedLowers ==
    ASSUME RowsTyped, NEW s, Removed(s)
    PROVE  RowsTyped' /\ Lowers
<1>1. RowsTyped'
  BY NoRowTyped DEF RowsTyped, Removed
<1>2. ASSUME NEW t \in Slots, t = s
      PROVE  rows'[t].inFlight = 0 /\ rows'[t].state = "none"
  BY <1>2 DEF RowsTyped, Removed, NoRow
<1>3. ASSUME NEW t \in Slots, t # s
      PROVE  rows'[t] = rows[t] /\ leaked'[t] = leaked[t] /\ rows[t].inFlight \in Nat
  BY <1>3 DEF RowsTyped, Removed, Row
<1> QED
  BY <1>1, <1>2, <1>3 DEF Lowers, SameWrite

LEMMA DecrementedLowers ==
    ASSUME RowsTyped, NEW s, Decremented(s), UNCHANGED leaked
    PROVE  RowsTyped' /\ Lowers
<1>1. CASE ~(rows[s].inFlight > 0)
  BY <1>1, UnchangedLowers DEF Decremented
<1>2. CASE rows[s].inFlight > 0
  <2> DEFINE x == [rows[s] EXCEPT !.inFlight = @ - 1]
  <2>1. rows' = [rows EXCEPT ![s] = x]
    BY <1>2 DEF Decremented
  <2>2. ASSUME s \in Slots
        PROVE  x \in Row /\ x.inFlight <= rows[s].inFlight /\ x.state = rows[s].state
               /\ SameWrite(x, rows[s])
    <3>1. rows[s] \in Row /\ rows[s].inFlight \in Nat
      BY <2>2 DEF RowsTyped, Row
    <3>2. rows[s].inFlight - 1 \in Nat
      BY <3>1, <1>2
    <3> QED
      BY <3>1, <3>2 DEF Row, RowIDs, SameWrite
  <2> HIDE DEF x
  <2>3. ASSUME NEW t \in Slots
        PROVE  rows'[t] = IF t = s THEN x ELSE rows[t]
    BY <2>1 DEF RowsTyped
  <2>4. \A t \in Slots : rows[t].inFlight \in Nat
    BY DEF RowsTyped, Row
  <2>5. RowsTyped'
    BY <2>1, <2>2 DEF RowsTyped
  <2> QED
    BY <2>2, <2>3, <2>4, <2>5 DEF Lowers, SameWrite
<1> QED
  BY <1>1, <1>2

\* A row that is written again but for its counter, its state and its revision.
LEMMA TouchedLowers ==
    ASSUME RowsTyped, UNCHANGED leaked, rows' \in [Slots -> Row],
           \A s \in Slots : /\ rows'[s].inFlight = rows[s].inFlight
                            /\ rows'[s].state = rows[s].state
                            /\ SameWrite(rows'[s], rows[s])
    PROVE  RowsTyped' /\ Lowers
BY DEF RowsTyped, Lowers, Row

LEMMA LeaseLowers ==
    ASSUME RowsTyped, UNCHANGED leaked, NEW S, NEW v \in BOOLEAN,
           rows' = [s \in Slots |-> IF s \in S THEN [rows[s] EXCEPT !.leased = v] ELSE rows[s]]
    PROVE  RowsTyped' /\ Lowers
<1>1. ASSUME NEW s \in Slots
      PROVE  /\ rows'[s] \in Row
             /\ rows'[s].inFlight = rows[s].inFlight
             /\ rows'[s].state = rows[s].state
             /\ SameWrite(rows'[s], rows[s])
  <2>1. rows[s] \in Row
    BY DEF RowsTyped
  <2>2. [rows[s] EXCEPT !.leased = v] \in Row
    BY <2>1 DEF Row, RowIDs
  <2>3. rows'[s] = IF s \in S THEN [rows[s] EXCEPT !.leased = v] ELSE rows[s]
    OBVIOUS
  <2> QED
    BY <2>1, <2>2, <2>3 DEF Row, RowIDs, SameWrite
<1> QED
  BY <1>1, TouchedLowers

LEMMA FreshLowers ==
    ASSUME RowsTyped, UNCHANGED leaked, NEW s, NEW v \in BOOLEAN,
           rows' = [rows EXCEPT ![s].fresh = v]
    PROVE  RowsTyped' /\ Lowers
<1>1. ASSUME NEW t \in Slots
      PROVE  /\ rows'[t] \in Row
             /\ rows'[t].inFlight = rows[t].inFlight
             /\ rows'[t].state = rows[t].state
             /\ SameWrite(rows'[t], rows[t])
  <2>1. rows[t] \in Row
    BY DEF RowsTyped
  <2>2. [rows[t] EXCEPT !.fresh = v] \in Row
    BY <2>1 DEF Row, RowIDs
  <2>3. rows'[t] = IF t = s THEN [rows[t] EXCEPT !.fresh = v] ELSE rows[t]
    BY DEF RowsTyped
  <2> QED
    BY <2>1, <2>2, <2>3 DEF Row, RowIDs, SameWrite
<1>2. rows' \in [Slots -> Row]
  BY <1>1 DEF RowsTyped
<1> QED
  BY <1>1, <1>2, TouchedLowers

LEMMA RetryLaterLowers ==
    ASSUME RowsTyped, UNCHANGED leaked, NEW s \in Slots, RetryLater(s)
    PROVE  RowsTyped' /\ Lowers
<1>1. CASE rows[s].state # "unloading"
  BY <1>1, UnchangedLowers DEF RetryLater
<1>2. CASE rows[s].state = "unloading"
  <2>1. rows' = [t \in Slots |-> IF t \in {s} THEN [rows[t] EXCEPT !.leased = TRUE]
                                 ELSE rows[t]]
    BY <1>2 DEF RetryLater, RowsTyped
  <2> QED
    BY <2>1, LeaseLowers
<1> QED
  BY <1>1, <1>2

LEMMA NotStoppedLowers ==
    ASSUME RowsTyped, UNCHANGED leaked, NEW q, q.slot \in Slots, NotStopped(q)
    PROVE  RowsTyped' /\ Lowers
BY RetryLaterLowers DEF NotStopped

LEMMA RemoveClaimedLowers ==
    ASSUME RowsTyped, NEW q, RemoveClaimed(q)
    PROVE  RowsTyped' /\ Lowers
BY UnchangedLowers, RemovedLowers DEF RemoveClaimed

LEMMA WrittenTyped ==
    ASSUME RowsTyped, NEW l \in Loads, NEW state \in Active, NEW n \in Nat,
           load[l].rev \in 0..MaxRevision, Written(l, state, n)
    PROVE  /\ RowsTyped'
           /\ \A s \in Slots :
                IF s = load[l].slot
                THEN /\ rows'[s].inFlight = n /\ rows'[s].rev = load[l].rev
                     /\ rows'[s].state = state
                ELSE rows'[s] = rows[s] /\ leaked'[s] = leaked[s]
<1> DEFINE k == load[l].slot
           x(s) == [state |-> state, id |-> IF Exists(k) THEN rows[s].id ELSE l,
                    writer |-> l, rev |-> load[l].rev, inFlight |-> n, fresh |-> TRUE,
                    leased |-> rows[s].leased]
<1>1. rows' = [rows EXCEPT ![k] = x(k)] /\ leaked' = [leaked EXCEPT ![k] = 0]
  BY DEF Written
<1>2. ASSUME k \in Slots
      PROVE  x(k) \in Row /\ x(k).inFlight = n /\ x(k).rev = load[l].rev
             /\ x(k).state = state
  <2>1. rows[k] \in Row
    BY <1>2 DEF RowsTyped
  <2> QED
    BY <2>1 DEF Row, RowIDs
<1> HIDE DEF x
<1>3. RowsTyped'
  BY <1>1, <1>2 DEF RowsTyped
<1>4. ASSUME NEW s \in Slots
      PROVE  /\ s = k => rows'[s] = x(k)
             /\ s # k => rows'[s] = rows[s] /\ leaked'[s] = leaked[s]
  BY <1>1 DEF RowsTyped
<1> QED
  BY <1>2, <1>3, <1>4

LEMMA IncrementedTyped ==
    ASSUME RowsTyped, UNCHANGED leaked, NEW s, Incremented(s)
    PROVE  /\ RowsTyped'
           /\ \A t \in Slots :
                /\ rows'[t].inFlight =
                       rows[t].inFlight + (IF t = s /\ Exists(s) THEN 1 ELSE 0)
                /\ rows'[t].state = rows[t].state /\ SameWrite(rows'[t], rows[t])
<1>1. \A t \in Slots : rows[t] \in Row /\ rows[t].inFlight \in Nat
  BY DEF RowsTyped, Row
<1>2. CASE ~Exists(s)
  BY <1>1, <1>2 DEF Incremented, RowsTyped, SameWrite
<1>3. CASE Exists(s)
  <2> DEFINE x == [rows[s] EXCEPT !.inFlight = @ + 1, !.fresh = TRUE]
  <2>1. rows' = [rows EXCEPT ![s] = x]
    BY <1>3 DEF Incremented
  <2>2. ASSUME s \in Slots
        PROVE  x \in Row /\ x.inFlight = rows[s].inFlight + 1 /\ x.state = rows[s].state
               /\ SameWrite(x, rows[s])
    <3>1. rows[s] \in Row /\ rows[s].inFlight + 1 \in Nat
      BY <2>2, <1>1
    <3> QED
      BY <3>1 DEF Row, RowIDs, SameWrite
  <2> HIDE DEF x
  <2>3. ASSUME NEW t \in Slots
        PROVE  rows'[t] = IF t = s THEN x ELSE rows[t]
    BY <2>1 DEF RowsTyped
  <2>4. RowsTyped'
    BY <2>1, <2>2 DEF RowsTyped
  <2> QED
    BY <1>1, <1>3, <2>2, <2>3, <2>4 DEF SameWrite
<1> QED
  BY <1>2, <1>3

-----------------------------------------------------------------------------
(***************************************************************************)
(* What the actors know at each step.                                      *)
(***************************************************************************)
LoadsPlaced == \A l \in Loads : load[l].pc \notin {"idle", "done"} => load[l].slot \in Slots

RequestHolds(q) ==
    /\ q.held => q.pc \notin {"idle", "cold", "drop", "inline"}
    /\ q.counted => q.pc = "call"

RequestsHold == \A r \in Requests : RequestHolds(req[r])

\* An inline load works for one request, which waits for it.
LoadsInline ==
    \A l \in Loads : LET r == load[l].by IN
        r # None =>
            /\ load[l].pc \notin {"idle", "done"}
            /\ Home[l] = Home[r]
            /\ req[r].pc = "inline"
            /\ \A m \in Loads : load[m].by = r => m = l

RequestsTyped == req \in [Requests -> Request] /\ RequestsHold
LoadsTyped == load \in [Loads -> Load] /\ LoadsPlaced
SweepTyped ==
    /\ sweep \in [pc : {"idle", "sweep"}, todo : SUBSET (Slots \X RowIDs),
                  seen : SUBSET RowIDs, hit : SUBSET (Slots \X RowIDs)]
    /\ streak \in [Loads -> 0..2]
CleanersTyped == cleaner \in [Cleaners -> [todo : SUBSET Claim, ended : SUBSET Claim]]
ReleasesTyped == stored \in [Frontends -> Requests \cup {None}] /\ releasing \subseteq Requests
ScaleTyped == scale \in Slots \cup {None}
RefusingTyped == refusing \subseteq OtherHost

Typed ==
    /\ revision \in Revision
    /\ RowsTyped /\ RequestsTyped /\ LoadsTyped /\ LoadsInline
    /\ SweepTyped /\ CleanersTyped /\ ReleasesTyped /\ ScaleTyped /\ RefusingTyped

LEMMA TypedIsTypeOK == Typed => TypeOK
BY DEF Typed, TypeOK, RowsTyped, RequestsTyped, LoadsTyped, SweepTyped, CleanersTyped,
       ReleasesTyped, ScaleTyped, RefusingTyped

\* A claim can be made on every row that there is.
LEMMA ClaimTyped ==
    ASSUME RowsTyped, NEW s \in Slots
    PROVE  ClaimOf(s) \in Claim
BY DEF RowsTyped, ClaimOf, Claim, Row

-----------------------------------------------------------------------------
(***************************************************************************)
(* Requests.                                                               *)
(***************************************************************************)
\* Request r goes on as q.
Moves(r, q) ==
    /\ q \in Request
    /\ RequestHolds(q)
    /\ req' = [req EXCEPT ![r] = q]

LEMMA MovesTyped ==
    ASSUME RequestsTyped, NEW r \in Requests, NEW q, Moves(r, q)
    PROVE  RequestsTyped'
<1>1. req' \in [Requests -> Request]
  BY DEF RequestsTyped, Moves
<1>2. ASSUME NEW u \in Requests PROVE RequestHolds(req'[u])
  BY DEF RequestsTyped, RequestsHold, Moves
<1>3. RequestsHold' <=> \A u \in Requests : RequestHolds(req'[u])
  BY DEF RequestsHold, RequestHolds
<1> QED
  BY <1>1, <1>2, <1>3 DEF RequestsTyped

\* The steps that stay clear of a load.
Quiet(r) ==
    \/ \E s \in Slots : FindAndLock(r, s)
    \/ NoReplica(r) \/ ReservationReturned(r) \/ ReservationLost(r) \/ DropRow(r)
    \/ GiveUp(r) \/ Routed(r) \/ Release(r) \/ BeginCall(r) \/ ModelGone(r)
    \/ EndCall(r) \/ FirstComplete(r) \/ Leave(r)

\* The request is still inside its inline load, or still outside of one.
SameInline(r) == req'[r].pc = "inline" <=> req[r].pc = "inline"

LEMMA FailedHolds ==
    /\ Failed \in Request /\ RequestHolds(Failed) /\ Failed.pc = "done"
    /\ ~Failed.held /\ ~Failed.counted
BY DEF Failed, Idle, Request, RequestHolds

LEMMA QuietMoves ==
    ASSUME RequestsTyped, NEW r \in Requests, Quiet(r)
    PROVE  /\ \E q : Moves(r, q)
           /\ SameInline(r)
<1>1. req[r] \in Request /\ RequestHolds(req[r]) /\ req \in [Requests -> Request]
  BY DEF RequestsTyped, RequestsHold
<1>2. ASSUME NEW q \in Request, RequestHolds(q), req' = [req EXCEPT ![r] = q],
             q.pc = "inline" <=> req[r].pc = "inline"
      PROVE  (\E x : Moves(r, x)) /\ SameInline(r)
  BY <1>1, <1>2 DEF Moves, SameInline
<1>3. ASSUME NEW s \in Slots, FindAndLock(r, s)
      PROVE  (\E x : Moves(r, x)) /\ SameInline(r)
  <2> DEFINE q == [req[r] EXCEPT !.pc = "probe", !.slot = s, !.held = TRUE]
  <2>1. req' = [req EXCEPT ![r] = q] /\ req[r].pc \in {"idle", "cold"}
    BY <1>3 DEF FindAndLock
  <2>2. q \in Request /\ RequestHolds(q) /\ q.pc = "probe"
    BY <1>1, <2>1 DEF Request, RequestHolds
  <2> QED
    BY <1>2, <2>1, <2>2
<1>4. ASSUME Goto(r, "cold"), req[r].pc \in {"idle", "drop"}
      PROVE  (\E x : Moves(r, x)) /\ SameInline(r)
  <2> DEFINE q == [req[r] EXCEPT !.pc = "cold"]
  <2>1. req' = [req EXCEPT ![r] = q]
    BY <1>4 DEF Goto
  <2>2. q \in Request /\ RequestHolds(q) /\ q.pc = "cold"
    BY <1>1, <1>4 DEF Request, RequestHolds
  <2> QED
    BY <1>2, <1>4, <2>1, <2>2
<1>5. ASSUME FoundGone(r), req[r].pc \in {"idle", "probe", "drop"}
       PROVE  (\E x : Moves(r, x)) /\ SameInline(r)
  <2> DEFINE q == [req[r] EXCEPT !.pc = "cold", !.held = FALSE, !.gone = TRUE]
  <2>1. req' = [req EXCEPT ![r] = q]
    BY <1>5 DEF FoundGone
  <2>2. q \in Request /\ RequestHolds(q) /\ q.pc = "cold"
    BY <1>1, <1>5 DEF Request, RequestHolds
  <2> QED
    BY <1>2, <1>5, <2>1, <2>2
<1>6. CASE NoReplica(r) \/ DropRow(r) \/ ReservationLost(r)
  BY <1>4, <1>5, <1>6 DEF NoReplica, DropRow, ReservationLost
<1>7. CASE GiveUp(r)
  BY <1>2, <1>7, FailedHolds DEF GiveUp
<1>8. CASE Leave(r)
  <2> DEFINE q == [req[r] EXCEPT !.pc = "done", !.gone = FALSE]
  <2>1. req' = [req EXCEPT ![r] = q] /\ req[r].pc = "route"
    BY <1>8 DEF Leave
  <2>2. q \in Request /\ RequestHolds(q) /\ q.pc = "done"
    BY <1>1, <2>1 DEF Request, RequestHolds
  <2> QED
    BY <1>2, <2>1, <2>2
<1>9. CASE ReservationReturned(r)
  <2>1. PICK step \in {"cold", "drop"} : req' = [req EXCEPT ![r].pc = step, ![r].held = FALSE]
    BY <1>9 DEF ReservationReturned
  <2> DEFINE q == [req[r] EXCEPT !.pc = step, !.held = FALSE]
  <2>2. req' = [req EXCEPT ![r] = q] /\ req[r].pc = "probe"
    BY <1>9, <2>1 DEF ReservationReturned
  <2>3. q \in Request /\ RequestHolds(q) /\ q.pc = step
    BY <1>1, <2>2 DEF Request, RequestHolds
  <2> QED
    BY <1>2, <2>2, <2>3
<1>10. CASE Routed(r)
  <2> DEFINE q == [req[r] EXCEPT !.pc = "route"]
  <2>1. req' = [req EXCEPT ![r] = q] /\ req[r].pc = "probe"
    BY <1>10 DEF Routed, Goto
  <2>2. q \in Request /\ RequestHolds(q) /\ q.pc = "route"
    BY <1>1, <2>1 DEF Request, RequestHolds
  <2> QED
    BY <1>2, <2>1, <2>2
<1>11. CASE Release(r)
  <2> DEFINE q == [req[r] EXCEPT !.held = FALSE]
  <2>1. req' = [req EXCEPT ![r] = q]
    BY <1>11 DEF Release
  <2>2. q \in Request /\ RequestHolds(q) /\ q.pc = req[r].pc
    BY <1>1 DEF Request, RequestHolds
  <2> QED
    BY <1>2, <2>1, <2>2
<1>12. CASE BeginCall(r)
  <2> DEFINE q == [req[r] EXCEPT !.pc = "call", !.counted = Exists(req[r].slot)]
  <2>1. req' = [req EXCEPT ![r] = q] /\ req[r].pc = "route"
    BY <1>12 DEF BeginCall
  <2>2. Exists(req[r].slot) \in BOOLEAN
    BY DEF Exists
  <2>3. q \in Request /\ RequestHolds(q) /\ q.pc = "call"
    BY <1>1, <2>1, <2>2 DEF Request, RequestHolds
  <2> QED
    BY <1>2, <2>1, <2>3
<1>13. CASE ModelGone(r)
  BY <1>1, <1>2, <1>13 DEF ModelGone
<1>14. CASE EndCall(r)
  <2> DEFINE step == IF req[r].counted THEN "first" ELSE "route"
             q == [req[r] EXCEPT !.pc = step, !.counted = FALSE]
  <2>1. req' = [req EXCEPT ![r] = q] /\ req[r].pc = "call"
    BY <1>14 DEF EndCall
  <2>2. q \in Request /\ RequestHolds(q) /\ q.pc = step
    BY <1>1, <2>1 DEF Request, RequestHolds
  <2>3. q.pc = "inline" <=> req[r].pc = "inline"
    BY <2>1, <2>2
  <2> HIDE DEF q
  <2> QED
    BY <1>2, <2>1, <2>2, <2>3
<1>15. CASE FirstComplete(r)
  <2> DEFINE q == [req[r] EXCEPT !.pc = "route", !.held = FALSE]
  <2>1. req' = [req EXCEPT ![r] = q] /\ req[r].pc = "first"
    BY <1>15 DEF FirstComplete
  <2>2. q \in Request /\ RequestHolds(q) /\ q.pc = "route"
    BY <1>1, <2>1 DEF Request, RequestHolds
  <2> QED
    BY <1>2, <2>1, <2>2
<1> QED
  BY <1>3, <1>6, <1>7, <1>8, <1>9, <1>10, <1>11, <1>12, <1>13, <1>14, <1>15 DEF Quiet

LEMMA QuietLeaves ==
    ASSUME NEW r \in Requests, Quiet(r)
    PROVE  UNCHANGED <<revision, load, cleaner, sweep, streak, scale, refusing>>
BY DEF Quiet, FindAndLock, NoReplica, ReservationReturned, ReservationLost, DropRow, GiveUp,
       Routed, Release, BeginCall, ModelGone, EndCall, FirstComplete, Leave, ReqOnly, rest,
       sweepVars

\* What a quiet step does to the rows.
LEMMA QuietRows ==
    ASSUME RowsTyped, NEW r \in Requests, Quiet(r)
    PROVE  \/ RowsTyped' /\ Lowers
           \/ \E s : Incremented(s) /\ UNCHANGED leaked
<1>1. CASE NoReplica(r) \/ GiveUp(r) \/ Leave(r)
  BY <1>1, UnchangedLowers DEF NoReplica, GiveUp, Leave
<1>2. CASE DropRow(r) \/ ModelGone(r)
  BY <1>2, RemovedLowers, UnchangedLowers DEF DropRow, ModelGone
<1>3. CASE ReservationLost(r)
  BY <1>3, LostLowers
<1>4. CASE ReservationReturned(r)
  BY <1>4, DecrementedLowers DEF ReservationReturned
<1>5. CASE Release(r)
  BY <1>5, DecrementedLowers, UnchangedLowers DEF Release
<1>6. CASE EndCall(r)
  BY <1>6, DecrementedLowers, UnchangedLowers DEF EndCall
<1>7. CASE FirstComplete(r)
  BY <1>7, DecrementedLowers, UnchangedLowers DEF FirstComplete
<1>8. CASE Routed(r)
  BY <1>8, FreshLowers, UnchangedLowers DEF Routed
<1>9. CASE BeginCall(r) \/ \E s \in Slots : FindAndLock(r, s)
  BY <1>9 DEF BeginCall, FindAndLock
<1> QED
  BY <1>1, <1>2, <1>3, <1>4, <1>5, <1>6, <1>7, <1>8, <1>9 DEF Quiet

\* A quiet step keeps everybody well typed.
LEMMA QuietTyped ==
    ASSUME Typed, NEW r \in Requests, Quiet(r)
    PROVE  Typed'
<1>1. RowsTyped'
  BY QuietRows, IncrementedTyped DEF Typed
<1>2. RequestsTyped'
  BY QuietMoves, MovesTyped DEF Typed
<1>3. UNCHANGED <<revision, load, cleaner, sweep, streak, scale, refusing>>
  BY QuietLeaves
<1>4. LoadsTyped' /\ CleanersTyped' /\ SweepTyped' /\ ScaleTyped' /\ RefusingTyped'
      /\ revision' \in Revision
  BY <1>3 DEF Typed, LoadsTyped, LoadsPlaced, CleanersTyped, SweepTyped, ScaleTyped,
              RefusingTyped, Revision
<1>5. LoadsInline'
  <2>1. PICK q : Moves(r, q)
    BY QuietMoves DEF Typed
  <2>2. ASSUME NEW u PROVE req'[u].pc = "inline" <=> req[u].pc = "inline"
    <3>1. CASE u = r
      BY <3>1, QuietMoves DEF Typed, SameInline
    <3>2. CASE u # r
      BY <3>2, <2>1 DEF Moves, Typed, RequestsTyped
    <3> QED
      BY <3>1, <3>2
  <2> QED
    BY <1>3, <2>2 DEF Typed, LoadsInline
<1>6. ReleasesTyped'
  <2>1. CASE UNCHANGED <<stored, releasing>>
    BY <2>1 DEF Typed, ReleasesTyped
  <2>2. CASE Routed(r)
    <3>1. Home[r] \in Frontends
      BY ReplicaRowsAssumption DEF ReplicaRowsAssumption, Actors
    <3> QED
      BY <2>2, <3>1 DEF Routed, Stored, Typed, ReleasesTyped
  <2>3. CASE Release(r)
    BY <2>3 DEF Release, Typed, ReleasesTyped
  <2> QED
    BY <2>1, <2>2, <2>3
       DEF Quiet, FindAndLock, NoReplica, ReservationReturned, ReservationLost, DropRow,
           GiveUp, BeginCall, ModelGone, EndCall, FirstComplete, Leave, ReqOnly
<1> QED
  BY <1>1, <1>2, <1>4, <1>5, <1>6 DEF Typed
-----------------------------------------------------------------------------
(***************************************************************************)
(* Loads.                                                                  *)
(***************************************************************************)
\* Load l goes on as x.
LoadMoves(l, x) ==
    /\ x \in Load
    /\ x.pc \notin {"idle", "done"} => x.slot \in Slots
    /\ load' = [load EXCEPT ![l] = x]

LEMMA LoadMovesTyped ==
    ASSUME LoadsTyped, NEW l \in Loads, NEW x, LoadMoves(l, x)
    PROVE  LoadsTyped'
BY DEF LoadsTyped, LoadsPlaced, LoadMoves

LEMMA NoLoadTyped == NoLoad \in Load /\ NoLoad.by = None
BY ReplicaRowsAssumption DEF ReplicaRowsAssumption, NoLoad, Load

LEMMA DoneTyped ==
    [NoLoad EXCEPT !.pc = "done"] \in Load
    /\ [NoLoad EXCEPT !.pc = "done"].pc = "done"
    /\ [NoLoad EXCEPT !.pc = "done"].by = None
BY NoLoadTyped DEF NoLoad, Load

LEMMA EndedMoves ==
    ASSUME LoadsTyped, NEW l \in Loads, Ended(l)
    PROVE  \E x : LoadMoves(l, x) /\ x.by = None
<1> DEFINE x == [NoLoad EXCEPT !.pc = "done"]
<1>1. x \in Load /\ x.pc = "done" /\ x.by = None
  BY DoneTyped
<1>2. load' = [load EXCEPT ![l] = x]
  BY DEF Ended
<1> QED
  BY <1>1, <1>2 DEF LoadMoves

LEMMA LoadStepMoves ==
    ASSUME LoadsTyped, NEW l \in Loads, NEW step \in {"staging", "loading", "check", "remove"},
           LoadStep(l, step), load[l].pc \notin {"idle", "done"}
    PROVE  \E x : LoadMoves(l, x) /\ x.by = load[l].by /\ x.pc = step
<1> DEFINE x == [load[l] EXCEPT !.pc = step]
<1>1. load[l] \in Load /\ load[l].slot \in Slots
  BY DEF LoadsTyped, LoadsPlaced
<1>2. x \in Load /\ x.slot \in Slots /\ x.by = load[l].by /\ x.pc = step
  BY <1>1 DEF Load
<1>3. load' = [load EXCEPT ![l] = x]
  BY DEF LoadStep
<1> QED
  BY <1>2, <1>3 DEF LoadMoves

\* The load still works for whom it worked, and nobody else has changed.
LEMMA LoadGoesOn ==
    ASSUME Typed, NEW l \in Loads, NEW x, LoadMoves(l, x), x.by = load[l].by,
           load[l].pc \notin {"idle", "done"}, x.pc \notin {"idle", "done"}, UNCHANGED reqVars
    PROVE  LoadsTyped' /\ LoadsInline' /\ RequestsTyped' /\ ReleasesTyped'
<1>1. LoadsTyped'
  BY LoadMovesTyped DEF Typed
<1>2. UNCHANGED <<req, stored, releasing>>
  BY DEF reqVars
<1>3. ASSUME NEW m \in Loads
      PROVE  load'[m].by = load[m].by
             /\ (load[m].pc \notin {"idle", "done"} => load'[m].pc \notin {"idle", "done"})
  BY DEF LoadMoves, Typed, LoadsTyped
<1>4. LoadsInline'
  BY <1>2, <1>3 DEF LoadsInline, Typed
<1> QED
  BY <1>1, <1>2, <1>4
     DEF Typed, RequestsTyped, RequestsHold, RequestHolds, ReleasesTyped

\* A load that ends: its request, if it was inline, is failed, or goes on as q.
LEMMA LoadStops ==
    ASSUME Typed, NEW l \in Loads, Ended(l),
           req' \in [Requests -> Request],
           \A u \in Requests : RequestHolds(req'[u]),
           \A u \in Requests : load[l].by = u \/ req'[u] = req[u]
    PROVE  LoadsTyped' /\ LoadsInline' /\ RequestsTyped'
<1>1. PICK x : LoadMoves(l, x) /\ x.by = None
  BY EndedMoves DEF Typed
<1>2. LoadsTyped'
  BY <1>1, LoadMovesTyped DEF Typed
<1>3. RequestsTyped'
  BY DEF RequestsTyped, RequestsHold, RequestHolds
<1>4. ASSUME NEW m \in Loads
      PROVE  IF m = l THEN load'[m].by = None ELSE load'[m] = load[m]
  BY <1>1 DEF LoadMoves, Typed, LoadsTyped
<1>5. ASSUME NEW m \in Loads, load'[m].by # None
      PROVE  /\ load'[m].pc \notin {"idle", "done"}
             /\ Home[m] = Home[load'[m].by]
             /\ req'[load'[m].by].pc = "inline"
             /\ \A n \in Loads : load'[n].by = load'[m].by => n = m
  <2>1. m # l /\ load'[m] = load[m]
    BY <1>4, <1>5
  <2>2. load[m] \in Load /\ load[m].by \in Requests
    BY <2>1, <1>5 DEF Load, Typed, LoadsTyped
  <2>3. load[l].by # load[m].by
    BY <2>1, <2>2, <1>5 DEF Typed, LoadsInline
  <2>4. req'[load[m].by] = req[load[m].by]
    BY <2>2, <2>3
  <2> QED
    BY <1>4, <1>5, <2>1, <2>4 DEF Typed, LoadsInline
<1>6. LoadsInline'
  BY <1>5 DEF LoadsInline
<1> QED
  BY <1>2, <1>3, <1>6

LEMMA LoadEndsTyped ==
    ASSUME Typed, NEW l \in Loads, LoadEnds(l)
    PROVE  LoadsTyped' /\ LoadsInline' /\ RequestsTyped' /\ ReleasesTyped'
<1>1. ASSUME NEW u \in Requests, load[l].by = u
      PROVE  req'[u] \in Request /\ RequestHolds(req'[u])
  <2>1. req'[u] = Failed
    BY <1>1 DEF LoadEnds
  <2> QED
    BY <2>1, FailedHolds
<1>2. ASSUME NEW u \in Requests, load[l].by # u
      PROVE  req'[u] = req[u] /\ req'[u] \in Request /\ RequestHolds(req'[u])
  BY <1>2 DEF LoadEnds, Typed, RequestsTyped, RequestsHold
<1>3. req' \in [Requests -> Request] /\ \A u \in Requests : RequestHolds(req'[u])
  BY <1>1, <1>2 DEF LoadEnds
<1>4. ReleasesTyped'
  BY DEF LoadEnds, Typed, ReleasesTyped
<1> QED
  BY <1>2, <1>3, <1>4, LoadStops DEF LoadEnds
\* A load that begins.
LEMMA LoadBegins ==
    ASSUME Typed, NEW l \in Loads, NEW x \in Load, x.slot \in Slots,
           load' = [load EXCEPT ![l] = x]
    PROVE  /\ LoadsTyped'
           /\ load'[l] = x
           /\ \A m \in Loads : m # l => load'[m] = load[m]
BY LoadMovesTyped DEF LoadMoves, Typed, LoadsTyped

LEMMA RevisionTyped == Typed => revision \in 0..MaxRevision
BY ReplicaRowsAssumption DEF ReplicaRowsAssumption, Typed, Revision

LEMMA ScheduleTyped ==
    ASSUME Typed, NEW l \in Loads, NEW s \in Slots, Schedule(l, s)
    PROVE  LoadsTyped' /\ LoadsInline' /\ RequestsTyped' /\ ReleasesTyped'
<1> DEFINE x == [NoLoad EXCEPT !.pc = "install", !.slot = s, !.rev = revision]
<1>1. x \in Load /\ x.slot \in Slots /\ x.by = None
  BY NoLoadTyped, RevisionTyped DEF NoLoad, Load
<1>2. LoadsTyped' /\ load'[l].by = None /\ \A m \in Loads : m # l => load'[m] = load[m]
  <2>1. load' = [load EXCEPT ![l] = x]
    BY DEF Schedule
  <2> HIDE DEF x
  <2> QED
    BY <1>1, <2>1, LoadBegins
<1>3. UNCHANGED <<req, stored, releasing>>
  BY DEF Schedule, reqVars
<1>4. LoadsInline'
  BY <1>2, <1>3 DEF LoadsInline, Typed
<1> QED
  BY <1>2, <1>3, <1>4 DEF Typed, RequestsTyped, RequestsHold, RequestHolds, ReleasesTyped

LEMMA ScheduleInlineTyped ==
    ASSUME Typed, NEW r \in Requests, NEW l \in Loads, NEW s \in Slots, ScheduleInline(r, l, s)
    PROVE  LoadsTyped' /\ LoadsInline' /\ RequestsTyped' /\ ReleasesTyped'
<1>0. r # None
  BY ReplicaRowsAssumption DEF ReplicaRowsAssumption, Actors
<1>1. LoadsTyped' /\ load'[l].by = r /\ load'[l].pc = "install"
      /\ \A m \in Loads : m # l => load'[m] = load[m]
  <2> DEFINE x == [NoLoad EXCEPT !.pc = "install", !.slot = s, !.rev = revision, !.by = r]
  <2>1. x \in Load /\ x.slot \in Slots /\ x.by = r /\ x.pc = "install"
    BY RevisionTyped DEF NoLoad, Load
  <2>2. load' = [load EXCEPT ![l] = x]
    BY DEF ScheduleInline
  <2> HIDE DEF x
  <2> QED
    BY <2>1, <2>2, LoadBegins
<1>2. req' = [req EXCEPT ![r].pc = "inline"] /\ req[r].pc = "cold" /\ Home[l] = Home[r]
  BY DEF ScheduleInline, Goto
<1>3. req[r] \in Request /\ RequestHolds(req[r]) /\ req \in [Requests -> Request]
  BY DEF Typed, RequestsTyped, RequestsHold
<1> DEFINE q == [req[r] EXCEPT !.pc = "inline"]
<1>4. q \in Request /\ RequestHolds(q) /\ q.pc = "inline" /\ req' = [req EXCEPT ![r] = q]
  BY <1>2, <1>3 DEF Request, RequestHolds
<1>5. RequestsTyped'
  BY <1>4, MovesTyped DEF Typed, Moves
<1>6. ASSUME NEW u \in Requests PROVE IF u = r THEN req'[u].pc = "inline" ELSE req'[u] = req[u]
  BY <1>3, <1>4
<1>7. \A m \in Loads : load[m] \in Load
  BY DEF Typed, LoadsTyped
<1>8. ASSUME NEW m \in Loads, load'[m].by # None
      PROVE  /\ load'[m].pc \notin {"idle", "done"}
             /\ Home[m] = Home[load'[m].by]
             /\ req'[load'[m].by].pc = "inline"
             /\ \A n \in Loads : load'[n].by = load'[m].by => n = m
  <2>1. \A n \in Loads : load[n].by # r
    BY <1>0, <1>2 DEF Typed, LoadsInline
  <2>2. CASE m = l
    BY <1>1, <1>2, <1>6, <2>1, <2>2
  <2>3. CASE m # l
    <3>1. load'[m] = load[m] /\ load[m].by \in Requests
      BY <1>1, <1>7, <1>8, <2>3 DEF Load
    <3> QED
      BY <1>1, <1>6, <1>8, <2>1, <3>1 DEF Typed, LoadsInline
  <2> QED
    BY <2>2, <2>3
<1>9. LoadsInline'
  BY <1>8 DEF LoadsInline
<1> QED
  BY <1>1, <1>5, <1>9 DEF ScheduleInline, Typed, ReleasesTyped

LEMMA StoredTyped ==
    ASSUME Typed, NEW r \in Requests, Stored(r)
    PROVE  ReleasesTyped'
<1>1. Home[r] \in Frontends
  BY ReplicaRowsAssumption DEF ReplicaRowsAssumption, Actors
<1> QED
  BY <1>1 DEF Stored, Typed, ReleasesTyped

LEMMA PublishTyped ==
    ASSUME Typed, NEW l \in Loads, Publish(l)
    PROVE  LoadsTyped' /\ LoadsInline' /\ RequestsTyped' /\ ReleasesTyped'
<1> DEFINE r == load[l].by
<1>1. Ended(l) /\ req \in [Requests -> Request] /\ \A u \in Requests : RequestHolds(req[u])
  BY DEF Publish, Typed, RequestsTyped, RequestsHold
<1>2. CASE r = None
  <2>1. UNCHANGED <<req, stored, releasing>>
    BY <1>2 DEF Publish, reqVars
  <2> QED
    BY <1>1, <2>1, LoadStops DEF Typed, ReleasesTyped
<1>3. CASE r # None
  <2> DEFINE q == [pc |-> "route", slot |-> load[l].slot, held |-> TRUE, counted |-> FALSE,
                   gone |-> req[r].gone]
  <2>1. load[l] \in Load /\ r \in Requests /\ req[r].gone \in BOOLEAN
    BY <1>3 DEF Load, Request, Typed, LoadsTyped, RequestsTyped
  <2>2. req' = [req EXCEPT ![r] = q] /\ Stored(r)
    BY <1>3 DEF Publish
  <2>3. q \in Request /\ RequestHolds(q)
    BY <2>1 DEF Load, Request, RequestHolds
  <2> HIDE DEF q
  <2>4. req' \in [Requests -> Request] /\ \A u \in Requests : RequestHolds(req'[u])
    BY <1>1, <2>1, <2>2, <2>3
  <2>5. \A u \in Requests : load[l].by = u \/ req'[u] = req[u]
    BY <1>1, <2>2
  <2> QED
    BY <1>1, <2>1, <2>2, <2>4, <2>5, LoadStops, StoredTyped
<1> QED
  BY <1>2, <1>3

LEMMA PublishRefusedTyped ==
    ASSUME Typed, NEW l \in Loads, PublishRefused(l)
    PROVE  LoadsTyped' /\ LoadsInline' /\ RequestsTyped' /\ ReleasesTyped'
<1> DEFINE x == [load[l] EXCEPT !.pc = "stop", !.seen = {ClaimOf(load[l].slot)}]
<1>1. load[l] \in Load /\ load[l].pc = "loading" /\ load[l].slot \in Slots
  BY DEF PublishRefused, Typed, LoadsTyped, LoadsPlaced
<1>2. ClaimOf(load[l].slot) \in Claim
  BY <1>1, ClaimTyped DEF Typed
<1>3. x \in Load /\ x.slot \in Slots /\ x.by = load[l].by /\ x.pc = "stop"
  BY <1>1, <1>2 DEF Load
<1>4. load' = [load EXCEPT ![l] = x] /\ UNCHANGED reqVars
  BY DEF PublishRefused
<1> HIDE DEF x
<1>5. LoadMoves(l, x)
  BY <1>3, <1>4 DEF LoadMoves
<1> QED
  BY <1>1, <1>3, <1>4, <1>5, LoadGoesOn

\* What a load does to the rows.
LoadWrites(l) ==
    \E state \in Active, n \in Nat : Current(l) /\ Written(l, state, n)

LEMMA LoadRows ==
    ASSUME Typed, NEW l \in Loads, LoadStepOf(l)
    PROVE  (RowsTyped' /\ Lowers) \/ LoadWrites(l)
<1>1. CASE RecordStaging(l) \/ RecordLoading(l) \/ Publish(l)
  BY <1>1 DEF RecordStaging, RecordLoading, Publish, LoadWrites, Active
<1>2. CASE UNCHANGED <<rows, leaked>>
  BY <1>2, UnchangedLowers DEF Typed
<1>3. CASE RemoveLifecycleRow(l)
  BY <1>3, RemovedLowers DEF RemoveLifecycleRow, Typed
<1>4. CASE StopStaleLoad(l)
  <2>1. PICK q \in load[l].seen : RemoveClaimed(q) \/ (NotStopped(q) /\ UNCHANGED leaked)
    BY <1>4 DEF StopStaleLoad
  <2>2. q \in Claim /\ q.slot \in Slots
    BY <2>1 DEF Typed, LoadsTyped, Load, Claim
  <2> QED
    BY <2>1, <2>2, RemoveClaimedLowers, NotStoppedLowers DEF Typed
<1> QED
  BY <1>1, <1>2, <1>3, <1>4
     DEF LoadStepOf, Schedule, ScheduleInline, InstallFails, StagingRefused, LoadFails,
         CheckRevision, PublishRefused

LEMMA LoadTyped ==
    ASSUME Typed, NEW l \in Loads, LoadStepOf(l)
    PROVE  Typed'
<1>1. RowsTyped'
  <2>1. CASE LoadWrites(l)
    <3>1. load[l].rev \in 0..MaxRevision
      BY DEF Typed, LoadsTyped, Load
    <3> QED
      BY <2>1, <3>1, WrittenTyped DEF LoadWrites, Typed
  <2> QED
    BY <2>1, LoadRows
<1>2. UNCHANGED <<revision, cleaner, sweep, streak, scale>>
  BY DEF LoadStepOf, Schedule, ScheduleInline, InstallFails, RecordStaging, StagingRefused,
         RecordLoading, LoadFails, CheckRevision, RemoveLifecycleRow, Publish, PublishRefused,
         StopStaleLoad, LoadOnly, rest, sweepVars
<1>3. CleanersTyped' /\ SweepTyped' /\ ScaleTyped' /\ revision' \in Revision
  BY <1>2 DEF Typed, CleanersTyped, SweepTyped, ScaleTyped, Revision
<1>4. RefusingTyped'
  <2>1. CASE StopStaleLoad(l)
    <3>1. UNCHANGED refusing \/ \E s \in OtherHost : refusing' = refusing \cup {s}
      BY <2>1 DEF StopStaleLoad, NotStopped
    <3> QED
      BY <3>1 DEF Typed, RefusingTyped
  <2>2. CASE ~StopStaleLoad(l)
    <3>1. UNCHANGED refusing
      BY <2>2 DEF LoadStepOf, Schedule, ScheduleInline, InstallFails, RecordStaging,
                  StagingRefused, RecordLoading, LoadFails, CheckRevision, RemoveLifecycleRow,
                  Publish, PublishRefused, LoadOnly, rest
    <3> QED
      BY <3>1 DEF Typed, RefusingTyped
  <2> QED
    BY <2>1, <2>2
<1>5. LoadsTyped' /\ LoadsInline' /\ RequestsTyped' /\ ReleasesTyped'
  <2>1. CASE LoadEnds(l)
    BY <2>1, LoadEndsTyped
  <2>2. CASE \E s \in Slots : Schedule(l, s)
    BY <2>2, ScheduleTyped
  <2>3. CASE \E s \in Slots : \E r \in Requests : ScheduleInline(r, l, s)
    BY <2>3, ScheduleInlineTyped
  <2>4. CASE Publish(l)
    BY <2>4, PublishTyped
  <2>5. CASE PublishRefused(l)
    BY <2>5, PublishRefusedTyped
  <2>6. ASSUME NEW step \in {"staging", "loading", "check", "remove"}, LoadStep(l, step),
               load[l].pc \notin {"idle", "done"}, UNCHANGED reqVars
        PROVE  LoadsTyped' /\ LoadsInline' /\ RequestsTyped' /\ ReleasesTyped'
    BY <2>6, LoadStepMoves, LoadGoesOn DEF Typed
  <2>7. CASE RecordStaging(l) \/ RecordLoading(l) \/ LoadFails(l)
    BY <2>6, <2>7 DEF RecordStaging, RecordLoading, LoadFails
  <2>8. CASE CheckRevision(l)
    BY <2>1, <2>6, <2>8 DEF CheckRevision
  <2> QED
    BY <2>1, <2>2, <2>3, <2>4, <2>5, <2>7, <2>8
       DEF LoadStepOf, InstallFails, StagingRefused, RemoveLifecycleRow, StopStaleLoad
<1> QED
  BY <1>1, <1>2, <1>3, <1>4, <1>5 DEF Typed
-----------------------------------------------------------------------------
(***************************************************************************)
(* Edits, the cleanup, the passes and crashes.                             *)
(***************************************************************************)
LEMMA OthersUnchanged ==
    ASSUME Typed, UNCHANGED <<reqVars, load>>
    PROVE  LoadsTyped' /\ LoadsInline' /\ RequestsTyped' /\ ReleasesTyped'
BY DEF Typed, reqVars, LoadsTyped, LoadsPlaced, LoadsInline, RequestsTyped, RequestsHold,
       RequestHolds, ReleasesTyped

LEMMA CleanerIs ==
    ASSUME CleanersTyped, NEW c \in Cleaners
    PROVE  /\ cleaner[c] \in [todo : SUBSET Claim, ended : SUBSET Claim]
           /\ cleaner[c].todo \subseteq Claim /\ cleaner[c].ended \subseteq Claim
BY DEF CleanersTyped

LEMMA ClaimsTyped ==
    ASSUME RowsTyped, NEW S \in SUBSET Slots
    PROVE  {ClaimOf(s) : s \in S} \subseteq Claim
BY ClaimTyped

\* The todo of c is replaced by T.
LEMMA TodoTyped ==
    ASSUME CleanersTyped, NEW c \in Cleaners, NEW T \in SUBSET Claim,
           cleaner' = [cleaner EXCEPT ![c].todo = T]
    PROVE  CleanersTyped'
<1> DEFINE x == [cleaner[c] EXCEPT !.todo = T]
<1>1. x \in [todo : SUBSET Claim, ended : SUBSET Claim]
  BY CleanerIs
<1>2. cleaner' = [cleaner EXCEPT ![c] = x]
  OBVIOUS
<1> HIDE DEF x
<1> QED
  BY <1>1, <1>2 DEF CleanersTyped

\* An edit lowers: what it touches is quarantined.
LEMMA EditLowers ==
    ASSUME Typed, NEW c \in Cleaners, Edit(c)
    PROVE  /\ RowsTyped' /\ CleanersTyped' /\ revision' \in Revision
           /\ Lowers
           /\ \A s \in Slots :
                /\ rows'[s].state \in Active => rows'[s].rev = revision'
                /\ rows'[s].state = "unloading" =>
                     rows[s].state = "unloading"
                       \/ (rows[s].state \in Active /\ rows[s].rev # revision')
<1>1. PICK rev \in Revision :
        /\ revision' = rev /\ rev # revision
        /\ rows' = [s \in Slots |->
                      IF Stale(s, rev)
                      THEN [rows[s] EXCEPT !.state = "unloading", !.leased = FALSE]
                      ELSE rows[s]]
        /\ cleaner' = [cleaner EXCEPT ![c].todo = {ClaimOf(s) : s \in {t \in Slots :
                                                                    Stale(t, rev)}}]
  <2>1. revision # revision + 1
    BY RevisionTyped
  <2> QED
    BY <2>1 DEF Edit
<1>2. ASSUME NEW s \in Slots
      PROVE  /\ rows'[s] \in Row
             /\ rows'[s].inFlight = rows[s].inFlight /\ rows[s].inFlight \in Nat
             /\ SameWrite(rows'[s], rows[s])
             /\ rows'[s].state \in {rows[s].state, "unloading"}
             /\ rows'[s].state \in Active => rows'[s].rev = rev
             /\ rows'[s].state = "unloading" =>
                  rows[s].state = "unloading" \/ (rows[s].state \in Active /\ rows[s].rev # rev)
  <2> DEFINE x == [rows[s] EXCEPT !.state = "unloading", !.leased = FALSE]
  <2>1. rows[s] \in Row
    BY DEF Typed, RowsTyped
  <2>2. x \in Row /\ x.inFlight = rows[s].inFlight /\ x.state = "unloading"
        /\ SameWrite(x, rows[s])
    BY <2>1 DEF Row, RowIDs, SameWrite
  <2>3. rows'[s] = IF Stale(s, rev) THEN x ELSE rows[s]
    BY <1>1
  <2> HIDE DEF x
  <2> QED
    BY <2>1, <2>2, <2>3 DEF Stale, Row, Active, SameWrite
<1>3. leaked' = leaked
  BY DEF Edit
<1>4. RowsTyped' /\ Lowers
  <2>1. leaked \in [Slots -> Nat] /\ rows' \in [Slots -> Row]
    BY <1>1, <1>2 DEF Typed, RowsTyped
  <2>2. RowsTyped'
    BY <1>3, <2>1 DEF RowsTyped
  <2>3. \A s \in Slots : rows'[s].inFlight <= rows[s].inFlight
    BY <1>2
  <2>4. revision' # revision
    BY <1>1
  <2>5. ASSUME NEW s \in Slots
        PROVE  /\ SameWrite(rows'[s], rows[s])
               /\ \/ rows'[s].state = rows[s].state
                  \/ rows[s].state \in Active /\ rows'[s].state = "unloading"
    BY <1>2
  <2> QED
    BY <1>3, <2>2, <2>3, <2>4, <2>5 DEF Lowers
<1>5. CleanersTyped'
  BY <1>1, TodoTyped, ClaimsTyped DEF Typed
<1> QED
  BY <1>1, <1>2, <1>4, <1>5

LEMMA ClaimRetriesTyped ==
    ASSUME Typed, NEW c \in Cleaners, ClaimRetries(c)
    PROVE  RowsTyped' /\ Lowers /\ CleanersTyped'
<1>1. PICK s \in Slots : /\ rows' = [rows EXCEPT ![s].leased = TRUE]
                         /\ cleaner' = [cleaner EXCEPT ![c].todo = {ClaimOf(s)}]
  BY DEF ClaimRetries
<1>2. rows' = [t \in Slots |-> IF t \in {s} THEN [rows[t] EXCEPT !.leased = TRUE] ELSE rows[t]]
  BY <1>1 DEF Typed, RowsTyped
<1>3. UNCHANGED leaked
  BY DEF ClaimRetries
<1>4. RowsTyped' /\ Lowers
  BY <1>2, <1>3, LeaseLowers DEF Typed
<1>5. CleanersTyped'
  <2>1. {ClaimOf(s)} \in SUBSET Claim
    BY ClaimTyped DEF Typed
  <2> QED
    BY <1>1, <2>1, TodoTyped DEF Typed
<1> QED
  BY <1>4, <1>5

LEMMA StopsReplicaTyped ==
    ASSUME Typed, NEW c \in Cleaners, StopsReplica(c)
    PROVE  RowsTyped' /\ Lowers /\ CleanersTyped'
<1>1. PICK q \in cleaner[c].todo :
        cleaner' = [cleaner EXCEPT ![c].todo = @ \ {q}, ![c].ended = {q}]
  BY DEF StopsReplica
<1> DEFINE x == [cleaner[c] EXCEPT !.todo = @ \ {q}, !.ended = {q}]
<1>2. x \in [todo : SUBSET Claim, ended : SUBSET Claim]
  BY <1>1, CleanerIs DEF Typed
<1>3. cleaner' = [cleaner EXCEPT ![c] = x]
  BY <1>1
<1> HIDE DEF x
<1>4. CleanersTyped'
  BY <1>2, <1>3 DEF Typed, CleanersTyped
<1> QED
  BY <1>4, UnchangedLowers DEF StopsReplica, Typed

LEMMA StopFailsTyped ==
    ASSUME Typed, NEW c \in Cleaners, StopFails(c)
    PROVE  RowsTyped' /\ Lowers /\ CleanersTyped'
<1>1. PICK q \in cleaner[c].todo :
        cleaner' = [cleaner EXCEPT ![c].todo = @ \ {q}] /\ NotStopped(q)
  BY DEF StopFails
<1>2. q.slot \in Slots /\ cleaner[c].todo \ {q} \in SUBSET Claim
  BY <1>1, CleanerIs DEF Typed, Claim
<1>3. UNCHANGED leaked
  BY DEF StopFails
<1> QED
  BY <1>1, <1>2, <1>3, NotStoppedLowers, TodoTyped DEF Typed

LEMMA RemovesRowTyped ==
    ASSUME Typed, NEW c \in Cleaners, RemovesRow(c)
    PROVE  RowsTyped' /\ Lowers /\ CleanersTyped'
<1> DEFINE x == [cleaner[c] EXCEPT !.ended = {}]
<1>1. x \in [todo : SUBSET Claim, ended : SUBSET Claim]
  BY CleanerIs DEF Typed
<1>2. cleaner' = [cleaner EXCEPT ![c] = x]
  BY DEF RemovesRow
<1> HIDE DEF x
<1>3. CleanersTyped'
  BY <1>1, <1>2 DEF Typed, CleanersTyped
<1> QED
  BY <1>3, RemoveClaimedLowers DEF RemovesRow, Typed

LEMMA CutShortTyped ==
    ASSUME Typed, NEW c \in Cleaners, CutShort(c)
    PROVE  RowsTyped' /\ Lowers /\ CleanersTyped'
<1>1. NoTodo \in [todo : SUBSET Claim, ended : SUBSET Claim]
  BY DEF NoTodo
<1>2. CleanersTyped'
  BY <1>1 DEF CutShort, Typed, CleanersTyped
<1> QED
  BY <1>2, UnchangedLowers DEF CutShort, Typed

\* A cleaner keeps everybody well typed.
LEMMA CleanerTyped ==
    ASSUME Typed, NEW c \in Cleaners, CleanerStep(c)
    PROVE  Typed' /\ Lowers
<1>1. UNCHANGED <<reqVars, load, sweep, streak, scale>>
  BY DEF CleanerStep, Edit, ClaimRetries, StopsReplica, StopFails, RemovesRow, CutShort,
         CleanOnly, rest, sweepVars
<1>2. SweepTyped' /\ ScaleTyped'
  BY <1>1 DEF Typed, SweepTyped, ScaleTyped
<1>3. RefusingTyped'
  <2>1. UNCHANGED refusing \/ \E s \in OtherHost : refusing' = refusing \cup {s}
    BY DEF CleanerStep, Edit, ClaimRetries, StopsReplica, StopFails, NotStopped, RemovesRow,
           CutShort, CleanOnly, rest
  <2> QED
    BY <2>1 DEF Typed, RefusingTyped
<1>4. RowsTyped' /\ Lowers /\ CleanersTyped' /\ revision' \in Revision
  <2>1. CASE Edit(c)
    BY <2>1, EditLowers
  <2>2. CASE ~Edit(c)
    <3>1. UNCHANGED revision
      BY <2>2 DEF CleanerStep, ClaimRetries, StopsReplica, StopFails, RemovesRow, CutShort
    <3>2. revision' \in Revision
      BY <3>1 DEF Typed, Revision
    <3> QED
      BY <2>2, <3>2, ClaimRetriesTyped, StopsReplicaTyped, StopFailsTyped, RemovesRowTyped,
         CutShortTyped DEF CleanerStep
  <2> QED
    BY <2>1, <2>2
<1> QED
  BY <1>1, <1>2, <1>3, <1>4, OthersUnchanged DEF Typed

LEMMA ResetLowers ==
    ASSUME RowsTyped, NEW p, p[1] \in Slots, Reset(p)
    PROVE  RowsTyped' /\ Lowers
<1>1. CASE rows[p[1]].id # p[2]
  BY <1>1, UnchangedLowers DEF Reset
<1>2. CASE rows[p[1]].id = p[2]
  <2> DEFINE s == p[1]
             x == [rows[s] EXCEPT !.inFlight = 0]
  <2>1. rows' = [rows EXCEPT ![s] = x] /\ leaked' = [leaked EXCEPT ![s] = 0]
    BY <1>2 DEF Reset
  <2>2. rows[s] \in Row
    BY DEF RowsTyped
  <2>3. x \in Row /\ x.inFlight = 0 /\ x.state = rows[s].state /\ SameWrite(x, rows[s])
    BY <2>2 DEF Row, RowIDs, SameWrite
  <2> HIDE DEF x
  <2>4. RowsTyped'
    BY <2>1, <2>3 DEF RowsTyped
  <2>5. ASSUME NEW t \in Slots
        PROVE  /\ t = s => rows'[t] = x
               /\ t # s => rows'[t] = rows[t] /\ leaked'[t] = leaked[t]
               /\ rows[t].inFlight \in Nat
    BY <2>1 DEF RowsTyped, Row
  <2> QED
    BY <2>3, <2>4, <2>5 DEF Lowers, SameWrite
<1> QED
  BY <1>1, <1>2

LEMMA SweepStepTyped ==
    ASSUME Typed, SweepStep
    PROVE  Typed' /\ Lowers
<1>1. UNCHANGED <<revision, reqVars, load, cleaner, scale, refusing>>
  BY DEF SweepStep, SweepBegins, SweepEnds, Probed, Reset, SweepOnly
<1>2. CleanersTyped' /\ ScaleTyped' /\ RefusingTyped' /\ revision' \in Revision
  BY <1>1 DEF Typed, CleanersTyped, ScaleTyped, RefusingTyped, Revision
<1>3. RowsTyped' /\ Lowers
  <2>1. CASE UNCHANGED <<rows, leaked>>
    BY <2>1, UnchangedLowers DEF Typed
  <2>2. ASSUME NEW p \in Slots \X Loads, Reset(p)
        PROVE  RowsTyped' /\ Lowers
    BY <2>2, ResetLowers DEF Typed
  <2> QED
    BY <2>1, <2>2 DEF SweepStep, SweepBegins, SweepEnds, Probed
<1>4. SweepTyped'
  <2> DEFINE Shape == [pc : {"idle", "sweep"}, todo : SUBSET (Slots \X RowIDs),
                       seen : SUBSET RowIDs, hit : SUBSET (Slots \X RowIDs)]
  <2>1. sweep \in Shape /\ streak \in [Loads -> 0..2]
    BY DEF Typed, SweepTyped
  <2>2. CASE SweepBegins
    <3> DEFINE found == {<<s, rows[s].id>> : s \in {t \in Slots : Suspect(t)}}
    <3>1. found \in SUBSET (Slots \X RowIDs)
      BY DEF Typed, RowsTyped, Row
    <3> QED
      BY <2>1, <2>2, <3>1 DEF SweepBegins, SweepTyped
  <2>3. CASE SweepEnds
    BY <2>1, <2>3 DEF SweepEnds, SweepTyped, NoSweep
  <2>4. ASSUME NEW p \in Slots \X Loads, Probed(p)
        PROVE  SweepTyped'
    <3> DEFINE x == [sweep EXCEPT !.todo = @ \ {p}]
               y(h) == [sweep EXCEPT !.todo = @ \ {p}, !.hit = h]
    <3>1. x \in Shape /\ \A h \in SUBSET (Slots \X RowIDs) : y(h) \in Shape
      BY <2>1
    <3>2. sweep' = x \/ sweep' = y({p}) \/ sweep' = y({})
      BY <2>4 DEF Probed
    <3>3. sweep' \in Shape
      <4>1. {p} \in SUBSET (Slots \X RowIDs) /\ {} \in SUBSET (Slots \X RowIDs)
        BY DEF RowIDs
      <4> HIDE DEF x, y, Shape
      <4> QED
        BY <3>1, <3>2, <4>1
    <3>4. streak' \in [Loads -> 0..2]
      BY <2>1, <2>4 DEF Probed
    <3> QED
      BY <3>3, <3>4 DEF SweepTyped
  <2>5. ASSUME NEW p \in Slots \X Loads, Reset(p)
        PROVE  SweepTyped'
    <3> DEFINE x == [sweep EXCEPT !.hit = {}]
    <3>1. x \in Shape /\ sweep' = x
      BY <2>1, <2>5 DEF Reset
    <3>2. streak' \in [Loads -> 0..2]
      BY <2>1, <2>5 DEF Reset
    <3> QED
      BY <3>1, <3>2 DEF SweepTyped
  <2> QED
    BY <2>2, <2>3, <2>4, <2>5 DEF SweepStep
<1> QED
  BY <1>1, <1>2, <1>3, <1>4, OthersUnchanged DEF Typed
LEMMA PassTyped ==
    ASSUME Typed, NEW s \in Slots, Pass(s)
    PROVE  Typed' /\ Lowers
<1>1. UNCHANGED <<revision, reqVars, load, cleaner, sweep, streak>>
  BY DEF Pass, LeaseLapses, Ages, Evict, FoundIdle, ScaledDown, Reaped, ProcessEnds, rest,
         sweepVars
<1>2. CleanersTyped' /\ SweepTyped' /\ revision' \in Revision
  BY <1>1 DEF Typed, CleanersTyped, SweepTyped, Revision
<1>3. ScaleTyped'
  BY DEF Pass, LeaseLapses, Ages, Evict, FoundIdle, ScaledDown, Reaped, ProcessEnds, rest,
         Typed, ScaleTyped
<1>4. RefusingTyped'
  <2>1. refusing' \subseteq refusing
    BY DEF Pass, LeaseLapses, Ages, Evict, FoundIdle, ScaledDown, Reaped, ProcessEnds, rest
  <2> QED
    BY <2>1 DEF Typed, RefusingTyped
<1>5. RowsTyped' /\ Lowers
  <2>1. CASE FoundIdle(s) \/ ProcessEnds(s)
    BY <2>1, UnchangedLowers DEF FoundIdle, ProcessEnds, Typed
  <2>2. CASE Evict(s) \/ ScaledDown(s) \/ Reaped(s)
    BY <2>2, RemovedLowers DEF Evict, ScaledDown, Reaped, Typed
  <2>3. CASE Ages(s)
    BY <2>3, FreshLowers DEF Ages, Typed
  <2>4. CASE LeaseLapses(s)
    <3>1. rows' = [t \in Slots |-> IF t \in {s} THEN [rows[t] EXCEPT !.leased = FALSE]
                                   ELSE rows[t]]
      BY <2>4 DEF LeaseLapses, Typed, RowsTyped
    <3> QED
      BY <2>4, <3>1, LeaseLowers DEF LeaseLapses, Typed
  <2> QED
    BY <2>1, <2>2, <2>3, <2>4 DEF Pass
<1> QED
  BY <1>1, <1>2, <1>3, <1>4, <1>5, OthersUnchanged DEF Typed

\* What the requests of a crashed frontend leave is a number.
LEMMA SomeRequestsFinite ==
    ASSUME NEW S \in SUBSET Requests
    PROVE  IsFiniteSet(S) /\ Cardinality(S) \in Nat
BY ReplicaRowsAssumption, FS_Subset, FS_CardinalityType DEF ReplicaRowsAssumption

LEMMA AbandonedTyped ==
    ASSUME NEW f \in Frontends, NEW s \in Slots
    PROVE  Abandoned(f, s) \in Nat
<1> DEFINE mine == {r \in Requests : Home[r] = f /\ req[r].slot = s}
<1>1. Cardinality({r \in mine : req[r].held}) \in Nat
      /\ Cardinality({r \in mine : req[r].counted}) \in Nat
  BY SomeRequestsFinite
<1> QED
  BY <1>1 DEF Abandoned

LEMMA CrashTyped ==
    ASSUME Typed, NEW f \in Frontends, Crash(f)
    PROVE  Typed'
<1>1. UNCHANGED <<revision, rows, sweep, streak, scale, refusing>>
  BY DEF Crash, rest, sweepVars
<1>2. SweepTyped' /\ ScaleTyped' /\ RefusingTyped' /\ revision' \in Revision
  BY <1>1 DEF Typed, SweepTyped, ScaleTyped, RefusingTyped, Revision
<1>3. RowsTyped'
  <2>1. leaked \in [Slots -> Nat] /\ rows \in [Slots -> Row]
    BY DEF Typed, RowsTyped
  <2>2. \A s \in Slots : leaked[s] + Abandoned(f, s) \in Nat
    BY <2>1, AbandonedTyped
  <2>3. leaked' \in [Slots -> Nat]
    BY <2>2 DEF Crash
  <2> QED
    BY <1>1, <2>1, <2>3 DEF RowsTyped
<1>4. CleanersTyped'
  <2>1. NoTodo \in [todo : SUBSET Claim, ended : SUBSET Claim]
    BY DEF NoTodo
  <2> QED
    BY <2>1 DEF Crash, Typed, CleanersTyped
<1>5. ReleasesTyped'
  BY DEF Crash, Typed, ReleasesTyped
<1> DEFINE Gone(r) == Home[r] = f /\ req[r].pc # "idle"
<1>7. ASSUME NEW r \in Requests
      PROVE  req'[r] = IF Gone(r) THEN Failed ELSE req[r]
  BY DEF Crash
<1>8. RequestsTyped'
  <2>1. ASSUME NEW r \in Requests PROVE req'[r] \in Request /\ RequestHolds(req'[r])
    BY <1>7, FailedHolds DEF Typed, RequestsTyped, RequestsHold
  <2>2. req' = [r \in Requests |-> req'[r]]
    BY DEF Crash
  <2>3. req' \in [Requests -> Request]
    BY <2>1, <2>2
  <2> QED
    BY <2>1, <2>3 DEF RequestsTyped, RequestsHold, RequestHolds
<1> DEFINE x == [NoLoad EXCEPT !.pc = "done"]
           Lost(l) == Home[l] = f /\ load[l].pc # "idle"
<1>9. x \in Load /\ x.pc = "done" /\ x.by = None
  BY DoneTyped
<1>10. ASSUME NEW l \in Loads
       PROVE  load'[l] = IF Lost(l) THEN x ELSE load[l]
  BY DEF Crash
<1> HIDE DEF x
<1>11. LoadsTyped'
  <2>1. ASSUME NEW l \in Loads
        PROVE  load'[l] \in Load /\ (load'[l].pc \notin {"idle", "done"} => load'[l].slot \in Slots)
    BY <1>9, <1>10 DEF Typed, LoadsTyped, LoadsPlaced
  <2>2. load' = [l \in Loads |-> load'[l]]
    BY DEF Crash
  <2> QED
    BY <2>1, <2>2 DEF LoadsTyped, LoadsPlaced
<1>12. ASSUME NEW l \in Loads, load'[l].by # None
       PROVE  /\ load'[l].pc \notin {"idle", "done"}
              /\ Home[l] = Home[load'[l].by]
              /\ req'[load'[l].by].pc = "inline"
              /\ \A m \in Loads : load'[m].by = load'[l].by => m = l
  <2>1. load'[l] = load[l] /\ ~Lost(l) /\ load[l].by \in Requests
    BY <1>9, <1>10, <1>12 DEF Typed, LoadsTyped, Load
  <2>2. /\ load[l].pc \notin {"idle", "done"}
        /\ Home[l] = Home[load[l].by]
        /\ req[load[l].by].pc = "inline"
        /\ \A m \in Loads : load[m].by = load[l].by => m = l
    BY <1>12, <2>1 DEF Typed, LoadsInline
  <2>3. req'[load[l].by] = req[load[l].by]
    BY <1>7, <2>1, <2>2
  <2>4. \A m \in Loads : load'[m].by = load[m].by \/ load'[m].by = None
    BY <1>9, <1>10
  <2> QED
    BY <1>12, <2>1, <2>2, <2>3, <2>4
<1>13. LoadsInline'
  BY <1>12 DEF LoadsInline
<1> QED
  BY <1>2, <1>3, <1>4, <1>5, <1>8, <1>11, <1>13 DEF Typed

LEMMA RequestQuiet ==
    ASSUME NEW r \in Requests, RequestStep(r)
    PROVE  Quiet(r)
BY DEF RequestStep, Quiet

LEMMA InitTyped == Init => Typed
<1> SUFFICES ASSUME Init PROVE Typed
  OBVIOUS
<1>1. revision \in Revision
  BY ReplicaRowsAssumption DEF ReplicaRowsAssumption, Init, Revision
<1>2. RowsTyped
  BY NoRowTyped DEF Init, RowsTyped
<1>3. RequestsTyped
  <2>1. Idle \in Request /\ RequestHolds(Idle)
    BY DEF Idle, Request, RequestHolds
  <2> QED
    BY <2>1 DEF Init, RequestsTyped, RequestsHold
<1>4. LoadsTyped /\ LoadsInline
  <2>1. NoLoad.pc = "idle"
    BY DEF NoLoad
  <2> QED
    BY <2>1, NoLoadTyped DEF Init, LoadsTyped, LoadsPlaced, LoadsInline
<1>5. SweepTyped /\ CleanersTyped
  BY DEF Init, NoSweep, NoTodo, SweepTyped, CleanersTyped
<1>6. ReleasesTyped /\ ScaleTyped /\ RefusingTyped
  BY DEF Init, ReleasesTyped, ScaleTyped, RefusingTyped
<1> QED
  BY <1>1, <1>2, <1>3, <1>4, <1>5, <1>6 DEF Typed

LEMMA StutterTyped == Typed /\ UNCHANGED vars => Typed'
<1> SUFFICES ASSUME Typed, UNCHANGED vars PROVE Typed'
  OBVIOUS
<1>1. UNCHANGED <<revision, rows, leaked, reqVars, load, cleaner, sweep, streak, scale,
                  refusing>>
  BY DEF vars, rest, sweepVars
<1> QED
  BY <1>1, OthersUnchanged
     DEF Typed, RowsTyped, SweepTyped, CleanersTyped, ScaleTyped, RefusingTyped, Revision

LEMMA StepTyped == Typed /\ [Next]_vars => Typed'
BY StutterTyped, RequestQuiet, QuietTyped, LoadTyped, CleanerTyped, SweepStepTyped, PassTyped,
   CrashTyped
   DEF Next

LEMMA TypedAlways == Spec => []Typed
BY InitTyped, StepTyped, PTL DEF Spec

\* The variables have their types: no counter, for one, is ever below zero.
\* (DecrementInFlight)
THEOREM RowsTypeCorrect == Spec => []TypeOK
BY TypedAlways, TypedIsTypeOK, PTL

-----------------------------------------------------------------------------
(***************************************************************************)
(* No row of an old configuration serves.                                  *)
(***************************************************************************)
LEMMA LowersQuarantined ==
    ASSUME StaleRowsQuarantined, Lowers, UNCHANGED revision
    PROVE  StaleRowsQuarantined'
BY DEF StaleRowsQuarantined, Lowers, SameWrite, Active

LEMMA StepQuarantined == Typed /\ StaleRowsQuarantined /\ [Next]_vars => StaleRowsQuarantined'
<1> SUFFICES ASSUME Typed, StaleRowsQuarantined, [Next]_vars PROVE StaleRowsQuarantined'
  OBVIOUS
<1>1. ASSUME UNCHANGED <<rows, revision>> PROVE StaleRowsQuarantined'
  BY <1>1 DEF StaleRowsQuarantined, Active
<1>2. ASSUME NEW r \in Requests, Quiet(r) PROVE StaleRowsQuarantined'
  <2>1. UNCHANGED revision
    BY <1>2, QuietLeaves
  <2>2. CASE Lowers
    BY <2>1, <2>2, LowersQuarantined
  <2>3. ASSUME NEW s, Incremented(s), UNCHANGED leaked PROVE StaleRowsQuarantined'
    BY <2>1, <2>3, IncrementedTyped DEF Typed, StaleRowsQuarantined, SameWrite, Active
  <2> QED
    BY <1>2, <2>2, <2>3, QuietRows DEF Typed
<1>3. ASSUME NEW l \in Loads, LoadStepOf(l) PROVE StaleRowsQuarantined'
  <2>1. UNCHANGED revision
    BY <1>3 DEF LoadStepOf, Schedule, ScheduleInline, InstallFails, RecordStaging,
                StagingRefused, RecordLoading, LoadFails, CheckRevision, RemoveLifecycleRow,
                Publish, PublishRefused, StopStaleLoad, LoadOnly
  <2>2. CASE Lowers
    BY <2>1, <2>2, LowersQuarantined
  <2>3. CASE LoadWrites(l)
    <3>1. PICK state \in Active, n \in Nat : Current(l) /\ Written(l, state, n)
      BY <2>3 DEF LoadWrites
    <3>2. load[l].rev \in 0..MaxRevision
      BY DEF Typed, LoadsTyped, Load
    <3>3. \A s \in Slots : IF s = load[l].slot THEN rows'[s].rev = revision'
                           ELSE rows'[s] = rows[s]
      BY <2>1, <3>1, <3>2, WrittenTyped DEF Typed, Current
    <3> QED
      BY <2>1, <3>3 DEF StaleRowsQuarantined, Active
  <2> QED
    BY <1>3, <2>2, <2>3, LoadRows
<1>4. ASSUME NEW c \in Cleaners, CleanerStep(c) PROVE StaleRowsQuarantined'
  <2>1. CASE Edit(c)
    BY <2>1, EditLowers DEF StaleRowsQuarantined, Active
  <2>2. CASE ~Edit(c)
    <3>1. UNCHANGED revision
      BY <1>4, <2>2 DEF CleanerStep, ClaimRetries, StopsReplica, StopFails, RemovesRow, CutShort
    <3> QED
      BY <1>4, <3>1, CleanerTyped, LowersQuarantined
  <2> QED
    BY <2>1, <2>2
<1>5. ASSUME SweepStep PROVE StaleRowsQuarantined'
  BY <1>5, SweepStepTyped, LowersQuarantined
     DEF SweepStep, SweepBegins, SweepEnds, Probed, Reset, SweepOnly
<1>6. ASSUME NEW s \in Slots, Pass(s) PROVE StaleRowsQuarantined'
  BY <1>6, PassTyped, LowersQuarantined
     DEF Pass, LeaseLapses, Ages, Evict, FoundIdle, ScaledDown, Reaped, ProcessEnds
<1>7. ASSUME NEW f \in Frontends, Crash(f) PROVE StaleRowsQuarantined'
  BY <1>1, <1>7 DEF Crash
<1>8. CASE UNCHANGED vars
  BY <1>1, <1>8 DEF vars
<1> QED
  BY <1>2, <1>3, <1>4, <1>5, <1>6, <1>7, <1>8, RequestQuiet DEF Next

\* Whatever loads and edits overlap, a row that serves or will is of the current
\* revision: the publication of a load whose configuration has been edited is
\* refused, and the edit quarantines what was published before it.
\* (setNodeModelRevision, AdvanceModelConfigRevisions)
THEOREM NoStaleRowServes == Spec => []StaleRowsQuarantined
<1>1. Init => StaleRowsQuarantined
  BY DEF Init, NoRow, StaleRowsQuarantined, Active
<1> QED
  BY <1>1, StepQuarantined, TypedAlways, PTL DEF Spec
-----------------------------------------------------------------------------
(***************************************************************************)
(* Every unit of a counter is backed.                                      *)
(***************************************************************************)
Units(s) == Cardinality(Holders(s)) + Cardinality(Callers(s))

\* The units that a request in state q will give back to slot s.
Weight(q, s) ==
    (IF q.slot = s /\ q.held THEN 1 ELSE 0) + (IF q.slot = s /\ q.counted THEN 1 ELSE 0)

LEMMA UnitsAreBacked ==
    CountsAreBacked <=> \A s \in Slots : rows[s].inFlight <= Units(s) + leaked[s]
BY DEF CountsAreBacked, Units

LEMMA UnitsTyped ==
    ASSUME NEW s \in Slots
    PROVE  Units(s) \in Nat
<1>1. Cardinality(Holders(s)) \in Nat /\ Cardinality(Callers(s)) \in Nat
  BY SomeRequestsFinite DEF Holders, Callers
<1> QED
  BY <1>1 DEF Units

LEMMA UnitsTypedNext ==
    ASSUME NEW s \in Slots
    PROVE  Units(s)' \in Nat
<1>1. Cardinality(Holders(s)') \in Nat /\ Cardinality(Callers(s)') \in Nat
  BY SomeRequestsFinite DEF Holders, Callers
<1> QED
  BY <1>1 DEF Units

\* Requests in the states q and x give back the same units.
SameStake(q, x) ==
    \/ x.slot = q.slot /\ x.held = q.held /\ x.counted = q.counted
    \/ ~q.held /\ ~q.counted /\ ~x.held /\ ~x.counted

LEMMA SameUnits ==
    ASSUME NEW s \in Slots, \A r \in Requests : SameStake(req[r], req'[r])
    PROVE  Units(s)' = Units(s)
<1>1. Holders(s)' = Holders(s) /\ Callers(s)' = Callers(s)
  BY DEF Holders, Callers, SameStake
<1> QED
  BY <1>1 DEF Units

\* A set that differs by one element.
LEMMA OneElement ==
    ASSUME NEW S \in SUBSET Requests, NEW T \in SUBSET Requests, NEW r \in Requests,
           \A u \in Requests : u # r => (u \in S <=> u \in T)
    PROVE  Cardinality(T) + (IF r \in S THEN 1 ELSE 0)
             = Cardinality(S) + (IF r \in T THEN 1 ELSE 0)
<1>1. IsFiniteSet(S) /\ IsFiniteSet(T) /\ Cardinality(S) \in Nat /\ Cardinality(T) \in Nat
  BY SomeRequestsFinite
<1>2. CASE r \in S /\ r \notin T
  <2>1. T = S \ {r}
    BY <1>2
  <2> QED
    BY <1>1, <1>2, <2>1, FS_RemoveElement
<1>3. CASE r \notin S /\ r \in T
  <2>1. T = S \cup {r}
    BY <1>3
  <2> QED
    BY <1>1, <1>3, <2>1, FS_AddElement
<1>4. CASE r \in S <=> r \in T
  <2>1. S = T
    BY <1>4
  <2> QED
    BY <1>1, <1>4, <2>1
<1> QED
  BY <1>2, <1>3, <1>4

LEMMA MoveUnits ==
    ASSUME RequestsTyped, NEW r \in Requests, NEW q, Moves(r, q), NEW s \in Slots
    PROVE  Units(s)' + Weight(req[r], s) = Units(s) + Weight(q, s)
<1>1. ASSUME NEW u \in Requests PROVE req'[u] = IF u = r THEN q ELSE req[u]
  BY DEF Moves, RequestsTyped
<1> DEFINE H == Holders(s)  C == Callers(s)
           K == {u \in Requests : req'[u].slot = s /\ req'[u].held}
           D == {u \in Requests : req'[u].slot = s /\ req'[u].counted}
<1>2. H \in SUBSET Requests /\ C \in SUBSET Requests /\ K \in SUBSET Requests
      /\ D \in SUBSET Requests
  BY DEF Holders, Callers
<1>3. Cardinality(H) \in Nat /\ Cardinality(C) \in Nat /\ Cardinality(K) \in Nat
      /\ Cardinality(D) \in Nat
  BY <1>2, SomeRequestsFinite
<1>4. \A u \in Requests : u # r => (u \in H <=> u \in K) /\ (u \in C <=> u \in D)
  BY <1>1 DEF Holders, Callers
<1>5. /\ r \in H <=> req[r].slot = s /\ req[r].held
      /\ r \in C <=> req[r].slot = s /\ req[r].counted
      /\ r \in K <=> q.slot = s /\ q.held
      /\ r \in D <=> q.slot = s /\ q.counted
  BY <1>1 DEF Holders, Callers
<1>6. Units(s)' = Cardinality(K) + Cardinality(D) /\ Units(s) = Cardinality(H) + Cardinality(C)
  BY DEF Units, Holders, Callers
<1> HIDE DEF H, C, K, D
<1>7. Cardinality(K) + (IF r \in H THEN 1 ELSE 0) = Cardinality(H) + (IF r \in K THEN 1 ELSE 0)
  BY <1>2, <1>4, OneElement
<1>8. Cardinality(D) + (IF r \in C THEN 1 ELSE 0) = Cardinality(C) + (IF r \in D THEN 1 ELSE 0)
  BY <1>2, <1>4, OneElement
<1> QED
  BY <1>3, <1>5, <1>6, <1>7, <1>8 DEF Weight

\* A step that lowers, and gives up no unit.
LEMMA LowersBacked ==
    ASSUME RowsTyped, RowsTyped', CountsAreBacked, Lowers,
           \A s \in Slots : Units(s)' >= Units(s)
    PROVE  CountsAreBacked'
<1>1. ASSUME NEW s \in Slots PROVE rows'[s].inFlight <= Units(s)' + leaked'[s]
  <2>1. rows[s].inFlight \in Nat /\ rows'[s].inFlight \in Nat /\ leaked'[s] \in Nat
        /\ leaked[s] \in Nat
    BY DEF RowsTyped, Row
  <2>2. Units(s) \in Nat /\ Units(s)' \in Nat /\ Units(s)' >= Units(s)
    BY UnitsTyped, UnitsTypedNext
  <2>3. rows[s].inFlight <= Units(s) + leaked[s]
    BY UnitsAreBacked
  <2> QED
    BY <2>1, <2>2, <2>3 DEF Lowers
<1> QED
  BY <1>1 DEF CountsAreBacked, Units

\* A request that gives a unit back.
LEMMA GivesBack ==
    ASSUME RowsTyped, RequestsTyped, CountsAreBacked, NEW r \in Requests, NEW q, Moves(r, q),
           Decremented(req[r].slot), UNCHANGED leaked,
           \A s \in Slots : Weight(q, s) + (IF s = req[r].slot THEN 1 ELSE 0) >= Weight(req[r], s)
    PROVE  CountsAreBacked'
<1>1. ASSUME NEW s \in Slots PROVE rows'[s].inFlight <= Units(s)' + leaked'[s]
  <2>1. rows[s].inFlight \in Nat /\ leaked[s] \in Nat /\ rows[s] \in Row
    BY DEF RowsTyped, Row
  <2>2. Units(s) \in Nat /\ Units(s)' \in Nat
    BY UnitsTyped, UnitsTypedNext
  <2>3. rows[s].inFlight <= Units(s) + leaked[s]
    BY UnitsAreBacked
  <2>4. Units(s)' + Weight(req[r], s) = Units(s) + Weight(q, s)
    BY MoveUnits
  <2>5. Weight(req[r], s) \in Nat /\ Weight(q, s) \in Nat
    BY DEF Weight
  <2>6. rows'[s].inFlight = IF s = req[r].slot /\ rows[s].inFlight > 0
                            THEN rows[s].inFlight - 1 ELSE rows[s].inFlight
    BY <2>1 DEF Decremented, RowsTyped, Row
  <2> QED
    BY <2>1, <2>2, <2>3, <2>4, <2>5, <2>6
<1> QED
  BY <1>1 DEF CountsAreBacked, Units

\* A request that takes a unit.
LEMMA Takes ==
    ASSUME RowsTyped, RequestsTyped, CountsAreBacked, NEW r \in Requests, NEW q, Moves(r, q),
           NEW t, Incremented(t), UNCHANGED leaked,
           \A s \in Slots : Weight(q, s) >=
               Weight(req[r], s) + (IF s = t /\ Exists(t) THEN 1 ELSE 0)
    PROVE  CountsAreBacked'
<1>1. ASSUME NEW s \in Slots PROVE rows'[s].inFlight <= Units(s)' + leaked'[s]
  <2>1. rows[s].inFlight \in Nat /\ leaked[s] \in Nat
    BY DEF RowsTyped, Row
  <2>2. Units(s) \in Nat /\ Units(s)' \in Nat
    BY UnitsTyped, UnitsTypedNext
  <2>3. rows[s].inFlight <= Units(s) + leaked[s]
    BY UnitsAreBacked
  <2>4. Units(s)' + Weight(req[r], s) = Units(s) + Weight(q, s)
    BY MoveUnits
  <2>5. Weight(req[r], s) \in Nat /\ Weight(q, s) \in Nat
    BY DEF Weight
  <2>6. rows'[s].inFlight = rows[s].inFlight + (IF s = t /\ Exists(t) THEN 1 ELSE 0)
    BY IncrementedTyped
  <2> QED
    BY <2>1, <2>2, <2>3, <2>4, <2>5, <2>6
<1> QED
  BY <1>1 DEF CountsAreBacked, Units
LEMMA QuietBacked ==
    ASSUME Typed, CountsAreBacked, NEW r \in Requests, Quiet(r)
    PROVE  CountsAreBacked'
<1>1. req[r] \in Request /\ RequestHolds(req[r]) /\ req \in [Requests -> Request]
      /\ RowsTyped /\ RequestsTyped
  BY DEF Typed, RequestsTyped, RequestsHold
<1>2. RowsTyped'
  BY QuietTyped DEF Typed
\* The steps that move only the request's place in its code.
<1>3. ASSUME Lowers, SameStake(req[r], req'[r]), \A u \in Requests : u # r => req'[u] = req[u]
      PROVE  CountsAreBacked'
  <2>1. ASSUME NEW s \in Slots PROVE Units(s)' >= Units(s)
    <3>1. \A u \in Requests : SameStake(req[u], req'[u])
      BY <1>3 DEF SameStake
    <3>2. Units(s)' = Units(s)
      BY <3>1, SameUnits
    <3> QED
      BY <3>2, UnitsTyped
  <2> QED
    BY <1>1, <1>2, <1>3, <2>1, LowersBacked
<1>4. ASSUME NEW step, Goto(r, step), Lowers PROVE CountsAreBacked'
  <2>1. SameStake(req[r], req'[r]) /\ \A u \in Requests : u # r => req'[u] = req[u]
    BY <1>1, <1>4 DEF Goto, Request, SameStake
  <2> QED
    BY <1>3, <1>4, <2>1
<1>5. CASE NoReplica(r) \/ DropRow(r) \/ GiveUp(r) \/ Leave(r) \/ Routed(r)
  <2>1. Lowers
    BY <1>1, <1>5, UnchangedLowers, RemovedLowers, FreshLowers
       DEF NoReplica, DropRow, GiveUp, Leave, Routed
  <2>2. CASE \E step : Goto(r, step)
    BY <1>4, <2>1, <2>2
  <2>3. CASE FoundGone(r) /\ req[r].pc \in {"idle", "drop"}
    <3>1. ~req[r].held /\ ~req[r].counted
      BY <1>1, <2>3 DEF RequestHolds
    <3>2. ~req'[r].held /\ ~req'[r].counted /\ \A u \in Requests : u # r => req'[u] = req[u]
      BY <1>1, <2>3, <3>1 DEF FoundGone, Request
    <3> QED
      BY <1>3, <2>1, <3>1, <3>2 DEF SameStake
  <2>4. CASE GiveUp(r)
    <3>1. ~req[r].held /\ ~req[r].counted
      BY <1>1, <2>4 DEF GiveUp, RequestHolds
    <3>2. req'[r] = Failed /\ \A u \in Requests : u # r => req'[u] = req[u]
      BY <1>1, <2>4 DEF GiveUp
    <3> QED
      BY <1>3, <2>1, <3>1, <3>2, FailedHolds DEF SameStake
  <2>5. CASE Leave(r)
    <3>1. SameStake(req[r], req'[r]) /\ \A u \in Requests : u # r => req'[u] = req[u]
      BY <1>1, <2>5 DEF Leave, Request, SameStake
    <3> QED
      BY <1>3, <2>1, <3>1
  <2> QED
    BY <1>5, <2>2, <2>3, <2>4, <2>5 DEF NoReplica, DropRow, Routed
<1>6. CASE ModelGone(r)
  BY <1>1, <1>3, <1>6, RemovedLowers DEF ModelGone, SameStake
<1>7. CASE ReservationLost(r)
  <2> DEFINE q == [req[r] EXCEPT !.pc = "cold", !.held = FALSE, !.gone = TRUE]
             k == req[r].slot
  <2>1. req' = [req EXCEPT ![r] = q] /\ req[r].pc = "probe" /\ UNCHANGED rows
        /\ leaked' = [leaked EXCEPT ![k] = leaked[k] + 1]
    BY <1>7 DEF ReservationLost, FoundGone
  <2>2. q \in Request /\ RequestHolds(q) /\ ~q.held /\ ~q.counted /\ ~req[r].counted
    BY <1>1, <2>1 DEF Request, RequestHolds
  <2>3. Moves(r, q)
    BY <2>1, <2>2 DEF Moves
  <2> HIDE DEF q, k
  <2>4. ASSUME NEW s \in Slots PROVE rows'[s].inFlight <= Units(s)' + leaked'[s]
    <3>1. rows[s].inFlight \in Nat /\ leaked[s] \in Nat
      BY <1>1 DEF RowsTyped, Row
    <3>2. Units(s) \in Nat /\ Units(s)' \in Nat
      BY UnitsTyped, UnitsTypedNext
    <3>3. rows[s].inFlight <= Units(s) + leaked[s]
      BY UnitsAreBacked
    <3>4. Units(s)' + Weight(req[r], s) = Units(s) + Weight(q, s)
      BY <1>1, <2>3, MoveUnits
    <3>5. Weight(q, s) = 0 /\ Weight(req[r], s) \in {0, IF s = k THEN 1 ELSE 0}
      BY <2>2 DEF Weight, k
    <3>6. leaked'[s] = leaked[s] + (IF s = k THEN 1 ELSE 0)
      BY <1>1, <2>1, <3>1 DEF RowsTyped
    <3> QED
      BY <2>1, <3>1, <3>2, <3>3, <3>4, <3>5, <3>6
  <2> QED
    BY <2>4 DEF CountsAreBacked, Units
<1>8. ASSUME NEW s \in Slots, FindAndLock(r, s) PROVE CountsAreBacked'
  <2> DEFINE q == [req[r] EXCEPT !.pc = "probe", !.slot = s, !.held = TRUE]
  <2>1. req' = [req EXCEPT ![r] = q] /\ req[r].pc \in {"idle", "cold"} /\ Incremented(s)
        /\ UNCHANGED leaked
    BY <1>8 DEF FindAndLock
  <2>2. q \in Request /\ RequestHolds(q) /\ q.slot = s /\ q.held /\ ~req[r].held
        /\ ~req[r].counted
    BY <1>1, <2>1 DEF Request, RequestHolds
  <2> HIDE DEF q
  <2>3. ASSUME NEW u \in Slots
        PROVE  Weight(q, u) >= Weight(req[r], u) + (IF u = s /\ Exists(s) THEN 1 ELSE 0)
    BY <2>2 DEF Weight
  <2> QED
    BY <1>1, <2>1, <2>2, <2>3, Takes DEF Moves
<1>9. CASE BeginCall(r)
  <2> DEFINE s == req[r].slot
             q == [req[r] EXCEPT !.pc = "call", !.counted = Exists(s)]
  <2>1. req' = [req EXCEPT ![r] = q] /\ req[r].pc = "route" /\ Incremented(s)
        /\ UNCHANGED leaked
    BY <1>9 DEF BeginCall
  <2>2. Exists(s) \in BOOLEAN
    BY DEF Exists
  <2>3. q \in Request /\ RequestHolds(q) /\ q.slot = s /\ q.held = req[r].held
        /\ q.counted = Exists(s) /\ ~req[r].counted
    BY <1>1, <2>1, <2>2 DEF Request, RequestHolds
  <2> HIDE DEF q
  <2>4. ASSUME NEW u \in Slots
        PROVE  Weight(q, u) >= Weight(req[r], u) + (IF u = s /\ Exists(s) THEN 1 ELSE 0)
    BY <2>3 DEF Weight
  <2>5. Moves(r, q)
    BY <2>1, <2>3 DEF Moves
  <2> HIDE DEF s
  <2> QED
    BY <1>1, <2>1, <2>4, <2>5, Takes
<1>10. ASSUME NEW q \in Request, RequestHolds(q), req' = [req EXCEPT ![r] = q],
             Decremented(req[r].slot), UNCHANGED leaked, q.slot = req[r].slot,
             \/ ~q.held /\ q.counted = req[r].counted
             \/ ~q.counted /\ q.held = req[r].held
      PROVE  CountsAreBacked'
  <2>1. ASSUME NEW u \in Slots
        PROVE  Weight(q, u) + (IF u = req[r].slot THEN 1 ELSE 0) >= Weight(req[r], u)
    BY <1>1, <1>10 DEF Weight, Request
  <2> QED
    BY <1>1, <1>10, <2>1, GivesBack DEF Moves
<1>11. CASE ReservationReturned(r)
  <2>1. PICK step \in {"cold", "drop"} : req' = [req EXCEPT ![r].pc = step, ![r].held = FALSE]
    BY <1>11 DEF ReservationReturned
  <2> DEFINE q == [req[r] EXCEPT !.pc = step, !.held = FALSE]
  <2>2. req' = [req EXCEPT ![r] = q] /\ req[r].pc = "probe" /\ Decremented(req[r].slot)
        /\ UNCHANGED leaked
    BY <1>11, <2>1 DEF ReservationReturned
  <2>3. q \in Request /\ RequestHolds(q) /\ ~q.held /\ q.slot = req[r].slot
        /\ q.counted = req[r].counted
    BY <1>1, <2>2 DEF Request, RequestHolds
  <2> HIDE DEF q
  <2> QED
    BY <1>10, <2>2, <2>3
<1>12. CASE Release(r)
  <2> DEFINE q == [req[r] EXCEPT !.held = FALSE]
  <2>1. req' = [req EXCEPT ![r] = q] /\ UNCHANGED leaked
    BY <1>12 DEF Release
  <2>2. q \in Request /\ RequestHolds(q) /\ ~q.held /\ q.slot = req[r].slot
        /\ q.counted = req[r].counted
    BY <1>1 DEF Request, RequestHolds
  <2> HIDE DEF q
  <2>3. CASE req[r].held
    BY <1>10, <1>12, <2>1, <2>2, <2>3 DEF Release
  <2>4. CASE ~req[r].held
    <3>1. Lowers
      BY <1>1, <1>12, <2>1, <2>4, UnchangedLowers DEF Release
    <3>2. req'[r] = q /\ \A u \in Requests : u # r => req'[u] = req[u]
      BY <1>1, <2>1
    <3>3. q.held = req[r].held
      BY <1>1, <2>2, <2>4 DEF Request
    <3> QED
      BY <1>3, <2>2, <3>1, <3>2, <3>3 DEF SameStake
  <2> QED
    BY <2>3, <2>4
<1>13. CASE EndCall(r)
  <2> DEFINE step == IF req[r].counted THEN "first" ELSE "route"
             q == [req[r] EXCEPT !.pc = step, !.counted = FALSE]
  <2>1. req' = [req EXCEPT ![r] = q] /\ UNCHANGED leaked
    BY <1>13 DEF EndCall
  <2>2. q \in Request /\ RequestHolds(q) /\ ~q.counted /\ q.slot = req[r].slot
        /\ q.held = req[r].held
    BY <1>1 DEF Request, RequestHolds
  <2> HIDE DEF q
  <2>3. CASE req[r].counted
    BY <1>10, <1>13, <2>1, <2>2, <2>3 DEF EndCall
  <2>4. CASE ~req[r].counted
    <3>1. Lowers
      BY <1>1, <1>13, <2>1, <2>4, UnchangedLowers DEF EndCall
    <3>2. req'[r] = q /\ \A u \in Requests : u # r => req'[u] = req[u]
      BY <1>1, <2>1
    <3>3. q.counted = req[r].counted
      BY <1>1, <2>2, <2>4 DEF Request
    <3> QED
      BY <1>3, <2>2, <3>1, <3>2, <3>3 DEF SameStake
  <2> QED
    BY <2>3, <2>4
<1>14. CASE FirstComplete(r)
  <2> DEFINE q == [req[r] EXCEPT !.pc = "route", !.held = FALSE]
  <2>1. req' = [req EXCEPT ![r] = q] /\ UNCHANGED leaked /\ req[r].pc = "first"
    BY <1>14 DEF FirstComplete
  <2>2. q \in Request /\ RequestHolds(q) /\ ~q.held /\ q.slot = req[r].slot
        /\ q.counted = req[r].counted
    BY <1>1, <2>1 DEF Request, RequestHolds
  <2> HIDE DEF q
  <2>3. CASE req[r].held
    BY <1>10, <1>14, <2>1, <2>2, <2>3 DEF FirstComplete
  <2>4. CASE ~req[r].held
    <3>1. Lowers
      BY <1>1, <1>14, <2>1, <2>4, UnchangedLowers DEF FirstComplete
    <3>2. req'[r] = q /\ \A u \in Requests : u # r => req'[u] = req[u]
      BY <1>1, <2>1
    <3>3. q.held = req[r].held
      BY <1>1, <2>2, <2>4 DEF Request
    <3> QED
      BY <1>3, <2>2, <3>1, <3>2, <3>3 DEF SameStake
  <2> QED
    BY <2>3, <2>4
<1> QED
  BY <1>5, <1>6, <1>7, <1>8, <1>9, <1>11, <1>12, <1>13, <1>14 DEF Quiet

\* A load that ends, or goes on, leaves the reservations to their requests.
LEMMA LoadBacked ==
    ASSUME Typed, CountsAreBacked, NEW l \in Loads, LoadStepOf(l)
    PROVE  CountsAreBacked'
<1>1. req \in [Requests -> Request] /\ RowsTyped /\ RequestsTyped
  BY DEF Typed, RequestsTyped
<1>2. RowsTyped'
  BY LoadTyped DEF Typed
<1>3. ASSUME \A u \in Requests : SameStake(req[u], req'[u]), NEW s \in Slots
      PROVE  Units(s)' = Units(s) /\ Units(s) \in Nat
  BY <1>3, SameUnits, UnitsTyped
<1>4. ASSUME LoadEnds(l) \/ UNCHANGED req \/ \E r \in Requests : Goto(r, "inline"),
             NEW u \in Requests
      PROVE  SameStake(req[u], req'[u])
  <2>1. CASE LoadEnds(l) /\ load[l].by = u
    <3>1. u # None
      BY ReplicaRowsAssumption DEF ReplicaRowsAssumption, Actors
    <3>2. ~req[u].held /\ ~req[u].counted
      BY <2>1, <3>1 DEF Typed, LoadsInline, RequestsTyped, RequestsHold, RequestHolds
    <3>3. req'[u] = Failed
      BY <2>1 DEF LoadEnds
    <3> QED
      BY <3>2, <3>3, FailedHolds DEF SameStake
  <2>2. CASE LoadEnds(l) /\ load[l].by # u
    BY <2>2 DEF LoadEnds, SameStake
  <2>3. CASE UNCHANGED req
    BY <2>3 DEF SameStake
  <2>4. ASSUME NEW r \in Requests, Goto(r, "inline") PROVE SameStake(req[u], req'[u])
    BY <1>1, <2>4 DEF Goto, Request, SameStake
  <2> QED
    BY <1>4, <2>1, <2>2, <2>3, <2>4
<1>5. CASE Publish(l) /\ load[l].by # None
  <2> DEFINE r == load[l].by
             k == load[l].slot
             q == [pc |-> "route", slot |-> k, held |-> TRUE, counted |-> FALSE,
                   gone |-> req[r].gone]
  <2>1. load[l] \in Load /\ r \in Requests /\ load[l].rev \in 0..MaxRevision
        /\ req[r].gone \in BOOLEAN
    BY <1>1, <1>5 DEF Load, Request, Typed, LoadsTyped
  <2>2. req' = [req EXCEPT ![r] = q] /\ Written(l, "loaded", 1)
    BY <1>5 DEF Publish
  <2>3. q \in Request /\ RequestHolds(q) /\ q.held /\ ~q.counted /\ q.slot = k
    BY <2>1 DEF Load, Request, RequestHolds
  <2>4. ~req[r].held /\ ~req[r].counted
    BY <1>5, <2>1 DEF Typed, LoadsInline, RequestsTyped, RequestsHold, RequestHolds
  <2>5. Moves(r, q)
    BY <2>2, <2>3 DEF Moves
  <2>6. \A s \in Slots : IF s = k THEN rows'[s].inFlight = 1
                         ELSE rows'[s] = rows[s] /\ leaked'[s] = leaked[s]
    BY <1>1, <2>1, <2>2, WrittenTyped DEF Active
  <2> HIDE DEF q
  <2>7. ASSUME NEW s \in Slots PROVE rows'[s].inFlight <= Units(s)' + leaked'[s]
    <3>1. Units(s)' + Weight(req[r], s) = Units(s) + Weight(q, s)
      BY <1>1, <2>1, <2>5, MoveUnits
    <3>2. Weight(req[r], s) = 0 /\ Weight(q, s) = IF s = k THEN 1 ELSE 0
      BY <2>3, <2>4 DEF Weight
    <3>3. Units(s) \in Nat /\ Units(s)' \in Nat /\ leaked'[s] \in Nat
      BY <1>2, UnitsTyped, UnitsTypedNext DEF RowsTyped
    <3>4. rows[s].inFlight <= Units(s) + leaked[s]
      BY UnitsAreBacked
    <3> HIDE DEF k, r
    <3>5. CASE s = k
      BY <2>6, <3>1, <3>2, <3>3, <3>5
    <3>6. CASE s # k
      BY <2>6, <3>1, <3>2, <3>3, <3>4, <3>6
    <3> QED
      BY <3>5, <3>6
  <2> QED
    BY <2>7 DEF CountsAreBacked, Units
<1>6. CASE RecordStaging(l) \/ RecordLoading(l) \/ (Publish(l) /\ load[l].by = None)
  <2>1. PICK state \in Active : Written(l, state, 0)
    BY <1>6 DEF RecordStaging, RecordLoading, Publish, Active
  <2>2. load[l].rev \in 0..MaxRevision
    BY DEF Typed, LoadsTyped, Load
  <2>3. \A s \in Slots : IF s = load[l].slot THEN rows'[s].inFlight = 0
                         ELSE rows'[s] = rows[s] /\ leaked'[s] = leaked[s]
    BY <1>1, <2>1, <2>2, WrittenTyped
  <2>4. UNCHANGED req
    BY <1>6 DEF RecordStaging, RecordLoading, Publish, reqVars
  <2>5. ASSUME NEW s \in Slots PROVE rows'[s].inFlight <= Units(s)' + leaked'[s]
    <3>1. Units(s)' = Units(s) /\ Units(s) \in Nat
      BY <1>3, <1>4, <2>4
    <3>2. leaked'[s] \in Nat
      BY <1>2 DEF RowsTyped
    <3>3. rows[s].inFlight <= Units(s) + leaked[s]
      BY UnitsAreBacked
    <3> QED
      BY <2>3, <3>1, <3>2, <3>3
  <2> QED
    BY <2>5 DEF CountsAreBacked, Units
<1>7. CASE ~(RecordStaging(l) \/ RecordLoading(l) \/ Publish(l))
  <2>1. Lowers
    <3>1. CASE UNCHANGED <<rows, leaked>>
      BY <1>1, <3>1, UnchangedLowers
    <3>2. CASE RemoveLifecycleRow(l)
      BY <1>1, <3>2, RemovedLowers DEF RemoveLifecycleRow
    <3>3. CASE StopStaleLoad(l)
      <4>1. PICK p \in load[l].seen : RemoveClaimed(p) \/ (NotStopped(p) /\ UNCHANGED leaked)
        BY <3>3 DEF StopStaleLoad
      <4>2. p.slot \in Slots
        BY <4>1 DEF Typed, LoadsTyped, Load, Claim
      <4> QED
        BY <1>1, <4>1, <4>2, RemoveClaimedLowers, NotStoppedLowers
    <3> QED
      BY <1>7, <3>1, <3>2, <3>3
         DEF LoadStepOf, Schedule, ScheduleInline, InstallFails, StagingRefused, LoadFails,
             CheckRevision, PublishRefused
  <2>2. LoadEnds(l) \/ UNCHANGED req \/ \E r \in Requests : Goto(r, "inline")
    BY <1>7 DEF LoadStepOf, Schedule, ScheduleInline, InstallFails, StagingRefused, LoadFails,
                CheckRevision, PublishRefused, RemoveLifecycleRow, StopStaleLoad, reqVars
  <2>3. ASSUME NEW s \in Slots PROVE Units(s)' >= Units(s)
    <3>1. \A u \in Requests : SameStake(req[u], req'[u])
      BY <1>4, <2>2
    <3>2. Units(s)' = Units(s) /\ Units(s) \in Nat
      BY <1>3, <3>1
    <3> QED
      BY <3>2
  <2> QED
    BY <1>1, <1>2, <2>1, <2>3, LowersBacked
<1> QED
  BY <1>5, <1>6, <1>7

LEMMA CrashBacked ==
    ASSUME Typed, CountsAreBacked, NEW f \in Frontends, Crash(f)
    PROVE  CountsAreBacked'
<1>1. ASSUME NEW s \in Slots PROVE Units(s)' + Abandoned(f, s) = Units(s)
  <2> DEFINE mine == {r \in Requests : Home[r] = f /\ req[r].slot = s}
             H == Holders(s)  C == Callers(s)
             HM == {r \in mine : req[r].held}
             CM == {r \in mine : req[r].counted}
             K == {r \in Requests : req'[r].slot = s /\ req'[r].held}
             D == {r \in Requests : req'[r].slot = s /\ req'[r].counted}
  <2>1. ASSUME NEW r \in Requests
        PROVE  /\ r \in K <=> r \in H /\ r \notin HM
               /\ r \in D <=> r \in C /\ r \notin CM
    <3>1. req'[r] = IF Home[r] = f /\ req[r].pc # "idle" THEN Failed ELSE req[r]
      BY DEF Crash
    <3>2. req[r].pc = "idle" => ~req[r].held /\ ~req[r].counted
      BY DEF Typed, RequestsTyped, RequestsHold, RequestHolds
    <3> QED
      BY <3>1, <3>2, FailedHolds DEF Holders, Callers
  <2>2. H \in SUBSET Requests /\ C \in SUBSET Requests /\ HM \in SUBSET H /\ CM \in SUBSET C
        /\ K \in SUBSET Requests /\ D \in SUBSET Requests
    BY DEF Holders, Callers
  <2>3. Units(s)' = Cardinality(K) + Cardinality(D) /\ Units(s) = Cardinality(H) + Cardinality(C)
        /\ Abandoned(f, s) = Cardinality(HM) + Cardinality(CM)
    BY DEF Units, Holders, Callers, Abandoned
  <2> HIDE DEF H, C, HM, CM, K, D
  <2>4. K = H \ HM /\ D = C \ CM /\ H \cap HM = HM /\ C \cap CM = CM
    BY <2>1, <2>2
  <2>5. IsFiniteSet(H) /\ IsFiniteSet(C) /\ HM \in SUBSET Requests /\ CM \in SUBSET Requests
    BY <2>2, SomeRequestsFinite
  <2>6. Cardinality(K) = Cardinality(H) - Cardinality(HM)
        /\ Cardinality(D) = Cardinality(C) - Cardinality(CM)
    <3>1. Cardinality(H \ HM) = Cardinality(H) - Cardinality(H \cap HM)
      BY <2>5, FS_Difference
    <3>2. Cardinality(C \ CM) = Cardinality(C) - Cardinality(C \cap CM)
      BY <2>5, FS_Difference
    <3> QED
      BY <2>4, <3>1, <3>2
  <2>7. Cardinality(H) \in Nat /\ Cardinality(C) \in Nat /\ Cardinality(HM) \in Nat
        /\ Cardinality(CM) \in Nat
    BY <2>2, <2>5, SomeRequestsFinite
  <2> QED
    BY <2>3, <2>6, <2>7
<1>2. ASSUME NEW s \in Slots PROVE rows'[s].inFlight <= Units(s)' + leaked'[s]
  <2>1. rows' = rows /\ leaked'[s] = leaked[s] + Abandoned(f, s)
    BY DEF Crash
  <2>2. rows[s].inFlight <= Units(s) + leaked[s]
    BY UnitsAreBacked
  <2>3. Units(s) \in Nat /\ Units(s)' \in Nat /\ leaked[s] \in Nat /\ Abandoned(f, s) \in Nat
        /\ rows[s].inFlight \in Nat
    BY UnitsTyped, UnitsTypedNext, AbandonedTyped DEF Typed, RowsTyped, Row
  <2> QED
    BY <1>1, <2>1, <2>2, <2>3
<1> QED
  BY <1>2 DEF CountsAreBacked, Units

LEMMA StepBacked == Typed /\ CountsAreBacked /\ [Next]_vars => CountsAreBacked'
<1> SUFFICES ASSUME Typed, CountsAreBacked, [Next]_vars PROVE CountsAreBacked'
  OBVIOUS
<1>1. ASSUME UNCHANGED req, Lowers, Typed' PROVE CountsAreBacked'
  <2>1. \A s \in Slots : Units(s)' = Units(s) /\ Units(s) \in Nat
    BY <1>1, SameUnits, UnitsTyped DEF SameStake
  <2>2. \A s \in Slots : Units(s)' >= Units(s)
    BY <2>1
  <2>3. RowsTyped /\ RowsTyped'
    BY <1>1 DEF Typed
  <2> QED
    BY <1>1, <2>2, <2>3, LowersBacked
<1>2. ASSUME NEW c \in Cleaners, CleanerStep(c) PROVE CountsAreBacked'
  <2>1. UNCHANGED req
    BY <1>2 DEF CleanerStep, Edit, ClaimRetries, StopsReplica, StopFails, RemovesRow, CutShort,
                CleanOnly, reqVars
  <2> QED
    BY <1>1, <1>2, <2>1, CleanerTyped
<1>3. ASSUME SweepStep PROVE CountsAreBacked'
  <2>1. UNCHANGED req
    BY <1>3 DEF SweepStep, SweepBegins, SweepEnds, Probed, Reset, SweepOnly, reqVars
  <2> QED
    BY <1>1, <1>3, <2>1, SweepStepTyped
<1>4. ASSUME NEW s \in Slots, Pass(s) PROVE CountsAreBacked'
  <2>1. UNCHANGED req
    BY <1>4 DEF Pass, LeaseLapses, Ages, Evict, FoundIdle, ScaledDown, Reaped, ProcessEnds,
                reqVars
  <2> QED
    BY <1>1, <1>4, <2>1, PassTyped
<1>5. CASE UNCHANGED vars
  <2>1. UNCHANGED <<req, rows, leaked>>
    BY <1>5 DEF vars, reqVars
  <2>2. RowsTyped /\ Typed'
    BY <1>5, StutterTyped DEF Typed
  <2> QED
    BY <1>1, <2>1, <2>2, UnchangedLowers
<1> QED
  BY <1>2, <1>3, <1>4, <1>5, RequestQuiet, QuietBacked, LoadBacked, CrashBacked DEF Next

\* Every unit of a counter is one that a request gives back, or that a kill, or a
\* client that went away during the probe, has left there: but for those two, the
\* decrements of a request, of its reservation and its calls, are paired with its
\* increments, whatever removes the row in between.
\* (newRouteResult, track, tryWarmPath, DecrementInFlight)
THEOREM CountsStayBacked == Spec => []CountsAreBacked
<1>1. Init => CountsAreBacked
  <2> SUFFICES ASSUME Init PROVE CountsAreBacked
    OBVIOUS
  <2>1. ASSUME NEW s \in Slots PROVE rows[s].inFlight <= Units(s) + leaked[s]
    <3>1. rows[s].inFlight = 0 /\ leaked[s] = 0
      BY DEF Init, NoRow
    <3> QED
      BY <3>1, UnitsTyped
  <2> QED
    BY <2>1, UnitsAreBacked
<1> QED
  BY <1>1, StepBacked, TypedAlways, PTL DEF Spec
-----------------------------------------------------------------------------
(***************************************************************************)
(* A cleanup spares what was written after it had read the rows, as long   *)
(* as no configuration comes back: the row of a claim is of an older       *)
(* revision than the model's, and a load only writes the model's.          *)
(***************************************************************************)
UnloadingOld == \A s \in Slots : rows[s].state = "unloading" => rows[s].rev < revision

\* A row with the ID and the revision of the claim is the row that was read.
Spared(q) ==
    /\ q.rev < revision
    /\ Exists(q.slot) /\ rows[q.slot].id = q.id /\ rows[q.slot].rev = q.rev =>
           rows[q.slot].writer = q.writer

ClaimsSpared ==
    \A c \in Cleaners :
        /\ \A q \in cleaner[c].todo \cup cleaner[c].ended : Spared(q)
        /\ \A p, q \in cleaner[c].ended : p = q

Sparing == StaleRowsQuarantined /\ UnloadingOld /\ ClaimsSpared

\* What any step does to the revision and to the writes.
Progress ==
    /\ revision \in Nat /\ revision' \in Nat /\ revision <= revision'
    /\ \A s \in Slots :
         \/ rows'[s].state = "none"
         \/ /\ SameWrite(rows'[s], rows[s])
            /\ \/ rows'[s].state = rows[s].state
               \/ /\ rows[s].state \in Active /\ rows'[s].state = "unloading"
                  /\ revision < revision'
         \/ rows'[s].rev = revision /\ rows'[s].state \in Active

LEMMA EditAdvances ==
    ASSUME ~Returns, Typed, NEW c \in Cleaners, Edit(c)
    PROVE  revision' = revision + 1
BY DEF Edit

LEMMA StepProgress == ~Returns /\ Typed /\ [Next]_vars => Progress
<1> SUFFICES ASSUME ~Returns, Typed, [Next]_vars PROVE Progress
  OBVIOUS
<1>0. revision \in Nat
  BY RevisionTyped, ReplicaRowsAssumption DEF ReplicaRowsAssumption
<1>1. ASSUME Lowers, UNCHANGED revision PROVE Progress
  BY <1>0, <1>1 DEF Lowers, Progress
<1>2. ASSUME UNCHANGED <<rows, revision>> PROVE Progress
  BY <1>0, <1>2 DEF Progress, SameWrite
<1>3. ASSUME NEW r \in Requests, Quiet(r) PROVE Progress
  <2>1. UNCHANGED revision
    BY <1>3, QuietLeaves
  <2>2. ASSUME NEW s, Incremented(s), UNCHANGED leaked PROVE Progress
    <3>1. \A t \in Slots : rows'[t].state = rows[t].state /\ SameWrite(rows'[t], rows[t])
      BY <2>2, IncrementedTyped DEF Typed
    <3> QED
      BY <1>0, <2>1, <3>1 DEF Progress
  <2> QED
    BY <1>1, <1>3, <2>1, <2>2, QuietRows DEF Typed
<1>4. ASSUME NEW l \in Loads, LoadStepOf(l) PROVE Progress
  <2>1. UNCHANGED revision
    BY <1>4 DEF LoadStepOf, Schedule, ScheduleInline, InstallFails, RecordStaging,
                StagingRefused, RecordLoading, LoadFails, CheckRevision, RemoveLifecycleRow,
                Publish, PublishRefused, StopStaleLoad, LoadOnly
  <2>2. CASE LoadWrites(l)
    <3>1. PICK state \in Active, n \in Nat : Current(l) /\ Written(l, state, n)
      BY <2>2 DEF LoadWrites
    <3>2. load[l].rev \in 0..MaxRevision
      BY DEF Typed, LoadsTyped, Load
    <3>3. \A s \in Slots : IF s = load[l].slot
                           THEN rows'[s].rev = revision /\ rows'[s].state \in Active
                           ELSE rows'[s] = rows[s]
      BY <3>1, <3>2, WrittenTyped DEF Typed, Current
    <3> QED
      BY <1>0, <2>1, <3>3 DEF Progress, SameWrite
  <2> QED
    BY <1>1, <1>4, <2>1, <2>2, LoadRows
<1>5. ASSUME NEW c \in Cleaners, CleanerStep(c) PROVE Progress
  <2>1. Lowers
    BY <1>5, CleanerTyped
  <2>2. CASE Edit(c)
    <3>1. revision' = revision + 1
      BY <2>2, EditAdvances
    <3> QED
      BY <1>0, <2>1, <3>1 DEF Lowers, Progress
  <2>3. CASE ~Edit(c)
    <3>1. UNCHANGED revision
      BY <1>5, <2>3 DEF CleanerStep, ClaimRetries, StopsReplica, StopFails, RemovesRow, CutShort
    <3> QED
      BY <1>1, <2>1, <3>1
  <2> QED
    BY <2>2, <2>3
<1>6. ASSUME SweepStep PROVE Progress
  BY <1>1, <1>6, SweepStepTyped DEF SweepStep, SweepBegins, SweepEnds, Probed, Reset, SweepOnly
<1>7. ASSUME NEW s \in Slots, Pass(s) PROVE Progress
  BY <1>1, <1>7, PassTyped
     DEF Pass, LeaseLapses, Ages, Evict, FoundIdle, ScaledDown, Reaped, ProcessEnds
<1>8. ASSUME NEW f \in Frontends, Crash(f) PROVE Progress
  BY <1>2, <1>8 DEF Crash
<1>9. CASE UNCHANGED vars
  BY <1>2, <1>9 DEF vars
<1> QED
  BY <1>3, <1>4, <1>5, <1>6, <1>7, <1>8, <1>9, RequestQuiet DEF Next

LEMMA ProgressUnloading ==
    ASSUME Typed, Typed', StaleRowsQuarantined, UnloadingOld, Progress
    PROVE  UnloadingOld'
<1>1. ASSUME NEW s \in Slots, rows'[s].state = "unloading"
      PROVE  rows'[s].rev < revision'
  <2>1. rows[s].rev \in Nat /\ rows[s].state \in Active \cup {"none", "unloading"}
    BY DEF Typed, RowsTyped, Row
  <2>2. SameWrite(rows'[s], rows[s])
        /\ (rows'[s].state = rows[s].state \/ (rows[s].state \in Active /\ revision < revision'))
    BY <1>1 DEF Progress, Active
  <2>3. rows'[s].rev = rows[s].rev
    BY <2>2 DEF SameWrite
  <2>4. CASE rows[s].state = "unloading"
    BY <2>1, <2>3, <2>4 DEF UnloadingOld, Progress
  <2>5. CASE rows[s].state # "unloading"
    <3>1. rows[s].rev = revision
      BY <1>1, <2>2, <2>5 DEF StaleRowsQuarantined
    <3> QED
      BY <1>1, <2>2, <2>3, <2>5, <3>1
  <2> QED
    BY <2>4, <2>5
<1> QED
  BY <1>1 DEF UnloadingOld

\* What was spared stays so.
LEMMA StaysSpared ==
    ASSUME Typed, Progress, NEW q \in Claim, Spared(q)
    PROVE  Spared(q)'
<1>1. q.slot \in Slots /\ q.rev \in Nat
  BY ReplicaRowsAssumption DEF Claim, ReplicaRowsAssumption
<1>2. q.rev < revision'
  BY <1>1 DEF Spared, Progress
<1>3. ASSUME rows'[q.slot].state # "none", rows'[q.slot].id = q.id, rows'[q.slot].rev = q.rev
      PROVE  rows'[q.slot].writer = q.writer
  <2>1. rows'[q.slot].rev # revision
    BY <1>1, <1>3 DEF Spared, Progress
  <2>2. SameWrite(rows'[q.slot], rows[q.slot])
        /\ (rows'[q.slot].state = rows[q.slot].state \/ rows[q.slot].state \in Active)
    BY <1>1, <1>3, <2>1 DEF Progress
  <2>3. rows[q.slot].state # "none"
    BY <1>3, <2>2 DEF Active
  <2> QED
    BY <1>3, <2>2, <2>3 DEF Spared, SameWrite, Exists
<1> QED
  BY <1>2, <1>3 DEF Spared, Exists

\* A claim of a row of a revision that is not the model's any more is spared.
LEMMA NewClaimSpared ==
    ASSUME Typed, Progress, NEW s \in Slots, rows[s].rev < revision', rows[s].state # "none",
           NEW q, q = ClaimOf(s), SameWrite(rows'[s], rows[s])
    PROVE  Spared(q)'
<1>1. q.slot = s /\ q.writer = rows[s].writer /\ q.rev = rows[s].rev
  BY DEF ClaimOf
<1> QED
  BY <1>1 DEF Spared, SameWrite

LEMMA TodoSet ==
    ASSUME CleanersTyped, NEW c \in Cleaners, NEW T, cleaner' = [cleaner EXCEPT ![c].todo = T]
    PROVE  cleaner'[c].todo = T /\ cleaner'[c].ended = cleaner[c].ended
BY DEF CleanersTyped

\* The claims that c holds after its step: it held them, or reads them now.
LEMMA EditClaims ==
    ASSUME ~Returns, Typed, StaleRowsQuarantined, NEW c \in Cleaners, Edit(c),
           NEW q \in cleaner'[c].todo
    PROVE  \E s \in Slots : /\ q = ClaimOf(s) /\ rows[s].state # "none"
                            /\ rows[s].rev < revision' /\ SameWrite(rows'[s], rows[s])
<1>1. revision' = revision + 1 /\ revision \in Nat
  BY EditAdvances, RevisionTyped, ReplicaRowsAssumption DEF ReplicaRowsAssumption
<1>2. cleaner'[c].todo = {ClaimOf(s) : s \in {t \in Slots : Stale(t, revision')}}
  <2>1. PICK rev \in Revision :
          /\ revision' = rev
          /\ cleaner' = [cleaner EXCEPT ![c].todo = {ClaimOf(s) : s \in {t \in Slots :
                                                                    Stale(t, rev)}}]
    BY DEF Edit
  <2> DEFINE T == {ClaimOf(s) : s \in {t \in Slots : Stale(t, rev)}}
  <2>2. cleaner' = [cleaner EXCEPT ![c].todo = T]
    BY <2>1
  <2>3. T = {ClaimOf(s) : s \in {t \in Slots : Stale(t, revision')}}
    BY <2>1
  <2> HIDE DEF T
  <2> QED
    BY <2>2, <2>3, TodoSet DEF Typed
<1>3. PICK s \in Slots : q = ClaimOf(s) /\ Stale(s, revision')
  BY <1>2
<1>4. rows[s].rev = revision /\ rows[s].state # "none"
  BY <1>3 DEF Stale, StaleRowsQuarantined, Active
<1>5. rows'[s].state # "none" /\ SameWrite(rows'[s], rows[s])
  <2>1. rows'[s] = [rows[s] EXCEPT !.state = "unloading", !.leased = FALSE]
    BY <1>3 DEF Edit
  <2>2. rows[s] \in Row
    BY DEF Typed, RowsTyped
  <2> QED
    BY <2>1, <2>2 DEF Row, SameWrite
<1> QED
  BY <1>1, <1>3, <1>4, <1>5

LEMMA RetryClaims ==
    ASSUME Typed, UnloadingOld, NEW c \in Cleaners, ClaimRetries(c), NEW q \in cleaner'[c].todo
    PROVE  \E s \in Slots : /\ q = ClaimOf(s) /\ rows[s].state # "none"
                            /\ rows[s].rev < revision' /\ SameWrite(rows'[s], rows[s])
<1>1. PICK s \in Slots : /\ Due(s)
                         /\ rows' = [rows EXCEPT ![s].leased = TRUE]
                         /\ cleaner' = [cleaner EXCEPT ![c].todo = {ClaimOf(s)}]
  BY DEF ClaimRetries
<1>2. q = ClaimOf(s) /\ revision' = revision
  <2>1. cleaner'[c].todo = {ClaimOf(s)}
    BY <1>1, TodoSet DEF Typed
  <2> QED
    BY <2>1 DEF ClaimRetries
<1>3. rows[s].rev < revision /\ rows[s].state # "none"
  BY <1>1 DEF Due, UnloadingOld
<1>4. SameWrite(rows'[s], rows[s])
  <2>1. rows[s] \in Row /\ rows'[s] = [rows[s] EXCEPT !.leased = TRUE]
    BY <1>1 DEF Typed, RowsTyped
  <2> QED
    BY <2>1 DEF Row, SameWrite
<1> QED
  BY <1>2, <1>3, <1>4

\* The claims of cleaner c.
Claimed(c) == cleaner[c].todo \cup cleaner[c].ended

LEMMA StepClaims ==
    ASSUME ~Returns, Typed, Sparing, Progress, NEW c \in Cleaners, CleanerStep(c)
    PROVE  /\ \A q \in Claimed(c)' :
                \/ q \in Claimed(c)
                \/ \E s \in Slots : /\ q = ClaimOf(s) /\ rows[s].state # "none"
                                    /\ rows[s].rev < revision' /\ SameWrite(rows'[s], rows[s])
           /\ \A p, q \in cleaner'[c].ended : p = q
           /\ \A d \in Cleaners \ {c} : cleaner'[d] = cleaner[d]
<1>1. cleaner \in [Cleaners -> [todo : SUBSET Claim, ended : SUBSET Claim]]
  BY DEF Typed, CleanersTyped
<1>2. \A d \in Cleaners \ {c} : cleaner'[d] = cleaner[d]
  BY <1>1 DEF CleanerStep, Edit, ClaimRetries, StopsReplica, StopFails, RemovesRow, CutShort
<1>3. CASE Edit(c) \/ ClaimRetries(c)
  <2>1. cleaner'[c].ended = {}
    <3>1. PICK T : cleaner' = [cleaner EXCEPT ![c].todo = T]
      BY <1>3 DEF Edit, ClaimRetries
    <3>2. cleaner[c] = NoTodo
      BY <1>3 DEF Edit, ClaimRetries
    <3> QED
      BY <3>1, <3>2, TodoSet DEF Typed, NoTodo
  <2> QED
    BY <1>2, <1>3, <2>1, EditClaims, RetryClaims DEF Claimed, Sparing
<1>4. CASE StopsReplica(c)
  <2>1. PICK q \in cleaner[c].todo :
          cleaner' = [cleaner EXCEPT ![c].todo = @ \ {q}, ![c].ended = {q}]
    BY <1>4 DEF StopsReplica
  <2>2. cleaner'[c].todo = cleaner[c].todo \ {q} /\ cleaner'[c].ended = {q}
    BY <1>1, <2>1
  <2> QED
    BY <1>2, <2>1, <2>2 DEF Claimed
<1>5. CASE StopFails(c)
  <2>1. PICK q \in cleaner[c].todo : cleaner' = [cleaner EXCEPT ![c].todo = @ \ {q}]
    BY <1>5 DEF StopFails
  <2>2. cleaner'[c].todo = cleaner[c].todo \ {q} /\ cleaner'[c].ended = cleaner[c].ended
    BY <1>1, <2>1
  <2> QED
    BY <1>2, <2>2 DEF Claimed, Sparing, ClaimsSpared
<1>6. CASE RemovesRow(c)
  <2>1. cleaner'[c].todo = cleaner[c].todo /\ cleaner'[c].ended = {}
    BY <1>1, <1>6 DEF RemovesRow
  <2> QED
    BY <1>2, <2>1 DEF Claimed
<1>7. CASE CutShort(c)
  <2>1. cleaner'[c].todo = {} /\ cleaner'[c].ended = {}
    BY <1>1, <1>7 DEF CutShort, NoTodo
  <2> QED
    BY <1>2, <2>1 DEF Claimed
<1> QED
  BY <1>3, <1>4, <1>5, <1>6, <1>7 DEF CleanerStep

LEMMA StepSparing == ~Returns /\ Typed /\ Sparing /\ [Next]_vars => Sparing'
<1> SUFFICES ASSUME ~Returns, Typed, Sparing, [Next]_vars PROVE Sparing'
  OBVIOUS
<1>1. Progress /\ Typed' /\ StaleRowsQuarantined' /\ UnloadingOld'
  BY StepProgress, StepTyped, StepQuarantined, ProgressUnloading DEF Sparing
<1>2. ASSUME NEW c \in Cleaners, NEW q \in Claimed(c) PROVE Spared(q)'
  <2>1. q \in Claim /\ Spared(q)
    BY <1>2 DEF Typed, CleanersTyped, Claimed, Sparing, ClaimsSpared
  <2> QED
    BY <1>1, <2>1, StaysSpared
<1>3. ASSUME NEW c \in Cleaners, cleaner'[c] = cleaner[c] \/ cleaner'[c] = NoTodo
      PROVE  /\ \A q \in Claimed(c)' : Spared(q)'
             /\ \A p, q \in cleaner'[c].ended : p = q
  BY <1>2, <1>3 DEF Claimed, NoTodo, Sparing, ClaimsSpared
<1>4. CASE \E c \in Cleaners : CleanerStep(c)
  <2>1. PICK c \in Cleaners : CleanerStep(c)
    BY <1>4
  <2>2. \A q \in Claimed(c)' : Spared(q)'
    BY <1>1, <1>2, <2>1, StepClaims, NewClaimSpared
  <2>3. \A p, q \in cleaner'[c].ended : p = q
    BY <1>1, <2>1, StepClaims
  <2>4. \A d \in Cleaners \ {c} : cleaner'[d] = cleaner[d]
    BY <1>1, <2>1, StepClaims
  <2>5. ASSUME NEW d \in Cleaners
        PROVE  /\ \A q \in Claimed(d)' : Spared(q)'
               /\ \A p, q \in cleaner'[d].ended : p = q
    BY <1>3, <2>2, <2>3, <2>4
  <2> QED
    BY <1>1, <2>5 DEF Sparing, ClaimsSpared, Claimed
<1>5. CASE ~\E c \in Cleaners : CleanerStep(c)
  <2>1. ASSUME NEW c \in Cleaners PROVE cleaner'[c] = cleaner[c] \/ cleaner'[c] = NoTodo
    <3>1. CASE \E f \in Frontends : Crash(f)
      BY <3>1 DEF Crash
    <3>2. CASE ~\E f \in Frontends : Crash(f)
      <4>1. CASE \E r \in Requests : RequestStep(r)
        BY <4>1, RequestQuiet, QuietLeaves
      <4>2. CASE \E l \in Loads : LoadStepOf(l)
        BY <4>2 DEF LoadStepOf, Schedule, ScheduleInline, InstallFails, RecordStaging,
                    StagingRefused, RecordLoading, LoadFails, CheckRevision, RemoveLifecycleRow,
                    Publish, PublishRefused, StopStaleLoad, LoadOnly
      <4>3. CASE SweepStep
        BY <4>3 DEF SweepStep, SweepBegins, SweepEnds, Probed, Reset, SweepOnly
      <4>4. CASE \E s \in Slots : Pass(s)
        BY <4>4 DEF Pass, LeaseLapses, Ages, Evict, FoundIdle, ScaledDown, Reaped, ProcessEnds
      <4>5. CASE UNCHANGED vars
        BY <4>5 DEF vars
      <4> QED
        BY <1>5, <3>2, <4>1, <4>2, <4>3, <4>4, <4>5 DEF Next
    <3> QED
      BY <3>1, <3>2
  <2> QED
    BY <1>1, <1>3, <2>1 DEF Sparing, ClaimsSpared, Claimed
<1> QED
  BY <1>4, <1>5

\* As long as no configuration comes back, a cleanup removes no row that was
\* written after it had read the row that it stopped: the row it removes is of
\* the revision it has read, older than the model's, and a load that writes the
\* row again writes the model's.  (RemoveClaimedModelCleanup)
THEOREM ReplacementsAreSpared ==
    ASSUME ~Returns
    PROVE  Spec => CleanupSparesReplacement
<1> DEFINE Spares ==
        \A c \in Cleaners : \A q \in cleaner[c].ended :
            RemovesRow(c) /\ Exists(q.slot) /\ rows'[q.slot] = NoRow =>
                rows[q.slot].writer = q.writer
<1>1. Init => Sparing
  <2> SUFFICES ASSUME Init PROVE Sparing
    OBVIOUS
  <2>1. StaleRowsQuarantined /\ UnloadingOld
    BY DEF Init, NoRow, StaleRowsQuarantined, UnloadingOld, Active
  <2>2. ClaimsSpared
    BY DEF Init, NoTodo, ClaimsSpared
  <2> QED
    BY <2>1, <2>2 DEF Sparing
<1>2. Typed /\ Sparing => Spares
  <2> SUFFICES ASSUME Typed, Sparing, NEW c \in Cleaners, NEW q \in cleaner[c].ended,
                      RemovesRow(c), Exists(q.slot), rows'[q.slot] = NoRow
               PROVE  rows[q.slot].writer = q.writer
    OBVIOUS
  <2>1. RemoveClaimed(q) /\ Spared(q)
    BY DEF RemovesRow, Sparing, ClaimsSpared
  <2>2. Matches(q)
    BY <2>1 DEF RemoveClaimed, Exists, NoRow
  <2> QED
    BY <2>1, <2>2 DEF Matches, Spared
<1>3. Typed /\ Sparing /\ [Next]_vars => Sparing'
  BY StepSparing
<1>4. CleanupSparesReplacement <=> [][Spares]_vars
  BY DEF CleanupSparesReplacement
<1> HIDE DEF Spares
<1> QED
  BY <1>1, <1>2, <1>3, <1>4, TypedAlways, PTL DEF Spec
=============================================================================
