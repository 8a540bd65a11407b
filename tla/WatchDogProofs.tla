---------------------------- MODULE WatchDogProofs ----------------------------
(***************************************************************************)
(* WatchDog for every number of models, requests and addresses.            *)
(*                                                                         *)
(* What holds in every environment: the busy marks (Marks) and what may be *)
(* selected (Eligible).  What holds while shutdowns do not run out of time *)
(* (~DeadlinesExpire): no model escapes (Covered).  What also needs loads  *)
(* one at a time, and no check that evicts beside them: the limit and the  *)
(* groups.                                                                 *)
(*                                                                         *)
(* All but the marks rest on who uses an address: a process has an         *)
(* address of its own, and the watchdog has it under its model (Places).   *)
(* A step is one of four kinds for that (StepKinds): a process starts,     *)
(* fails to start, is published, or nothing new is used (Keeps).           *)
(***************************************************************************)
EXTENDS WatchDog, SequenceTheorems, FiniteSetTheorems, TLAPS

-----------------------------------------------------------------------------
(***************************************************************************)
(* Sequences and sets.                                                     *)
(***************************************************************************)

\* A function keeps its set when a value changes within its range.
LEMMA Changed ==
    ASSUME NEW S, NEW T, NEW f \in [S -> T], NEW x, NEW v \in T
    PROVE  [f EXCEPT ![x] = v] \in [S -> T]
OBVIOUS

Distinct(s) == \A i, j \in 1..Len(s) : s[i] = s[j] => i = j

\* A sequence of distinct elements, and one of them taken out of it.
LEMMA TakenOutAt ==
    ASSUME NEW S, NEW s \in Seq(S), Distinct(s), NEW k \in 1..Len(s)
    PROVE  /\ RemoveAt(s, k) \in Seq(S)
           /\ Distinct(RemoveAt(s, k))
           /\ \A j \in 1..Len(RemoveAt(s, k)) :
                  /\ RemoveAt(s, k)[j] # s[k]
                  /\ \E i \in 1..Len(s) : RemoveAt(s, k)[j] = s[i]
<1> DEFINE before == SubSeq(s, 1, k - 1)
           after == SubSeq(s, k + 1, Len(s))
<1>1. Len(s) \in Nat
  OBVIOUS
<1>3. /\ before \in Seq(S)
      /\ Len(before) = k - 1
      /\ \A j \in 1..(k - 1) : before[j] = s[j]
  OBVIOUS
<1>4. /\ after \in Seq(S)
      /\ Len(after) = Len(s) - k
      /\ \A j \in 1..(Len(s) - k) : after[j] = s[k + j]
  OBVIOUS
<1> HIDE DEF before, after
<1> DEFINE rest == before \o after
           at(j) == IF j < k THEN j ELSE j + 1
<1>5. /\ rest \in Seq(S)
      /\ Len(rest) = Len(before) + Len(after)
      /\ \A j \in 1..(Len(before) + Len(after)) :
             rest[j] = IF j <= Len(before) THEN before[j] ELSE after[j - Len(before)]
  BY <1>3, <1>4, ConcatProperties
<1>6. Len(rest) = Len(s) - 1
  BY <1>1, <1>3, <1>4, <1>5
<1>7. ASSUME NEW j \in 1..Len(rest)
      PROVE  at(j) \in 1..Len(s) /\ at(j) # k /\ rest[j] = s[at(j)]
  <2>1. CASE j < k
    <3>1. j \in 1..(k - 1) /\ j <= Len(before) /\ j \in 1..(Len(before) + Len(after))
      BY <1>1, <1>3, <1>4, <1>6, <2>1
    <3> QED
      BY <1>1, <1>3, <1>5, <2>1, <3>1
  <2>2. CASE ~(j < k)
    <3>1. /\ j - (k - 1) \in 1..(Len(s) - k) /\ k + (j - (k - 1)) = j + 1
          /\ ~(j <= Len(before)) /\ j \in 1..(Len(before) + Len(after))
      BY <1>1, <1>3, <1>4, <1>6, <2>2
    <3>2. rest[j] = after[j - (k - 1)]
      BY <1>3, <1>5, <3>1
    <3> QED
      BY <1>1, <1>4, <1>6, <2>2, <3>1, <3>2
  <2> QED
    BY <2>1, <2>2
<1> HIDE DEF rest
<1>8. Distinct(rest)
  <2> SUFFICES ASSUME NEW i \in 1..Len(rest), NEW j \in 1..Len(rest), rest[i] = rest[j]
               PROVE  i = j
    BY DEF Distinct
  <2>1. at(i) = at(j)
    BY <1>7 DEF Distinct
  <2> QED
    BY <1>1, <1>6, <2>1
<1>9. ASSUME NEW j \in 1..Len(rest)
      PROVE  rest[j] # s[k] /\ \E i \in 1..Len(s) : rest[j] = s[i]
  BY <1>7 DEF Distinct
<1>10. RemoveAt(s, k) = rest
  BY DEF RemoveAt, before, after, rest
<1> QED
  BY <1>5, <1>8, <1>9, <1>10

Without(s, c) == RemoveAt(s, CHOOSE i \in DOMAIN s : s[i] = c)

LEMMA TakenOut ==
    ASSUME NEW S, NEW s \in Seq(S), NEW c, c \in ToSet(s), Distinct(s)
    PROVE  /\ Without(s, c) \in Seq(S)
           /\ Distinct(Without(s, c))
           /\ \A j \in 1..Len(Without(s, c)) :
                  Without(s, c)[j] # c /\ \E i \in 1..Len(s) : Without(s, c)[j] = s[i]
<1> DEFINE k == CHOOSE i \in DOMAIN s : s[i] = c
<1>1. k \in 1..Len(s) /\ s[k] = c
  BY DEF ToSet
<1> HIDE DEF k
<1>2. /\ RemoveAt(s, k) \in Seq(S)
      /\ Distinct(RemoveAt(s, k))
      /\ \A j \in 1..Len(RemoveAt(s, k)) :
             RemoveAt(s, k)[j] # c /\ \E i \in 1..Len(s) : RemoveAt(s, k)[j] = s[i]
  BY <1>1, TakenOutAt
<1> QED
  BY <1>2 DEF k, Without

\* The lesser and the greater of two numbers.
LEMMA MinOfTwo ==
    ASSUME NEW m \in Int, NEW n \in Int
    PROVE  Min({m, n}) = IF m <= n THEN m ELSE n
<1> DEFINE l == IF m <= n THEN m ELSE n
<1>1. l \in {m, n} /\ \A y \in {m, n} : l =< y
  OBVIOUS
<1>2. \A x \in {m, n} : (\A y \in {m, n} : x =< y) => x = l
  OBVIOUS
<1> HIDE DEF l
<1>3. Min({m, n}) = l
  BY <1>1, <1>2 DEF Min
<1> QED
  BY <1>3 DEF l

LEMMA MaxOfTwo ==
    ASSUME NEW m \in Int, NEW n \in Int
    PROVE  Max({m, n}) = IF m >= n THEN m ELSE n
<1> DEFINE l == IF m >= n THEN m ELSE n
<1>1. l \in {m, n} /\ \A y \in {m, n} : l >= y
  OBVIOUS
<1>2. \A x \in {m, n} : (\A y \in {m, n} : x >= y) => x = l
  OBVIOUS
<1> HIDE DEF l
<1>3. Max({m, n}) = l
  BY <1>1, <1>2 DEF Max
<1> QED
  BY <1>3 DEF l

-----------------------------------------------------------------------------
(***************************************************************************)
(* Typing.  The place of an address in the LRU order needs none.           *)
(***************************************************************************)
Loading(r) == pc[r] \in {"spawned", "loadRPC", "publish"}

RequestSteps == EnforceSteps \cup LoadSteps \cup {"start", "hit", "ready", "calling", "done"}
RunSteps == {"tick", "busyStop", "idleStop", "memoryStop", "untrack"}

TrackTyped ==
    /\ addressModelMap \in [Address -> Models \cup {NoModel}]
    /\ requestStarts \in [Address -> Seq(Calls)]
    /\ busyTime \in [Address -> Calls \cup {NoCall}]
    /\ idleTime \in [Address -> {"none", "recent", "long"}]

LoaderTyped ==
    /\ running \in [Models -> Address \cup {NoAddress}]
    /\ loading \subseteq Models
    /\ addresses \in 0..MaxAddress
    /\ pending \in [Requests -> Nat]
    /\ needMore \in [Requests -> BOOLEAN]
    /\ gaveUp \in BOOLEAN

ThreadTyped ==
    /\ pc \in [Threads -> PC]
    /\ pc[WD] \in RunSteps
    /\ model \in [Requests -> Models \cup {NoModel}]
    /\ client \in [Requests -> Address \cup {NoAddress}]
    /\ targets \in [Threads -> SUBSET Target]
    /\ \A r \in Requests :
        /\ pc[r] \in RequestSteps
        /\ Loads(r) => model[r] \in Models
        /\ Loading(r) \/ pc[r] \in {"hit", "ready", "calling"} => client[r] \in Address

Typed == TrackTyped /\ LoaderTyped /\ ThreadTyped

\* Every step is one of a request, an eviction, Run, or the environment.
RequestStep(r) == EnforceStep(r) \/ LoadStep(r) \/ CallStep(r)
Outside == IdleTimeout \/ BusyTimeout \/ Unload

Step ==
    \/ \E r \in Requests : RequestStep(r)
    \/ \E t \in Threads, x \in Target :
        x \in targets[t] /\ (ShutdownTarget(t, x) \/ ShutdownTargetFails(t, x))
    \/ RunStep
    \/ Outside

LEMMA StepsOfNext == ASSUME Typed, Next PROVE Step
BY DEF Typed, ThreadTyped, Next, Step, RequestStep, EvictionStep, Outside

LEMMA Constants ==
    /\ WD \in Threads /\ WD \notin Requests /\ Requests \subseteq Threads
    /\ NoModel \notin Models
    /\ MaxAddress \in Nat /\ LRULimit \in Nat
    /\ Address \subseteq Nat \ {0}
    /\ IsFiniteSet(Address) /\ IsFiniteSet(Models)
    /\ \A c \in Calls : c[1] \in Requests /\ c[2] \in {"LoadModel", "infer"} /\ c # NoCall
<1>1. MaxAddress \in Nat /\ LRULimit \in Nat
  BY WatchDogAssumption DEF WatchDogAssumption
<1>2. IsFiniteSet(Address)
  BY <1>1, FS_Interval DEF Address
<1>3. \A c \in Calls : c[1] \in Requests /\ c[2] \in {"LoadModel", "infer"} /\ c # NoCall
  BY DEF Calls, NoCall
<1> QED
  BY <1>1, <1>2, <1>3, WatchDogAssumption DEF WatchDogAssumption, Threads, Address

\* At the start nobody is anywhere.
LEMMA InitTyped == Init => Typed
<1> SUFFICES ASSUME Init PROVE Typed
  OBVIOUS
<1>1. \A r \in Requests : r # WD
  BY Constants
<1>2. TrackTyped
  BY DEF Init, TrackTyped
<1>3. LoaderTyped
  <2>1. 0 \in 0..MaxAddress /\ 0 \in Nat
    BY Constants
  <2> QED
    BY <2>1 DEF Init, LoaderTyped
<1>4. ThreadTyped
  BY <1>1, Constants DEF Init, ThreadTyped, PC, RunSteps, RequestSteps, Threads, Loads, Loading,
         EnforceSteps, LoadSteps
<1> QED
  BY <1>2, <1>3, <1>4 DEF Typed

\* What an eviction selects are targets that no rule exempts.
LEMMA EvictionsSelect ==
    ASSUME NEW C \in SUBSET Address, NEW max, NEW E \in Evictions(C, max)
    PROVE  E \subseteq C /\ E \in SUBSET Address /\ \A a \in E : ~Skipped(a)
BY DEF Evictions

LEMMA TargetsTyped ==
    ASSUME TrackTyped, NEW a \in Tracked
    PROVE  TargetOf(a) \in Target
<1>1. addressModelMap[a] \in Models /\ a \in Address
  BY DEF TrackTyped, Tracked
<1>2. Busy(a) \in BOOLEAN
  BY DEF Busy
<1> QED
  BY <1>1, <1>2 DEF TargetOf, Target

\* What a step does to the marks.
TrackStep ==
    \/ UNCHANGED <<addressModelMap, requestStarts, busyTime, idleTime>>
    \/ \E A \in SUBSET Address : Untrack(A)
    \/ \E a \in Address, c \in Calls : BeginRequest(a, c) \/ FinishRequest(a, c)
    \/ \E a \in Address : ShortRequest(a)
    \/ \E a \in Address, m \in Models :
        /\ addressModelMap' = [addressModelMap EXCEPT ![a] = m]
        /\ UNCHANGED <<requestStarts, busyTime, idleTime>>
    \/ \E a \in Address :
        /\ idleTime[a] = "recent"
        /\ idleTime' = [idleTime EXCEPT ![a] = "long"]
        /\ UNCHANGED <<addressModelMap, requestStarts, busyTime>>

LEMMA TrackStepOfRequest ==
    ASSUME Typed, NEW r \in Requests, RequestStep(r)
    PROVE  TrackStep
<1> USE DEF trackVars
<1>1. CASE \/ Start(r) \/ UpdateLastUsed(r) \/ CountLoads(r) \/ EnforceDone(r)
           \/ EnforceRetry(r) \/ EnforceGivesUp(r) \/ LoadFound(r) \/ Publish(r) \/ LoadFails(r)
  BY <1>1 DEF TrackStep, Start, UpdateLastUsed, CountLoads, EnforceDone, EnforceRetry,
              EnforceGivesUp, LoadFound, Publish, LoadFails
<1>2. CASE EnforceGroupExclusivity(r)
  <2>1. Conflicts(model[r]) \in SUBSET Address
    BY DEF Conflicts, Tracked
  <2> QED
    BY <1>2, <2>1, EvictionsSelect DEF EnforceGroupExclusivity, TrackStep
<1>3. CASE EnforceLRULimit(r)
  <2>1. Tracked \in SUBSET Address
    BY DEF Tracked
  <2> QED
    BY <1>3, <2>1, EvictionsSelect DEF EnforceLRULimit, TrackStep
<1>4. CASE StartProcess(r) \/ StartProcessFails(r)
  <2>1. model[r] \in Models
    BY <1>4 DEF StartProcess, StartProcessFails, Typed, ThreadTyped, Loads, LoadSteps
  <2>2. addresses < MaxAddress => addresses + 1 \in Address
    BY Constants DEF Typed, LoaderTyped, Address
  <2> QED
    BY <1>4, <2>1, <2>2 DEF StartProcess, StartProcessFails, TrackStep
<1>5. CASE BeginLoadModel(r) \/ EndLoadModel(r) \/ BeginCall(r) \/ EndCall(r)
  <2>1. client[r] \in Address
    BY <1>5 DEF BeginLoadModel, EndLoadModel, BeginCall, EndCall, Typed, ThreadTyped, Loading
  <2>2. <<r, "LoadModel">> \in Calls /\ <<r, "infer">> \in Calls
    BY DEF Calls
  <2> QED
    BY <1>5, <2>1, <2>2 DEF BeginLoadModel, EndLoadModel, BeginCall, EndCall, TrackStep
<1> QED
  BY <1>1, <1>2, <1>3, <1>4, <1>5 DEF RequestStep, EnforceStep, LoadStep, CallStep

LEMMA StopsTrack ==
    ASSUME Typed, NEW x \in Target, Stoppable(x), Stop(x)
    PROVE  TrackStep
<1>1. running[x.model] \in Address
  BY DEF Typed, LoaderTyped, Stoppable, Target
<1> QED
  BY <1>1 DEF Stop, TrackStep, trackVars

LEMMA StepTrack == ASSUME Typed, Step PROVE TrackStep
<1> USE DEF trackVars
<1>1. CASE \E r \in Requests : RequestStep(r)
  BY <1>1, TrackStepOfRequest
<1>2. ASSUME NEW t \in Threads, NEW x \in Target, ShutdownTarget(t, x) \/ ShutdownTargetFails(t, x)
      PROVE  TrackStep
  <2>1. CASE Stoppable(x) /\ Stop(x)
    BY <2>1, StopsTrack
  <2>2. CASE UNCHANGED trackVars
    BY <2>2 DEF TrackStep
  <2> QED
    BY <1>2, <2>1, <2>2 DEF ShutdownTarget, ShutdownTargetFails
<1>3. CASE CheckBusy \/ CheckIdle
  BY <1>3 DEF CheckBusy, CheckIdle, TrackStep
<1>4. CASE EvictLRUModelUntracks
  <2>1. {x.address : x \in targets[WD]} \in SUBSET Address
    BY Constants DEF Typed, ThreadTyped, Target
  <2> QED
    BY <1>4, <2>1 DEF EvictLRUModelUntracks, TrackStep
<1>5. CASE EvictLRUModelStops
  <2>1. PICK x \in targets[WD] : \/ Stoppable(x) /\ Stop(x)
                                 \/ NotFound(x) /\ UNCHANGED <<loaderVars, trackVars>>
    BY <1>5 DEF EvictLRUModelStops
  <2>2. x \in Target
    BY Constants DEF Typed, ThreadTyped
  <2> QED
    BY <2>1, <2>2, StopsTrack DEF TrackStep
<1>6. CASE CheckDone \/ EvictLRUModel \/ EvictLRUModelFails \/ BusyTimeout
  BY <1>6 DEF CheckDone, EvictLRUModel, EvictLRUModelFails, BusyTimeout, TrackStep
<1>7. CASE IdleTimeout
  BY <1>7 DEF IdleTimeout, TrackStep
<1>8. CASE Unload
  <2>1. PICK m \in Models \ loading :
            /\ running[m] # NoAddress
            /\ \/ ShortRequest(running[m])
               \/ UNCHANGED trackVars
    BY <1>8 DEF Unload
  <2>2. running[m] \in Address
    BY <2>1 DEF Typed, LoaderTyped
  <2> QED
    BY <2>1, <2>2 DEF TrackStep
<1> QED
  BY <1>1, <1>2, <1>3, <1>4, <1>5, <1>6, <1>7, <1>8 DEF Step, RunStep, Outside

-----------------------------------------------------------------------------
(***************************************************************************)
(* The busy marks.                                                         *)
(***************************************************************************)
Active(c, a) == client[c[1]] = a /\ pc[c[1]] = IF c[2] = "infer" THEN "calling" ELSE "loadRPC"

MarksOf(a) ==
    /\ Distinct(requestStarts[a])
    /\ \A i \in 1..Len(requestStarts[a]) : Active(requestStarts[a][i], a)
    /\ busyTime[a] = IF requestStarts[a] = <<>> THEN NoCall ELSE requestStarts[a][1]
    /\ requestStarts[a] # <<>> => idleTime[a] = "none"

Marks == \A a \in Address : MarksOf(a)

\* Marks, with the definitions that a step changes in sight.
LEMMA MarksNext ==
    Marks' <=>
        \A a \in Address :
            /\ Distinct(requestStarts'[a])
            /\ \A i \in 1..Len(requestStarts'[a]) :
                /\ client'[requestStarts'[a][i][1]] = a
                /\ pc'[requestStarts'[a][i][1]] =
                       IF requestStarts'[a][i][2] = "infer" THEN "calling" ELSE "loadRPC"
            /\ busyTime'[a] = IF requestStarts'[a] = <<>> THEN NoCall ELSE requestStarts'[a][1]
            /\ requestStarts'[a] # <<>> => idleTime'[a] = "none"
BY DEF Marks, MarksOf, Active, Distinct

\* A step that neither begins nor ends a call keeps or drops the marks of an address.
LEMMA MarksKept ==
    ASSUME Typed, Marks,
           \A a \in Address :
               \/ /\ requestStarts'[a] = requestStarts[a] /\ busyTime'[a] = busyTime[a]
                  /\ idleTime'[a] = idleTime[a] \/ requestStarts[a] = <<>>
               \/ requestStarts'[a] = <<>> /\ busyTime'[a] = NoCall,
           \A r \in Requests :
               pc[r] \in {"calling", "loadRPC"} => pc'[r] = pc[r] /\ client'[r] = client[r]
    PROVE  Marks'
<1> SUFFICES ASSUME NEW a \in Address
             PROVE  /\ Distinct(requestStarts'[a])
                    /\ \A i \in 1..Len(requestStarts'[a]) :
                        /\ client'[requestStarts'[a][i][1]] = a
                        /\ pc'[requestStarts'[a][i][1]] =
                               IF requestStarts'[a][i][2] = "infer" THEN "calling"
                                                                    ELSE "loadRPC"
                    /\ busyTime'[a] = IF requestStarts'[a] = <<>> THEN NoCall
                                                                 ELSE requestStarts'[a][1]
                    /\ requestStarts'[a] # <<>> => idleTime'[a] = "none"
  BY MarksNext
<1>1. CASE requestStarts'[a] = <<>> /\ busyTime'[a] = NoCall
  BY <1>1 DEF Distinct
<1>2. CASE /\ requestStarts'[a] = requestStarts[a] /\ busyTime'[a] = busyTime[a]
           /\ idleTime'[a] = idleTime[a] \/ requestStarts[a] = <<>>
  <2>1. requestStarts[a] \in Seq(Calls) /\ MarksOf(a)
    BY DEF Typed, TrackTyped, Marks
  <2>2. ASSUME NEW i \in 1..Len(requestStarts[a])
        PROVE  /\ client'[requestStarts[a][i][1]] = a
               /\ pc'[requestStarts[a][i][1]] =
                      IF requestStarts[a][i][2] = "infer" THEN "calling" ELSE "loadRPC"
    <3> DEFINE c == requestStarts[a][i]
    <3>1. c \in Calls /\ c[1] \in Requests
      BY <2>1, Constants
    <3>2. client[c[1]] = a /\ pc[c[1]] = IF c[2] = "infer" THEN "calling" ELSE "loadRPC"
      BY <2>1 DEF MarksOf, Active
    <3> QED
      BY <3>1, <3>2
  <2> QED
    BY <1>2, <2>1, <2>2 DEF MarksOf
<1> QED
  BY <1>1, <1>2

\* No call of a request is active while it is elsewhere.
LEMMA NotActive ==
    ASSUME Typed, Marks, NEW a \in Address, NEW i \in 1..Len(requestStarts[a])
    PROVE  /\ requestStarts[a][i] \in Calls /\ requestStarts[a][i][1] \in Requests
           /\ client[requestStarts[a][i][1]] = a
           /\ pc[requestStarts[a][i][1]] =
                  IF requestStarts[a][i][2] = "infer" THEN "calling" ELSE "loadRPC"
BY Constants DEF Typed, TrackTyped, Marks, MarksOf, Active

\* A request begins a call on its address.
LEMMA MarksBegun ==
    ASSUME Typed, Marks, NEW r \in Requests, NEW kind \in {"LoadModel", "infer"},
           pc[r] \in {"spawned", "ready"},
           BeginRequest(client[r], <<r, kind>>),
           Goto(r, IF kind = "infer" THEN "calling" ELSE "loadRPC"), UNCHANGED client
    PROVE  requestStarts' \in [Address -> Seq(Calls)] /\ Marks'
<1> DEFINE c == <<r, kind>>
           a == client[r]
           s == requestStarts[a]
<1>1. a \in Address /\ c \in Calls /\ s \in Seq(Calls) /\ r \in Threads
  BY Constants DEF Typed, ThreadTyped, TrackTyped, Loading, Calls
<1>2. \A i \in 1..Len(s) : s[i] # c
  BY <1>1, NotActive
<1>3. /\ requestStarts' = [requestStarts EXCEPT ![a] = Append(s, c)]
      /\ busyTime' = [busyTime EXCEPT ![a] = IF busyTime[a] # NoCall THEN busyTime[a] ELSE c]
      /\ idleTime' = [idleTime EXCEPT ![a] = "none"]
  BY <1>1 DEF BeginRequest, Busy
<1>4. /\ Append(s, c) \in Seq(Calls) /\ Len(Append(s, c)) = Len(s) + 1
      /\ \A i \in 1..Len(s) : Append(s, c)[i] = s[i]
      /\ Append(s, c)[Len(s) + 1] = c
      /\ Len(s) \in Nat
  BY <1>1
<1>5. requestStarts' \in [Address -> Seq(Calls)]
  BY <1>3, <1>4, Changed DEF Typed, TrackTyped
<1>6. /\ pc' = [pc EXCEPT ![r] = IF kind = "infer" THEN "calling" ELSE "loadRPC"]
      /\ pc \in [Threads -> PC] /\ client' = client
  BY DEF Goto, Typed, ThreadTyped
<1>7. ASSUME NEW b \in Address, NEW i \in 1..Len(requestStarts[b])
      PROVE  /\ client'[requestStarts[b][i][1]] = b
             /\ pc'[requestStarts[b][i][1]] =
                    IF requestStarts[b][i][2] = "infer" THEN "calling" ELSE "loadRPC"
  <2>1. /\ requestStarts[b][i][1] \in Requests
        /\ client[requestStarts[b][i][1]] = b
        /\ pc[requestStarts[b][i][1]] =
               IF requestStarts[b][i][2] = "infer" THEN "calling" ELSE "loadRPC"
    BY NotActive
  <2>2. requestStarts[b][i][1] # r
    BY <2>1
  <2> QED
    BY <1>6, <2>1, <2>2, Constants
<1>8. ASSUME NEW b \in Address
      PROVE  /\ Distinct(requestStarts'[b])
             /\ \A i \in 1..Len(requestStarts'[b]) :
                 /\ client'[requestStarts'[b][i][1]] = b
                 /\ pc'[requestStarts'[b][i][1]] =
                        IF requestStarts'[b][i][2] = "infer" THEN "calling" ELSE "loadRPC"
             /\ busyTime'[b] = IF requestStarts'[b] = <<>> THEN NoCall
                                                          ELSE requestStarts'[b][1]
             /\ requestStarts'[b] # <<>> => idleTime'[b] = "none"
  <2>1. CASE b = a
    <3>1. requestStarts'[b] = Append(s, c) /\ idleTime'[b] = "none"
      BY <1>1, <1>3, <2>1 DEF Typed, TrackTyped
    <3>2. busyTime'[b] = IF busyTime[a] # NoCall THEN busyTime[a] ELSE c
      BY <1>1, <1>3, <2>1 DEF Typed, TrackTyped
    <3>3. Distinct(s) /\ busyTime[a] = IF s = <<>> THEN NoCall ELSE s[1]
      BY <1>1 DEF Marks, MarksOf
    <3>4. Distinct(Append(s, c))
      <4> HIDE DEF s, c
      <4> SUFFICES ASSUME NEW i \in 1..Len(Append(s, c)), NEW j \in 1..Len(Append(s, c)),
                          Append(s, c)[i] = Append(s, c)[j]
                   PROVE  i = j
        BY DEF Distinct
      <4>1. \A h \in 1..Len(Append(s, c)) : h \in 1..Len(s) \/ h = Len(s) + 1
        BY <1>4
      <4>2. i \in 1..Len(s) /\ j \in 1..Len(s) => s[i] = s[j]
        BY <1>4
      <4> QED
        BY <1>2, <1>4, <3>3, <4>1, <4>2 DEF Distinct
    <3>5. ASSUME NEW i \in 1..Len(Append(s, c))
          PROVE  /\ client'[Append(s, c)[i][1]] = b
                 /\ pc'[Append(s, c)[i][1]] =
                        IF Append(s, c)[i][2] = "infer" THEN "calling" ELSE "loadRPC"
      <4>1. CASE i \in 1..Len(s)
        BY <1>1, <1>4, <1>7, <2>1, <4>1
      <4>2. CASE i = Len(s) + 1
        <5>1. c[1] = r /\ c[2] = kind
          OBVIOUS
        <5>2. client'[r] = a
          BY <1>6
        <5>3. pc'[r] = IF kind = "infer" THEN "calling" ELSE "loadRPC"
          BY <1>1, <1>6
        <5> QED
          BY <1>4, <2>1, <4>2, <5>1, <5>2, <5>3
      <4> QED
        BY <1>4, <4>1, <4>2
    <3>6. busyTime'[b] = IF Append(s, c) = <<>> THEN NoCall ELSE Append(s, c)[1]
      <4>1. Append(s, c) # <<>>
        BY <1>4
      <4>2. CASE s = <<>>
        <5>1. Append(s, c)[1] = c
          BY <4>2
        <5> QED
          BY <3>2, <3>3, <4>1, <4>2, <5>1
      <4>3. CASE s # <<>>
        <5>1. 1 \in 1..Len(s) /\ s[1] \in Calls
          BY <1>1, <4>3
        <5>2. s[1] # NoCall
          BY <5>1, Constants
        <5> QED
          BY <1>4, <3>2, <3>3, <4>1, <4>3, <5>1, <5>2
      <4> QED
        BY <4>2, <4>3
    <3> QED
      BY <3>1, <3>4, <3>5, <3>6
  <2>2. CASE b # a
    <3>1. /\ requestStarts'[b] = requestStarts[b] /\ busyTime'[b] = busyTime[b]
          /\ idleTime'[b] = idleTime[b]
      BY <1>3, <2>2 DEF Typed, TrackTyped
    <3>2. MarksOf(b)
      BY DEF Marks
    <3> QED
      BY <1>7, <3>1, <3>2 DEF MarksOf
  <2> QED
    BY <2>1, <2>2
<1> QED
  BY <1>5, <1>8, MarksNext

\* A request ends its call.
LEMMA MarksFinished ==
    ASSUME Typed, Marks, NEW r \in Requests, NEW kind \in {"LoadModel", "infer"},
           pc[r] = IF kind = "infer" THEN "calling" ELSE "loadRPC",
           FinishRequest(client[r], <<r, kind>>),
           NEW step, Goto(r, step), UNCHANGED client
    PROVE  requestStarts' \in [Address -> Seq(Calls)] /\ Marks'
<1> DEFINE c == <<r, kind>>
           a == client[r]
           s == requestStarts[a]
<1>1. /\ a \in Address /\ c \in Calls /\ s \in Seq(Calls) /\ Distinct(s)
      /\ c[1] = r /\ c[2] = kind
  BY DEF Typed, ThreadTyped, TrackTyped, Loading, Calls, Marks, MarksOf
<1>2. /\ pc' = [pc EXCEPT ![r] = step]
      /\ pc \in [Threads -> PC] /\ client' = client
  BY DEF Goto, Typed, ThreadTyped
\* c is the only call of r that is active anywhere
<1>3. ASSUME NEW b \in Address, NEW i \in 1..Len(requestStarts[b]), requestStarts[b][i] # c
      PROVE  /\ client'[requestStarts[b][i][1]] = b
             /\ pc'[requestStarts[b][i][1]] =
                    IF requestStarts[b][i][2] = "infer" THEN "calling" ELSE "loadRPC"
  <2> DEFINE d == requestStarts[b][i]
  <2>1. /\ d \in Calls /\ d[1] \in Requests /\ d[2] \in {"LoadModel", "infer"}
        /\ client[d[1]] = b
        /\ pc[d[1]] = IF d[2] = "infer" THEN "calling" ELSE "loadRPC"
    BY NotActive, Constants
  <2>2. d = <<d[1], d[2]>>
    BY <2>1 DEF Calls
  <2>3. d[1] # r
    <3>1. d[1] = r => d[2] = kind
      BY <2>1
    <3> QED
      BY <1>3, <2>2, <3>1
  <2> QED
    BY <1>2, <2>1, <2>3, Constants
<1>4. CASE c \notin ToSet(s)
  <2>1. UNCHANGED <<requestStarts, busyTime, idleTime>>
    BY <1>4 DEF FinishRequest, trackVars
  <2>2. ASSUME NEW b \in Address, NEW i \in 1..Len(requestStarts[b])
        PROVE  requestStarts[b][i] # c
    <3>1. client[requestStarts[b][i][1]] = b
      BY NotActive
    <3>2. b # a => requestStarts[b][i] # c
      BY <1>1, <3>1
    <3>3. b = a => requestStarts[b][i] # c
      BY <1>1, <1>4 DEF ToSet
    <3> QED
      BY <3>2, <3>3
  <2>3. \A b \in Address : MarksOf(b)
    BY DEF Marks
  <2>4. Marks'
    BY <1>3, <2>1, <2>2, <2>3, MarksNext DEF MarksOf
  <2> QED
    BY <2>1, <2>4 DEF Typed, TrackTyped
<1>5. CASE c \in ToSet(s)
  <2> DEFINE rest == Rest(a, c)
  <2>1. /\ requestStarts' = [requestStarts EXCEPT ![a] = rest]
        /\ busyTime' = [busyTime EXCEPT ![a] = IF rest = <<>> THEN NoCall ELSE Head(rest)]
        /\ idleTime' = [idleTime EXCEPT ![a] = IF rest = <<>> THEN "recent" ELSE idleTime[a]]
    BY <1>5 DEF FinishRequest
  <2>2. /\ rest \in Seq(Calls)
        /\ Distinct(rest)
        /\ \A j \in 1..Len(rest) : rest[j] # c /\ \E i \in 1..Len(s) : rest[j] = s[i]
    <3>1. rest = Without(s, c)
      BY DEF Rest, Without
    <3> HIDE DEF rest, s, c
    <3> QED
      BY <1>1, <1>5, <3>1, TakenOut
  <2> HIDE DEF rest
  <2>3. requestStarts' \in [Address -> Seq(Calls)]
    BY <2>1, <2>2, Changed DEF Typed, TrackTyped
  <2>4. ASSUME NEW b \in Address
        PROVE  /\ Distinct(requestStarts'[b])
               /\ \A i \in 1..Len(requestStarts'[b]) :
                   /\ client'[requestStarts'[b][i][1]] = b
                   /\ pc'[requestStarts'[b][i][1]] =
                          IF requestStarts'[b][i][2] = "infer" THEN "calling" ELSE "loadRPC"
               /\ busyTime'[b] = IF requestStarts'[b] = <<>> THEN NoCall
                                                            ELSE requestStarts'[b][1]
               /\ requestStarts'[b] # <<>> => idleTime'[b] = "none"
    <3>1. CASE b = a
      <4>1. /\ requestStarts'[b] = rest
            /\ busyTime'[b] = IF rest = <<>> THEN NoCall ELSE Head(rest)
            /\ idleTime'[b] = IF rest = <<>> THEN "recent" ELSE idleTime[a]
        BY <1>1, <2>1, <3>1 DEF Typed, TrackTyped
      <4>2. rest # <<>> => Head(rest) = rest[1]
        BY <2>2
      <4>3. rest # <<>> => s # <<>>
        BY <1>1, <2>2
      <4>4. s # <<>> => idleTime[a] = "none"
        BY <1>1 DEF Marks, MarksOf
      <4>5. ASSUME NEW j \in 1..Len(rest)
            PROVE  /\ client'[rest[j][1]] = b
                   /\ pc'[rest[j][1]] = IF rest[j][2] = "infer" THEN "calling" ELSE "loadRPC"
        <5>1. PICK i \in 1..Len(s) : rest[j] = s[i]
          BY <2>2
        <5>2. s[i] # c
          BY <2>2, <5>1
        <5> QED
          BY <1>1, <1>3, <3>1, <5>1, <5>2
      <4> QED
        BY <2>2, <4>1, <4>2, <4>3, <4>4, <4>5
    <3>2. CASE b # a
      <4>1. /\ requestStarts'[b] = requestStarts[b] /\ busyTime'[b] = busyTime[b]
            /\ idleTime'[b] = idleTime[b]
        BY <2>1, <3>2 DEF Typed, TrackTyped
      <4>2. MarksOf(b)
        BY DEF Marks
      <4>3. \A i \in 1..Len(requestStarts[b]) : requestStarts[b][i] # c
        BY <1>1, <3>2, NotActive
      <4> QED
        BY <1>3, <4>1, <4>2, <4>3 DEF MarksOf
    <3> QED
      BY <3>1, <3>2
  <2> QED
    BY <2>3, <2>4, MarksNext
<1> QED
  BY <1>4, <1>5

-----------------------------------------------------------------------------
(***************************************************************************)
(* Who uses an address, and what the watchdog has of it.                   *)
(***************************************************************************)

\* A process has an address of its own, and its model's name at the watchdog.
Places ==
    /\ \A a \in Tracked : a <= addresses
    /\ \A m \in Models :
        /\ running[m] <= addresses
        /\ running[m] \in Tracked => addressModelMap[running[m]] = m
    /\ \A m, n \in Models : running[m] = running[n] /\ running[m] # NoAddress => m = n
    /\ \A r \in Requests : Loading(r) =>
        /\ client[r] <= addresses
        /\ model[r] \in loading
        /\ client[r] \in Tracked => addressModelMap[client[r]] = model[r]
        /\ \A m \in Models : running[m] # client[r]
    /\ \A r, u \in Requests :
        Loading(r) /\ Loading(u) /\ (client[r] = client[u] \/ model[r] = model[u]) => r = u

\* Targets are selected at the step before a stop, and only from what may be stopped.
Eligible ==
    \A t \in Threads :
        /\ pc[t] \notin StopSteps \cup {"memoryStop", "untrack"} => targets[t] = {}
        /\ pc[t] # "busyStop" =>
               \A x \in targets[t] : x.model \notin Pinned /\ (x.wasBusy => ForceEviction)

\* The address that checkMemory has selected is its model's, until nobody uses it.
Selected ==
    /\ pc[WD] = "memoryStop" => \A x, y \in targets[WD] : x = y
    /\ pc[WD] \in {"memoryStop", "untrack"} =>
        \A x \in targets[WD] :
            /\ x.address <= addresses
            /\ \A m \in Models :
                running[m] = x.address => m = x.model /\ pc[WD] = "memoryStop"
            /\ \A r \in Requests :
                Loading(r) /\ client[r] = x.address =>
                    model[r] = x.model /\ pc[WD] = "memoryStop"

\* Somebody is about to stop m.
Doomed(m) == \E t \in Threads : pc[t] \in StopSteps /\ \E x \in targets[t] : x.model = m

Covered ==
    /\ \A m \in Models : running[m] # NoAddress => running[m] \in Tracked \/ Doomed(m)
    /\ \A r \in Requests : Loading(r) => client[r] \in Tracked \/ Doomed(model[r])

-----------------------------------------------------------------------------
(***************************************************************************)
(* What a step does to the control state.                                  *)
(***************************************************************************)

\* A request goes on; the other threads stay where they are.
Moves(r) ==
    /\ pc' = [pc EXCEPT ![r] = pc'[r]] /\ pc'[r] \in RequestSteps
    /\ model' = [model EXCEPT ![r] = model'[r]] /\ model'[r] \in Models \cup {NoModel}
    /\ client' = [client EXCEPT ![r] = client'[r]] /\ client'[r] \in Address \cup {NoAddress}
    /\ pc'[r] \in EnforceSteps \cup LoadSteps => model'[r] \in Models
    /\ pc'[r] \in {"spawned", "loadRPC", "publish", "hit", "ready", "calling"} =>
           client'[r] \in Address

LEMMA RequestMoves ==
    ASSUME Typed, NEW r \in Requests, RequestStep(r)
    PROVE  Moves(r)
<1> USE DEF Goto, RequestSteps, EnforceSteps, LoadSteps, Loads, Loading
<1>1. /\ pc \in [Threads -> PC] /\ model \in [Requests -> Models \cup {NoModel}]
      /\ client \in [Requests -> Address \cup {NoAddress}]
      /\ running \in [Models -> Address \cup {NoAddress}]
      /\ Loads(r) => model[r] \in Models
      /\ Loading(r) \/ pc[r] \in {"hit", "ready", "calling"} => client[r] \in Address
      /\ r \in Threads
  BY Constants DEF Typed, ThreadTyped, LoaderTyped
<1> HIDE DEF Loads, Loading
<1>2. CASE Start(r)
  <2>1. PICK m \in Models :
            /\ model' = [model EXCEPT ![r] = m]
            /\ client' = [client EXCEPT ![r] = running[m]]
            /\ \/ running[m] # NoAddress /\ Goto(r, "hit")
               \/ running[m] = NoAddress /\ Goto(r, "groups")
    BY <1>2 DEF Start
  <2>2. running[m] \in Address \cup {NoAddress} /\ model'[r] = m /\ client'[r] = running[m]
    BY <1>1, <2>1
  <2> QED
    BY <1>1, <2>1, <2>2 DEF Moves
<1>3. CASE UpdateLastUsed(r) \/ BeginCall(r) \/ EndCall(r)
  BY <1>1, <1>3 DEF UpdateLastUsed, BeginCall, EndCall, Moves
<1>4. CASE EnforceGroupExclusivity(r) \/ CountLoads(r) \/ EnforceLRULimit(r)
  <2>1. pc'[r] \in {"groupsStop", "lru", "lruStop"} /\ UNCHANGED <<model, client>>
    BY <1>1, <1>4 DEF EnforceGroupExclusivity, CountLoads, EnforceLRULimit
  <2>2. pc' = [pc EXCEPT ![r] = pc'[r]]
    BY <1>1, <1>4 DEF EnforceGroupExclusivity, CountLoads, EnforceLRULimit
  <2>3. model[r] \in Models
    BY <1>1, <1>4 DEF EnforceGroupExclusivity, CountLoads, EnforceLRULimit, Loads
  <2> QED
    BY <1>1, <2>1, <2>2, <2>3 DEF Moves
<1>5. CASE EnforceDone(r) \/ EnforceRetry(r) \/ EnforceGivesUp(r)
  <2>1. pc'[r] \in {"groups", "lru", "count", "load"} /\ UNCHANGED <<model, client>>
    BY <1>1, <1>5 DEF EnforceDone, EnforceRetry, EnforceGivesUp, Enforce, AfterEnforce
  <2>2. pc' = [pc EXCEPT ![r] = pc'[r]]
    BY <1>1, <1>5 DEF EnforceDone, EnforceRetry, EnforceGivesUp
  <2>3. model[r] \in Models
    BY <1>1, <1>5 DEF EnforceDone, EnforceRetry, EnforceGivesUp, Enforced, Loads
  <2> QED
    BY <1>1, <2>1, <2>2, <2>3 DEF Moves
<1>6. CASE LoadFound(r)
  <2>1. model[r] \in Models
    BY <1>1, <1>6 DEF LoadFound, Loads
  <2>2. running[model[r]] \in Address
    BY <1>1, <1>6, <2>1 DEF LoadFound
  <2> QED
    BY <1>1, <1>6, <2>2 DEF LoadFound, Moves
<1>7. CASE StartProcess(r)
  <2>1. model[r] \in Models
    BY <1>1, <1>7 DEF StartProcess, Loads
  <2>2. addresses + 1 \in Address
    BY <1>7, Constants DEF StartProcess, Typed, LoaderTyped, Address
  <2> QED
    BY <1>1, <1>7, <2>1, <2>2 DEF StartProcess, Moves
<1>8. CASE StartProcessFails(r) \/ LoadFails(r) \/ Publish(r)
  BY <1>1, <1>8 DEF StartProcessFails, LoadFails, Publish, Moves, Loading
<1>9. CASE BeginLoadModel(r) \/ EndLoadModel(r)
  BY <1>1, <1>9 DEF BeginLoadModel, EndLoadModel, Moves, Loading, Loads
<1> QED
  BY <1>2, <1>3, <1>4, <1>5, <1>6, <1>7, <1>8, <1>9 DEF RequestStep, EnforceStep, LoadStep, CallStep

\* The others move nobody but Run.
RunMoves ==
    /\ UNCHANGED <<model, client>>
    /\ pc' = [pc EXCEPT ![WD] = pc'[WD]] /\ pc'[WD] \in RunSteps

LEMMA OthersMove ==
    ASSUME Typed, Step, \A r \in Requests : ~RequestStep(r)
    PROVE  RunMoves
<1>1. pc \in [Threads -> PC] /\ WD \in Threads /\ pc[WD] \in RunSteps
  BY Constants DEF Typed, ThreadTyped
<1>2. CASE UNCHANGED <<pc, model, client>>
  BY <1>1, <1>2 DEF RunMoves
<1>3. CASE RunStep
  BY <1>1, <1>3 DEF RunStep, CheckBusy, CheckIdle, CheckDone, EvictLRUModel, EvictLRUModelStops,
                    EvictLRUModelUntracks, EvictLRUModelFails, Goto, RunMoves, RunSteps
<1> QED
  BY <1>2, <1>3 DEF Step, Outside, ShutdownTarget, ShutdownTargetFails, IdleTimeout, BusyTimeout,
                    Unload

LEMMA StepThreads ==
    ASSUME Typed, Step
    PROVE  /\ pc' \in [Threads -> PC]
           /\ pc'[WD] \in RunSteps
           /\ model' \in [Requests -> Models \cup {NoModel}]
           /\ client' \in [Requests -> Address \cup {NoAddress}]
           /\ \A r \in Requests :
               /\ pc'[r] \in RequestSteps
               /\ pc'[r] \in EnforceSteps \cup LoadSteps => model'[r] \in Models
               /\ pc'[r] \in {"spawned", "loadRPC", "publish", "hit", "ready", "calling"} =>
                      client'[r] \in Address
<1>1. /\ pc \in [Threads -> PC] /\ pc[WD] \in RunSteps
      /\ model \in [Requests -> Models \cup {NoModel}]
      /\ client \in [Requests -> Address \cup {NoAddress}]
      /\ \A r \in Requests :
               /\ pc[r] \in RequestSteps
               /\ pc[r] \in EnforceSteps \cup LoadSteps => model[r] \in Models
               /\ pc[r] \in {"spawned", "loadRPC", "publish", "hit", "ready", "calling"} =>
                      client[r] \in Address
      /\ WD \in Threads /\ WD \notin Requests /\ Requests \subseteq Threads
  BY Constants DEF Typed, ThreadTyped, Loads, Loading
<1>2. RequestSteps \subseteq PC /\ RunSteps \subseteq PC
  BY DEF RequestSteps, RunSteps, PC, EnforceSteps, LoadSteps
<1>3. CASE \E r \in Requests : RequestStep(r)
  <2>1. PICK r \in Requests : Moves(r)
    BY <1>3, RequestMoves
  <2>2. \A u \in Requests \ {r} : pc'[u] = pc[u] /\ model'[u] = model[u] /\ client'[u] = client[u]
    BY <1>1, <2>1 DEF Moves
  <2>3. pc'[WD] = pc[WD]
    BY <1>1, <2>1 DEF Moves
  <2>4. /\ pc' \in [Threads -> PC] /\ model' \in [Requests -> Models \cup {NoModel}]
        /\ client' \in [Requests -> Address \cup {NoAddress}]
    BY <1>1, <1>2, <2>1, Changed DEF Moves
  <2> QED
    BY <1>1, <2>1, <2>2, <2>3, <2>4 DEF Moves
<1>4. CASE ~\E r \in Requests : RequestStep(r)
  <2>1. RunMoves
    BY <1>4, OthersMove
  <2> QED
    BY <1>1, <1>2, <2>1 DEF RunMoves
<1> QED
  BY <1>3, <1>4

\* The loader, and the bookkeeping of an enforcement.
LEMMA StepLoader ==
    ASSUME Typed, Step
    PROVE  LoaderTyped'
<1> USE DEF trackVars, loaderVars, enforceVars
<1>1. /\ running \in [Models -> Address \cup {NoAddress}] /\ loading \subseteq Models
      /\ addresses \in 0..MaxAddress /\ pending \in [Requests -> Nat]
      /\ needMore \in [Requests -> BOOLEAN] /\ gaveUp \in BOOLEAN
      /\ client \in [Requests -> Address \cup {NoAddress}]
  BY DEF Typed, LoaderTyped, ThreadTyped
<1>2. CASE UNCHANGED <<running, loading, addresses, pending, needMore, gaveUp>>
  BY <1>1, <1>2 DEF LoaderTyped
<1>3. ASSUME NEW r \in Requests, EnforceStep(r)
      PROVE  LoaderTyped'
  <2>1. CASE CountLoads(r)
    <3>1. Cardinality(loading) \in Nat
      BY <1>1, Constants, FS_Subset, FS_CardinalityType
    <3>2. pending' \in [Requests -> Nat]
      BY <1>1, <2>1, <3>1, Changed DEF CountLoads
    <3> QED
      BY <1>1, <2>1, <3>2 DEF CountLoads, LoaderTyped
  <2>2. CASE EnforceGroupExclusivity(r)
    <3>1. PICK b \in BOOLEAN : needMore' = [needMore EXCEPT ![r] = b]
      BY <2>2 DEF EnforceGroupExclusivity
    <3>2. needMore' \in [Requests -> BOOLEAN]
      BY <1>1, <3>1, Changed
    <3> QED
      BY <1>1, <2>2, <3>2 DEF EnforceGroupExclusivity, LoaderTyped
  <2>3. CASE EnforceLRULimit(r)
    <3>1. PICK b \in BOOLEAN : needMore' = [needMore EXCEPT ![r] = b]
      BY <2>3 DEF EnforceLRULimit
    <3>2. needMore' \in [Requests -> BOOLEAN]
      BY <1>1, <3>1, Changed
    <3> QED
      BY <1>1, <2>3, <3>2 DEF EnforceLRULimit, LoaderTyped
  <2>4. CASE EnforceDone(r) \/ EnforceRetry(r) \/ EnforceGivesUp(r)
    <3>1. gaveUp' \in BOOLEAN
      BY <1>1, <2>4 DEF EnforceDone, EnforceRetry, EnforceGivesUp
    <3>2. UNCHANGED <<running, loading, addresses, pending, needMore>>
      BY <2>4 DEF EnforceDone, EnforceRetry, EnforceGivesUp
    <3> QED
      BY <1>1, <3>1, <3>2 DEF LoaderTyped
  <2> QED
    BY <1>3, <2>1, <2>2, <2>3, <2>4 DEF EnforceStep
<1>4. ASSUME NEW r \in Requests, LoadStep(r) \/ CallStep(r)
      PROVE  LoaderTyped'
  <2>1. CASE StartProcess(r) \/ StartProcessFails(r)
    <3>1. addresses' \in 0..MaxAddress
      <4>1. addresses < MaxAddress => addresses + 1 \in 0..MaxAddress
        BY <1>1, Constants
      <4> QED
        BY <1>1, <2>1, <4>1 DEF StartProcess, StartProcessFails
    <3>2. loading' \subseteq Models
      BY <1>1, <2>1 DEF StartProcess, StartProcessFails, Typed, ThreadTyped, Loads, LoadSteps
    <3>3. UNCHANGED <<running, pending, needMore, gaveUp>>
      BY <2>1 DEF StartProcess, StartProcessFails
    <3> QED
      BY <1>1, <3>1, <3>2, <3>3 DEF LoaderTyped
  <2>2. CASE Publish(r) \/ LoadFails(r)
    <3>1. running' \in [Models -> Address \cup {NoAddress}]
      BY <1>1, <2>2, Changed DEF Publish, LoadFails
    <3>2. loading' \subseteq Models /\ UNCHANGED <<addresses, pending, needMore, gaveUp>>
      BY <1>1, <2>2 DEF Publish, LoadFails
    <3> QED
      BY <1>1, <3>1, <3>2 DEF LoaderTyped
  <2> QED
    BY <1>2, <1>4, <2>1, <2>2 DEF LoadStep, CallStep, LoadFound, BeginLoadModel, EndLoadModel, Start,
       UpdateLastUsed, BeginCall, EndCall
<1>5. ASSUME NEW x \in Target, Stop(x), UNCHANGED enforceVars
      PROVE  LoaderTyped'
  <2>1. running' \in [Models -> Address \cup {NoAddress}]
    BY <1>1, <1>5, Changed DEF Stop
  <2> QED
    BY <1>1, <1>5, <2>1 DEF Stop, LoaderTyped
<1>6. ASSUME NEW t \in Threads, NEW x \in Target, ShutdownTarget(t, x) \/ ShutdownTargetFails(t, x)
      PROVE  LoaderTyped'
  BY <1>2, <1>5, <1>6 DEF ShutdownTarget, ShutdownTargetFails
<1>7. CASE RunStep
  <2>1. CASE EvictLRUModelStops
    BY <1>2, <1>5, <2>1, Constants DEF EvictLRUModelStops, Typed, ThreadTyped
  <2> QED
    BY <1>2, <1>7, <2>1 DEF RunStep, CheckBusy, CheckIdle, CheckDone, EvictLRUModel,
       EvictLRUModelUntracks, EvictLRUModelFails
<1>8. CASE Unload
  <2>1. running' \in [Models -> Address \cup {NoAddress}]
    BY <1>1, <1>8, Changed DEF Unload
  <2> QED
    BY <1>1, <1>8, <2>1 DEF Unload, LoaderTyped
<1>9. CASE IdleTimeout \/ BusyTimeout
  BY <1>2, <1>9 DEF IdleTimeout, BusyTimeout
<1> QED
  BY <1>3, <1>4, <1>6, <1>7, <1>8, <1>9 DEF Step, RequestStep, Outside

\* Targets are taken from what is tracked.
LEMMA StepTargets ==
    ASSUME Typed, Step
    PROVE  targets' \in [Threads -> SUBSET Target]
<1>1. targets \in [Threads -> SUBSET Target] /\ WD \in Threads /\ Requests \subseteq Threads
  BY Constants DEF Typed, ThreadTyped
<1>2. ASSUME NEW t \in Threads, NEW E, E \subseteq Tracked,
             targets' = [targets EXCEPT ![t] = {TargetOf(a) : a \in E}]
      PROVE  targets' \in [Threads -> SUBSET Target]
  <2>1. {TargetOf(a) : a \in E} \in SUBSET Target
    BY <1>2, TargetsTyped DEF Typed
  <2> QED
    BY <1>1, <1>2, <2>1, Changed
<1>3. ASSUME NEW A, NEW b \in BOOLEAN,
             targets' = [targets EXCEPT ![WD] =
                 {[address |-> a, model |-> addressModelMap[a], wasBusy |-> b] :
                     a \in A \cap Tracked}]
      PROVE  targets' \in [Threads -> SUBSET Target]
  <2>1. {[address |-> a, model |-> addressModelMap[a], wasBusy |-> b] : a \in A \cap Tracked}
            \in SUBSET Target
    BY DEF Typed, TrackTyped, Tracked, Target
  <2> QED
    BY <1>1, <1>3, <2>1, Changed
<1>4. ASSUME NEW r \in Requests, EnforceGroupExclusivity(r) \/ EnforceLRULimit(r)
      PROVE  targets' \in [Threads -> SUBSET Target]
  <2>1. Conflicts(model[r]) \in SUBSET Tracked /\ Tracked \in SUBSET Address
    BY DEF Conflicts, Tracked
  <2>2. PICK E \in SUBSET Tracked : targets' = [targets EXCEPT ![r] = {TargetOf(a) : a \in E}]
    BY <1>4, <2>1, EvictionsSelect DEF EnforceGroupExclusivity, EnforceLRULimit
  <2> QED
    BY <1>1, <1>2, <2>2
<1>5. CASE EvictLRUModel
  <2>1. Tracked \in SUBSET Address
    BY DEF Tracked
  <2>2. PICK E \in SUBSET Tracked : targets' = [targets EXCEPT ![WD] = {TargetOf(a) : a \in E}]
    BY <1>5, <2>1, EvictionsSelect DEF EvictLRUModel
  <2> QED
    BY <1>1, <1>2, <2>2
<1>6. CASE CheckBusy \/ CheckIdle
  BY <1>3, <1>6 DEF CheckBusy, CheckIdle
<1>7. CASE EvictLRUModelUntracks \/ EvictLRUModelFails
  BY <1>1, <1>7, Changed DEF EvictLRUModelUntracks, EvictLRUModelFails
<1>8. ASSUME NEW t \in Threads, NEW x \in Target, ShutdownTarget(t, x) \/ ShutdownTargetFails(t, x)
      PROVE  targets' \in [Threads -> SUBSET Target]
  BY <1>1, <1>8 DEF ShutdownTarget, ShutdownTargetFails
<1>9. CASE UNCHANGED targets
  BY <1>1, <1>9
<1> QED
  BY <1>4, <1>5, <1>6, <1>7, <1>8, <1>9
  DEF Step, RequestStep, EnforceStep, LoadStep, CallStep, RunStep, Outside, CountLoads, EnforceDone,
      EnforceRetry, EnforceGivesUp, LoadFound, StartProcess, StartProcessFails, BeginLoadModel,
      EndLoadModel, Publish, LoadFails, Start, UpdateLastUsed, BeginCall, EndCall, CheckDone,
      EvictLRUModelStops, IdleTimeout, BusyTimeout, Unload

LEMMA StepThreadTyped ==
    ASSUME Typed, Step
    PROVE  ThreadTyped'
BY StepThreads, StepTargets DEF ThreadTyped, Loads, Loading

LEMMA StepTrackTyped ==
    ASSUME Typed, Marks, Step
    PROVE  TrackTyped'
<1>1. TrackStep
  BY StepTrack
<1>2. /\ addressModelMap \in [Address -> Models \cup {NoModel}]
      /\ requestStarts \in [Address -> Seq(Calls)]
      /\ busyTime \in [Address -> Calls \cup {NoCall}]
      /\ idleTime \in [Address -> {"none", "recent", "long"}]
  BY DEF Typed, TrackTyped
<1>3. CASE UNCHANGED <<addressModelMap, requestStarts, busyTime, idleTime>>
  BY <1>2, <1>3 DEF TrackTyped
<1>4. CASE \E A \in SUBSET Address : Untrack(A)
  <2>1. <<>> \in Seq(Calls)
    OBVIOUS
  <2> QED
    BY <1>2, <1>4, <2>1 DEF TrackTyped, Untrack
<1>5. ASSUME NEW a \in Address, NEW c \in Calls, BeginRequest(a, c)
      PROVE  TrackTyped'
  <2>1. Append(requestStarts[a], c) \in Seq(Calls)
    BY <1>2
  <2>2. requestStarts' \in [Address -> Seq(Calls)]
    BY <1>2, <1>5, <2>1, Changed DEF BeginRequest
  <2>3. busyTime' \in [Address -> Calls \cup {NoCall}]
    BY <1>2, <1>5 DEF BeginRequest
  <2>4. idleTime' \in [Address -> {"none", "recent", "long"}]
    BY <1>2, <1>5, Changed DEF BeginRequest
  <2> QED
    BY <1>2, <1>5, <2>2, <2>3, <2>4 DEF BeginRequest, TrackTyped
<1>6. ASSUME NEW a \in Address, NEW c \in Calls, FinishRequest(a, c)
      PROVE  TrackTyped'
  <2>1. CASE c \notin ToSet(requestStarts[a])
    BY <1>3, <1>6, <2>1 DEF FinishRequest, trackVars
  <2>2. CASE c \in ToSet(requestStarts[a])
    <3> DEFINE rest == Rest(a, c)
    <3>1. rest \in Seq(Calls)
      <4>1. requestStarts[a] \in Seq(Calls) /\ Distinct(requestStarts[a])
        BY <1>2 DEF Marks, MarksOf
      <4>2. rest = Without(requestStarts[a], c)
        BY DEF Rest, Without
      <4> HIDE DEF rest
      <4> QED
        BY <2>2, <4>1, <4>2, TakenOut
    <3>2. /\ requestStarts' = [requestStarts EXCEPT ![a] = rest]
          /\ busyTime' = [busyTime EXCEPT ![a] = IF rest = <<>> THEN NoCall ELSE Head(rest)]
          /\ idleTime' = [idleTime EXCEPT ![a] = IF rest = <<>> THEN "recent" ELSE idleTime[a]]
          /\ UNCHANGED addressModelMap
      BY <1>6, <2>2 DEF FinishRequest
    <3> HIDE DEF rest
    <3>3. requestStarts' \in [Address -> Seq(Calls)]
      BY <1>2, <3>1, <3>2, Changed
    <3>4. busyTime' \in [Address -> Calls \cup {NoCall}]
      <4>1. rest # <<>> => Head(rest) \in Calls
        BY <3>1
      <4> QED
        BY <1>2, <3>2, <4>1
    <3>5. idleTime' \in [Address -> {"none", "recent", "long"}]
      BY <1>2, <3>2
    <3> QED
      BY <1>2, <3>2, <3>3, <3>4, <3>5 DEF TrackTyped
  <2> QED
    BY <2>1, <2>2
<1>7. ASSUME NEW a \in Address, ShortRequest(a)
      PROVE  TrackTyped'
  BY <1>2, <1>7, Changed DEF ShortRequest, TrackTyped
<1>8. ASSUME NEW a \in Address, NEW m \in Models,
             addressModelMap' = [addressModelMap EXCEPT ![a] = m],
             UNCHANGED <<requestStarts, busyTime, idleTime>>
      PROVE  TrackTyped'
  BY <1>2, <1>8, Changed DEF TrackTyped
<1>9. ASSUME NEW a \in Address,
             idleTime' = [idleTime EXCEPT ![a] = "long"],
             UNCHANGED <<addressModelMap, requestStarts, busyTime>>
      PROVE  TrackTyped'
  BY <1>2, <1>9, Changed DEF TrackTyped
<1> QED
  BY <1>1, <1>3, <1>4, <1>5, <1>6, <1>7, <1>8, <1>9 DEF TrackStep

LEMMA StepTyped ==
    ASSUME Typed, Marks, Step
    PROVE  Typed'
BY StepTrackTyped, StepLoader, StepThreadTyped DEF Typed

-----------------------------------------------------------------------------
(***************************************************************************)
(* Places.                                                                 *)
(***************************************************************************)
LoadingNext(r) == pc'[r] \in {"spawned", "loadRPC", "publish"}

\* Nothing new is used or tracked.
Keeps ==
    /\ addresses' = addresses
    /\ \A m \in Models : running'[m] \in {running[m], NoAddress}
    /\ \A a \in Address : addressModelMap'[a] \in {addressModelMap[a], NoModel}
    /\ \A r \in Requests :
        LoadingNext(r) =>
            /\ Loading(r) /\ client'[r] = client[r] /\ model'[r] = model[r]
            /\ model[r] \in loading'

LEMMA UntrackForgets ==
    ASSUME TrackTyped, NEW A, Untrack(A)
    PROVE  \A a \in Address : addressModelMap'[a] \in {addressModelMap[a], NoModel}
BY DEF Untrack, TrackTyped

LEMMA RequestKeeps ==
    ASSUME Typed, Places, NEW r \in Requests, RequestStep(r),
           ~StartProcess(r), ~StartProcessFails(r), ~Publish(r)
    PROVE  Keeps
<1> USE DEF trackVars, loaderVars
<1>1. Moves(r)
  BY RequestMoves
<1>2. /\ pc \in [Threads -> PC] /\ model \in [Requests -> Models \cup {NoModel}]
      /\ client \in [Requests -> Address \cup {NoAddress}] /\ r \in Threads
  BY Constants DEF Typed, ThreadTyped
<1>3. addresses' = addresses /\ running' = running
  BY DEF RequestStep, EnforceStep, LoadStep, CallStep, EnforceGroupExclusivity, CountLoads,
         EnforceLRULimit, EnforceDone, EnforceRetry, EnforceGivesUp, LoadFound, BeginLoadModel,
         EndLoadModel, LoadFails, Start, UpdateLastUsed, BeginCall, EndCall
<1>4. \A a \in Address : addressModelMap'[a] \in {addressModelMap[a], NoModel}
  <2>1. CASE EnforceGroupExclusivity(r) \/ EnforceLRULimit(r)
    BY <2>1, UntrackForgets DEF Typed, EnforceGroupExclusivity, EnforceLRULimit
  <2>2. CASE ~EnforceGroupExclusivity(r) /\ ~EnforceLRULimit(r)
    <3>1. addressModelMap' = addressModelMap
      BY <2>2
      DEF RequestStep, EnforceStep, LoadStep, CallStep, CountLoads, EnforceDone, EnforceRetry,
          EnforceGivesUp, LoadFound, BeginLoadModel, EndLoadModel, LoadFails, Start,
          UpdateLastUsed, BeginCall, EndCall, BeginRequest, FinishRequest
    <3> QED
      BY <3>1
  <2> QED
    BY <2>1, <2>2
<1>5. ASSUME LoadingNext(r)
      PROVE  Loading(r) /\ client'[r] = client[r] /\ model'[r] = model[r] /\ loading' = loading
  BY <1>2, <1>5
  DEF RequestStep, EnforceStep, LoadStep, CallStep, EnforceGroupExclusivity, CountLoads,
      EnforceLRULimit, EnforceDone, EnforceRetry, EnforceGivesUp, LoadFound, BeginLoadModel,
      EndLoadModel, LoadFails, Start, UpdateLastUsed, BeginCall, EndCall, Goto, LoadingNext,
      Loading, Enforce, AfterEnforce
<1>6. ASSUME NEW u \in Requests, u # r, LoadingNext(u)
      PROVE  Loading(u) /\ client'[u] = client[u] /\ model'[u] = model[u] /\ model[u] \in loading'
  <2>1. Loading(u) /\ client'[u] = client[u] /\ model'[u] = model[u]
    BY <1>1, <1>2, <1>6, Constants DEF Moves, LoadingNext, Loading
  <2>2. loading' = loading \/ (Loading(r) /\ loading' = loading \ {model[r]})
    BY DEF RequestStep, EnforceStep, LoadStep, CallStep, EnforceGroupExclusivity, CountLoads,
           EnforceLRULimit, EnforceDone, EnforceRetry, EnforceGivesUp, LoadFound, BeginLoadModel,
           EndLoadModel, LoadFails, Start, UpdateLastUsed, BeginCall, EndCall, Loading
  <2> QED
    BY <1>6, <2>1, <2>2 DEF Places
<1>7. ASSUME LoadingNext(r) PROVE model[r] \in loading'
  BY <1>5, <1>7 DEF Places
<1> QED
  BY <1>3, <1>4, <1>5, <1>6, <1>7 DEF Keeps

LEMMA OthersKeep ==
    ASSUME Typed, Places, Step, \A r \in Requests : ~RequestStep(r)
    PROVE  Keeps
<1> USE DEF trackVars, loaderVars
<1>1. RunMoves
  BY OthersMove
<1>2. pc \in [Threads -> PC] /\ running \in [Models -> Address \cup {NoAddress}]
      /\ targets \in [Threads -> SUBSET Target] /\ WD \in Threads
  BY Constants DEF Typed, ThreadTyped, LoaderTyped
<1>3. \A r \in Requests : LoadingNext(r) => Loading(r) /\ client'[r] = client[r]
                                              /\ model'[r] = model[r]
  BY <1>1, <1>2, Constants DEF RunMoves, LoadingNext, Loading
<1>4. ASSUME NEW x \in Target, Stop(x)
      PROVE  /\ addresses' = addresses /\ loading' = loading
             /\ addressModelMap' = addressModelMap
             /\ \A m \in Models : running'[m] \in {running[m], NoAddress}
  BY <1>2, <1>4 DEF Stop, ShortRequest
<1>5. ASSUME UNCHANGED <<addresses, loading, running>>,
             UNCHANGED addressModelMap \/ \E A : Untrack(A)
      PROVE  /\ addresses' = addresses /\ loading' = loading
             /\ \A a \in Address : addressModelMap'[a] \in {addressModelMap[a], NoModel}
             /\ \A m \in Models : running'[m] \in {running[m], NoAddress}
  BY <1>5, UntrackForgets DEF Typed
<1>6. /\ addresses' = addresses /\ loading' = loading
      /\ \A a \in Address : addressModelMap'[a] \in {addressModelMap[a], NoModel}
      /\ \A m \in Models : running'[m] \in {running[m], NoAddress}
  <2>1. ASSUME NEW t \in Threads, NEW x \in Target,
               ShutdownTarget(t, x) \/ ShutdownTargetFails(t, x)
        PROVE  (UNCHANGED <<addresses, loading, running, addressModelMap>>) \/ Stop(x)
    BY <2>1 DEF ShutdownTarget, ShutdownTargetFails
  <2>2. CASE EvictLRUModelStops
    <3>1. PICK x \in targets[WD] : \/ Stoppable(x) /\ Stop(x)
                                   \/ NotFound(x) /\ UNCHANGED <<loaderVars, trackVars>>
      BY <2>2 DEF EvictLRUModelStops
    <3>2. x \in Target
      BY <1>2
    <3> QED
      BY <1>4, <1>5, <3>1, <3>2
  <2>3. CASE CheckBusy \/ CheckIdle \/ EvictLRUModelUntracks
    BY <1>5, <2>3 DEF CheckBusy, CheckIdle, EvictLRUModelUntracks
  <2>4. CASE CheckDone \/ EvictLRUModel \/ EvictLRUModelFails \/ IdleTimeout \/ BusyTimeout
    BY <1>5, <2>4 DEF CheckDone, EvictLRUModel, EvictLRUModelFails, IdleTimeout, BusyTimeout
  <2>5. CASE Unload
    BY <1>2, <2>5 DEF Unload, ShortRequest
  <2> QED
    BY <1>4, <1>5, <2>1, <2>2, <2>3, <2>4, <2>5 DEF Step, RunStep, Outside
<1> QED
  BY <1>3, <1>6 DEF Keeps, Places

LEMMA StepKinds ==
    ASSUME Typed, Places, Step
    PROVE  Keeps \/ \E r \in Requests : StartProcess(r) \/ StartProcessFails(r) \/ Publish(r)
BY RequestKeeps, OthersKeep

\* Places, with the definitions that a step changes in sight.
PlacesNext ==
    /\ \A a \in Address : addressModelMap'[a] # NoModel => a <= addresses'
    /\ \A m \in Models :
        /\ running'[m] <= addresses'
        /\ running'[m] \in Address /\ addressModelMap'[running'[m]] # NoModel =>
               addressModelMap'[running'[m]] = m
    /\ \A m, n \in Models : running'[m] = running'[n] /\ running'[m] # NoAddress => m = n
    /\ \A r \in Requests : LoadingNext(r) =>
        /\ client'[r] <= addresses'
        /\ model'[r] \in loading'
        /\ client'[r] \in Address /\ addressModelMap'[client'[r]] # NoModel =>
               addressModelMap'[client'[r]] = model'[r]
        /\ \A m \in Models : running'[m] # client'[r]
    /\ \A r, u \in Requests :
        LoadingNext(r) /\ LoadingNext(u) /\ (client'[r] = client'[u] \/ model'[r] = model'[u]) =>
            r = u

LEMMA PlacesPrimed == Places' <=> PlacesNext
BY DEF Places, PlacesNext, Loading, LoadingNext, Tracked

LEMMA PlacesKept ==
    ASSUME Typed, Places, Keeps
    PROVE  Places'
<1>1. /\ running \in [Models -> Address \cup {NoAddress}]
      /\ addresses \in Nat /\ NoAddress \notin Address
      /\ \A r \in Requests : Loading(r) => client[r] \in Address
  BY Constants DEF Typed, ThreadTyped, LoaderTyped, NoAddress
<1>2. \A a \in Address : addressModelMap'[a] # NoModel =>
          addressModelMap'[a] = addressModelMap[a] /\ a \in Tracked
  BY DEF Keeps, Tracked
<1>3. \A a \in Address : addressModelMap'[a] # NoModel => a <= addresses'
  BY <1>2 DEF Keeps, Places
<1>4. \A m \in Models :
        /\ running'[m] <= addresses'
        /\ running'[m] \in Address /\ addressModelMap'[running'[m]] # NoModel =>
               addressModelMap'[running'[m]] = m
  BY <1>1, <1>2 DEF Keeps, Places, NoAddress
<1>5. \A m, n \in Models : running'[m] = running'[n] /\ running'[m] # NoAddress => m = n
  BY DEF Keeps, Places
<1>6. \A r \in Requests : LoadingNext(r) =>
        /\ client'[r] <= addresses'
        /\ model'[r] \in loading'
        /\ client'[r] \in Address /\ addressModelMap'[client'[r]] # NoModel =>
               addressModelMap'[client'[r]] = model'[r]
        /\ \A m \in Models : running'[m] # client'[r]
  BY <1>1, <1>2 DEF Keeps, Places
<1>7. \A r, u \in Requests :
        LoadingNext(r) /\ LoadingNext(u) /\ (client'[r] = client'[u] \/ model'[r] = model'[u]) =>
            r = u
  BY DEF Keeps, Places
<1> QED
  BY <1>3, <1>4, <1>5, <1>6, <1>7, PlacesPrimed DEF PlacesNext

\* The next address is new.
LEMMA NextIsNew ==
    ASSUME Typed, Places, addresses < MaxAddress
    PROVE  /\ addresses + 1 \in Address /\ addresses \in Nat
           /\ \A m \in Models : running[m] # addresses + 1
           /\ \A r \in Requests : Loading(r) => client[r] # addresses + 1
           /\ addressModelMap[addresses + 1] = NoModel
<1>1. addresses \in Nat /\ MaxAddress \in Nat
  BY Constants DEF Typed, LoaderTyped
<1>2. addresses + 1 \in Address /\ ~(addresses + 1 <= addresses)
  BY <1>1 DEF Address
<1> QED
  BY <1>1, <1>2 DEF Places, Tracked

LEMMA PlacesStarted ==
    ASSUME Typed, Places, NEW r \in Requests, StartProcess(r)
    PROVE  Places'
<1> DEFINE b == addresses + 1
<1>1. /\ b \in Address /\ addresses \in Nat
      /\ \A m \in Models : running[m] # b
      /\ \A u \in Requests : Loading(u) => client[u] # b
      /\ b \in Int /\ addresses <= b
  BY NextIsNew, Constants DEF StartProcess
<1>2. /\ addressModelMap' = [addressModelMap EXCEPT ![b] = model[r]]
      /\ client' = [client EXCEPT ![r] = b] /\ model' = model
      /\ loading' = loading \cup {model[r]} /\ running' = running /\ addresses' = b
      /\ pc' = [pc EXCEPT ![r] = "spawned"]
      /\ model[r] \notin loading /\ pc[r] = "load"
  BY DEF StartProcess, Goto
<1> HIDE DEF b
<1>3. /\ pc \in [Threads -> PC] /\ client \in [Requests -> Address \cup {NoAddress}]
      /\ running \in [Models -> Address \cup {NoAddress}]
      /\ addressModelMap \in [Address -> Models \cup {NoModel}]
      /\ \A u \in Requests : Loading(u) => client[u] \in Address
      /\ Requests \subseteq Threads
  BY Constants DEF Typed, ThreadTyped, LoaderTyped, TrackTyped
<1>4. \A u \in Requests : u # r /\ LoadingNext(u) => Loading(u) /\ client'[u] = client[u]
  BY <1>2, <1>3 DEF LoadingNext, Loading
<1>5. client'[r] = b /\ addressModelMap'[b] = model[r]
  BY <1>1, <1>2, <1>3
<1>6. \A a \in Address : a # b => addressModelMap'[a] = addressModelMap[a]
  BY <1>2, <1>3
<1>7. \A a \in Address : addressModelMap'[a] # NoModel => a <= addresses'
  <2>1. \A a \in Address : a \in Int
    BY Constants
  <2> QED
    BY <1>1, <1>2, <1>6, <2>1 DEF Places, Tracked
<1>8. \A m \in Models :
        /\ running'[m] <= addresses'
        /\ running'[m] \in Address /\ addressModelMap'[running'[m]] # NoModel =>
               addressModelMap'[running'[m]] = m
  <2>1. \A m \in Models : running[m] \in Int
    BY <1>3, Constants DEF NoAddress
  <2> QED
    BY <1>1, <1>2, <1>6, <2>1 DEF Places, Tracked
<1>9. \A m, n \in Models : running'[m] = running'[n] /\ running'[m] # NoAddress => m = n
  BY <1>2 DEF Places
<1>10. \A u \in Requests : LoadingNext(u) =>
        /\ client'[u] <= addresses'
        /\ model'[u] \in loading'
        /\ client'[u] \in Address /\ addressModelMap'[client'[u]] # NoModel =>
               addressModelMap'[client'[u]] = model'[u]
        /\ \A m \in Models : running'[m] # client'[u]
  <2> SUFFICES ASSUME NEW u \in Requests, LoadingNext(u)
               PROVE  /\ client'[u] <= addresses'
                      /\ model'[u] \in loading'
                      /\ client'[u] \in Address /\ addressModelMap'[client'[u]] # NoModel =>
                             addressModelMap'[client'[u]] = model'[u]
                      /\ \A m \in Models : running'[m] # client'[u]
    OBVIOUS
  <2>1. CASE u = r
    BY <1>1, <1>2, <1>5, <2>1
  <2>2. CASE u # r
    <3>1. Loading(u) /\ client'[u] = client[u] /\ client[u] # b /\ client[u] \in Address
      BY <1>1, <1>3, <1>4, <2>2
    <3>2. client[u] \in Int
      <4>1. \A x \in Address : x \in Int
        BY Constants
      <4> QED
        BY <3>1, <4>1
    <3> QED
      BY <1>1, <1>2, <1>6, <3>1, <3>2 DEF Places, Tracked
  <2> QED
    BY <2>1, <2>2
<1>11. \A t, u \in Requests :
        LoadingNext(t) /\ LoadingNext(u) /\ (client'[t] = client'[u] \/ model'[t] = model'[u]) =>
            t = u
  BY <1>1, <1>2, <1>4, <1>5 DEF Places
<1> QED
  BY <1>7, <1>8, <1>9, <1>10, <1>11, PlacesPrimed DEF PlacesNext

LEMMA PlacesFailed ==
    ASSUME Typed, Places, NEW r \in Requests, StartProcessFails(r)
    PROVE  Places'
<1>1. /\ pc \in [Threads -> PC] /\ client \in [Requests -> Address \cup {NoAddress}]
      /\ running \in [Models -> Address \cup {NoAddress}]
      /\ addressModelMap \in [Address -> Models \cup {NoModel}]
      /\ \A u \in Requests : Loading(u) => client[u] \in Address
      /\ Requests \subseteq Threads
  BY Constants DEF Typed, ThreadTyped, LoaderTyped, TrackTyped
<1>2. /\ pc' = [pc EXCEPT ![r] = "done"]
      /\ UNCHANGED <<running, loading, model, client>>
  BY DEF StartProcessFails, Goto
<1>3. \A u \in Requests : LoadingNext(u) => Loading(u)
  BY <1>1, <1>2 DEF LoadingNext, Loading
<1>4. CASE UNCHANGED <<addresses, addressModelMap>>
  BY <1>2, <1>3, <1>4, PlacesKept DEF Keeps, Places
<1>5. CASE /\ addresses < MaxAddress
           /\ addresses' = addresses + 1
           /\ addressModelMap' = [addressModelMap EXCEPT ![addresses + 1] = model[r]]
  <2> DEFINE b == addresses + 1
  <2>1. /\ b \in Address /\ addresses \in Nat
        /\ \A m \in Models : running[m] # b
        /\ \A u \in Requests : Loading(u) => client[u] # b
        /\ b \in Int /\ addresses <= b
    BY <1>5, NextIsNew, Constants
  <2>2. addresses' = b /\ addressModelMap' = [addressModelMap EXCEPT ![b] = model[r]]
    BY <1>5
  <2> HIDE DEF b
  <2>3. \A a \in Address : a # b => addressModelMap'[a] = addressModelMap[a]
    BY <1>1, <2>2
  <2>4. \A a \in Address : addressModelMap'[a] # NoModel => a <= addresses'
    <3>1. \A a \in Address : a \in Int
      BY Constants
    <3> QED
      BY <2>1, <2>2, <2>3, <3>1 DEF Places, Tracked
  <2>5. \A m \in Models :
          /\ running'[m] <= addresses'
          /\ running'[m] \in Address /\ addressModelMap'[running'[m]] # NoModel =>
                 addressModelMap'[running'[m]] = m
    <3>1. \A m \in Models : running[m] \in Int
      BY <1>1, Constants DEF NoAddress
    <3> QED
      BY <1>2, <2>1, <2>2, <2>3, <3>1 DEF Places, Tracked
  <2>6. \A m, n \in Models : running'[m] = running'[n] /\ running'[m] # NoAddress => m = n
    BY <1>2 DEF Places
  <2>7. \A u \in Requests : LoadingNext(u) =>
          /\ client'[u] <= addresses'
          /\ model'[u] \in loading'
          /\ client'[u] \in Address /\ addressModelMap'[client'[u]] # NoModel =>
                 addressModelMap'[client'[u]] = model'[u]
          /\ \A m \in Models : running'[m] # client'[u]
    <3>1. \A u \in Requests : Loading(u) => client[u] \in Int
      BY <1>1, Constants
    <3> QED
      BY <1>1, <1>2, <1>3, <2>1, <2>2, <2>3, <3>1 DEF Places, Tracked
  <2>8. \A t, u \in Requests :
          LoadingNext(t) /\ LoadingNext(u) /\ (client'[t] = client'[u] \/ model'[t] = model'[u]) =>
              t = u
    BY <1>2, <1>3 DEF Places
  <2> QED
    BY <2>4, <2>5, <2>6, <2>7, <2>8, PlacesPrimed DEF PlacesNext
<1> QED
  BY <1>4, <1>5 DEF StartProcessFails

LEMMA PlacesPublished ==
    ASSUME Typed, Places, NEW r \in Requests, Publish(r)
    PROVE  Places'
<1>1. /\ pc \in [Threads -> PC]
      /\ running \in [Models -> Address \cup {NoAddress}]
      /\ Requests \subseteq Threads /\ model[r] \in Models /\ Loading(r) /\ client[r] \in Address
  BY Constants DEF Typed, ThreadTyped, LoaderTyped, Publish, Loading, Loads, LoadSteps
<1>2. /\ running' = [running EXCEPT ![model[r]] = client[r]]
      /\ loading' = loading \ {model[r]}
      /\ pc' = [pc EXCEPT ![r] = "ready"]
      /\ UNCHANGED <<addressModelMap, addresses, model, client>>
  BY DEF Publish, Goto, trackVars
<1>3. \A u \in Requests : LoadingNext(u) => Loading(u) /\ u # r
  BY <1>1, <1>2 DEF LoadingNext, Loading
<1>4. \A m \in Models : running'[m] = IF m = model[r] THEN client[r] ELSE running[m]
  BY <1>1, <1>2
<1>5. \A m \in Models :
        /\ running'[m] <= addresses'
        /\ running'[m] \in Address /\ addressModelMap'[running'[m]] # NoModel =>
               addressModelMap'[running'[m]] = m
  BY <1>1, <1>2, <1>4 DEF Places, Tracked
<1>6. \A m, n \in Models : running'[m] = running'[n] /\ running'[m] # NoAddress => m = n
  BY <1>1, <1>4 DEF Places
<1>7. \A u \in Requests : LoadingNext(u) =>
        /\ client'[u] <= addresses'
        /\ model'[u] \in loading'
        /\ client'[u] \in Address /\ addressModelMap'[client'[u]] # NoModel =>
               addressModelMap'[client'[u]] = model'[u]
        /\ \A m \in Models : running'[m] # client'[u]
  BY <1>1, <1>2, <1>3, <1>4 DEF Places, Tracked
<1>8. \A t, u \in Requests :
        LoadingNext(t) /\ LoadingNext(u) /\ (client'[t] = client'[u] \/ model'[t] = model'[u]) =>
            t = u
  BY <1>2, <1>3 DEF Places
<1>9. \A a \in Address : addressModelMap'[a] # NoModel => a <= addresses'
  BY <1>2 DEF Places, Tracked
<1> QED
  BY <1>5, <1>6, <1>7, <1>8, <1>9, PlacesPrimed DEF PlacesNext

LEMMA StepPlaces ==
    ASSUME Typed, Places, Step
    PROVE  Places'
BY StepKinds, PlacesKept, PlacesStarted, PlacesFailed, PlacesPublished

-----------------------------------------------------------------------------
(***************************************************************************)
(* The marks, again: a process that is stopped while no call of its        *)
(* clients is in flight has no call at all, for a process that is being    *)
(* loaded is not yet anybody's to stop.                                    *)
(***************************************************************************)
LEMMA NoneInFlight ==
    ASSUME Typed, Marks, Places, NEW m \in Models, running[m] # NoAddress,
           InFlight(running[m]) = {}
    PROVE  running[m] \in Address /\ requestStarts[running[m]] = <<>>
<1> DEFINE a == running[m]
<1>1. a \in Address /\ requestStarts[a] \in Seq(Calls)
  BY DEF Typed, LoaderTyped, TrackTyped
<1>2. ASSUME requestStarts[a] # <<>> PROVE FALSE
  <2>1. 1 \in 1..Len(requestStarts[a])
    BY <1>1, <1>2
  <2>2. PICK r \in Requests : client[r] = a /\ pc[r] \in {"calling", "loadRPC"}
    BY <1>1, <2>1, NotActive
  <2>3. pc[r] # "calling"
    BY <2>2 DEF InFlight
  <2>4. Loading(r)
    BY <2>2, <2>3 DEF Loading
  <2> QED
    BY <2>2, <2>4 DEF Places
<1> QED
  BY <1>1, <1>2

\* The marks of a step that begins and ends no call.
KeepsMarks ==
    /\ \A a \in Address :
        \/ /\ requestStarts'[a] = requestStarts[a] /\ busyTime'[a] = busyTime[a]
           /\ idleTime'[a] = idleTime[a] \/ requestStarts[a] = <<>>
        \/ requestStarts'[a] = <<>> /\ busyTime'[a] = NoCall

LEMMA UntrackKeepsMarks ==
    ASSUME Typed, NEW A, Untrack(A)
    PROVE  KeepsMarks
<1> SUFFICES ASSUME NEW a \in Address
             PROVE  \/ /\ requestStarts'[a] = requestStarts[a] /\ busyTime'[a] = busyTime[a]
                       /\ idleTime'[a] = idleTime[a] \/ requestStarts[a] = <<>>
                    \/ requestStarts'[a] = <<>> /\ busyTime'[a] = NoCall
  BY DEF KeepsMarks
<1>1. CASE a \in A
  BY <1>1 DEF Untrack
<1>2. CASE a \notin A
  BY <1>2 DEF Untrack
<1> QED
  BY <1>1, <1>2

LEMMA StopKeepsMarks ==
    ASSUME Typed, Marks, Places, NEW x \in Target, Stoppable(x), Stop(x)
    PROVE  KeepsMarks
<1>1. CASE x.wasBusy
  BY <1>1 DEF Stop, KeepsMarks, trackVars
<1>2. CASE ~x.wasBusy
  <2>1. x.model \in Models /\ running[x.model] # NoAddress /\ InFlight(running[x.model]) = {}
    BY <1>2 DEF Target, Stoppable
  <2>2. requestStarts[running[x.model]] = <<>>
    BY <2>1, NoneInFlight
  <2> QED
    BY <1>2, <2>2 DEF Stop, ShortRequest, KeepsMarks, Typed, TrackTyped
<1> QED
  BY <1>1, <1>2

LEMMA StepMarks ==
    ASSUME Typed, Marks, Places, Step
    PROVE  Marks'
<1> USE DEF trackVars
<1>1. ASSUME KeepsMarks,
             \A r \in Requests :
                 pc[r] \in {"calling", "loadRPC"} => pc'[r] = pc[r] /\ client'[r] = client[r]
      PROVE  Marks'
  BY <1>1, MarksKept DEF KeepsMarks
<1>2. /\ pc \in [Threads -> PC] /\ client \in [Requests -> Address \cup {NoAddress}]
      /\ Requests \subseteq Threads /\ WD \notin Requests
      /\ targets \in [Threads -> SUBSET Target] /\ WD \in Threads
  BY Constants DEF Typed, ThreadTyped
<1>3. ASSUME NEW r \in Requests, RequestStep(r)
      PROVE  Marks'
  <2>1. Moves(r)
    BY <1>3, RequestMoves
  <2>2. ASSUME KeepsMarks, pc[r] \notin {"calling", "loadRPC"}
        PROVE  Marks'
    <3>1. \A u \in Requests :
              pc[u] \in {"calling", "loadRPC"} => pc'[u] = pc[u] /\ client'[u] = client[u]
      BY <1>2, <2>1, <2>2 DEF Moves
    <3> QED
      BY <1>1, <2>2, <3>1
  <2>3. CASE BeginLoadModel(r)
    BY <2>3, MarksBegun DEF BeginLoadModel
  <2>4. CASE BeginCall(r)
    BY <2>4, MarksBegun DEF BeginCall
  <2>5. CASE EndLoadModel(r)
    BY <2>5, MarksFinished DEF EndLoadModel
  <2>6. CASE EndCall(r)
    BY <2>6, MarksFinished DEF EndCall
  <2>7. CASE EnforceGroupExclusivity(r) \/ EnforceLRULimit(r)
    BY <2>2, <2>7, UntrackKeepsMarks DEF EnforceGroupExclusivity, EnforceLRULimit
  <2>8. CASE ~\/ BeginLoadModel(r) \/ BeginCall(r) \/ EndLoadModel(r) \/ EndCall(r)
              \/ EnforceGroupExclusivity(r) \/ EnforceLRULimit(r)
    <3>1. UNCHANGED <<requestStarts, busyTime, idleTime>> /\ pc[r] \notin {"calling", "loadRPC"}
      BY <1>3, <2>8
      DEF RequestStep, EnforceStep, LoadStep, CallStep, CountLoads, EnforceDone, EnforceRetry,
          EnforceGivesUp, Enforced, LoadFound, StartProcess, StartProcessFails, Publish,
          LoadFails, Start, UpdateLastUsed
    <3> QED
      BY <2>2, <3>1 DEF KeepsMarks
  <2> QED
    BY <2>3, <2>4, <2>5, <2>6, <2>7, <2>8
<1>4. CASE \A r \in Requests : ~RequestStep(r)
  <2>1. \A u \in Requests :
            pc[u] \in {"calling", "loadRPC"} => pc'[u] = pc[u] /\ client'[u] = client[u]
    BY <1>2, <1>4, OthersMove DEF RunMoves
  <2>2. KeepsMarks
    <3>1. CASE UNCHANGED <<requestStarts, busyTime, idleTime>>
      BY <3>1 DEF KeepsMarks
    <3>2. ASSUME NEW t \in Threads, NEW x \in Target,
                 ShutdownTarget(t, x) \/ ShutdownTargetFails(t, x)
          PROVE  KeepsMarks
      BY <3>1, <3>2, StopKeepsMarks DEF ShutdownTarget, ShutdownTargetFails
    <3>3. CASE EvictLRUModelStops
      BY <1>2, <3>1, <3>3, StopKeepsMarks DEF EvictLRUModelStops
    <3>4. CASE CheckBusy \/ CheckIdle \/ EvictLRUModelUntracks
      BY <3>4, UntrackKeepsMarks DEF CheckBusy, CheckIdle, EvictLRUModelUntracks
    <3>5. CASE CheckDone \/ EvictLRUModel \/ EvictLRUModelFails \/ BusyTimeout
      BY <3>1, <3>5 DEF CheckDone, EvictLRUModel, EvictLRUModelFails, BusyTimeout
    <3>6. CASE IdleTimeout
      <4>1. PICK a \in Address : /\ idleTime[a] = "recent"
                                 /\ idleTime' = [idleTime EXCEPT ![a] = "long"]
        BY <3>6 DEF IdleTimeout
      <4>2. requestStarts[a] = <<>>
        BY <4>1 DEF Marks, MarksOf
      <4> QED
        BY <3>6, <4>1, <4>2 DEF IdleTimeout, KeepsMarks, Typed, TrackTyped
    <3>7. CASE Unload
      <4>1. PICK m \in Models \ loading :
                /\ running[m] # NoAddress
                /\ \/ InFlight(running[m]) = {} /\ ShortRequest(running[m])
                   \/ UNCHANGED trackVars
        BY <3>7 DEF Unload
      <4>2. CASE InFlight(running[m]) = {} /\ ShortRequest(running[m])
        BY <4>1, <4>2, NoneInFlight DEF ShortRequest, KeepsMarks, Typed, TrackTyped
      <4> QED
        BY <3>1, <4>1, <4>2
    <3> QED
      BY <1>4, <3>2, <3>3, <3>4, <3>5, <3>6, <3>7 DEF Step, RunStep, Outside
  <2> QED
    BY <1>1, <2>1, <2>2
<1> QED
  BY <1>3, <1>4

-----------------------------------------------------------------------------
(***************************************************************************)
(* Targets.                                                                *)
(***************************************************************************)
MayStop(x) == x.model \notin Pinned /\ (x.wasBusy => ForceEviction)

LEMMA SelectedMayStop ==
    ASSUME NEW a, ~Skipped(a)
    PROVE  MayStop(TargetOf(a))
<1>1. TargetOf(a).model = addressModelMap[a] /\ TargetOf(a).wasBusy = Busy(a)
  BY DEF TargetOf
<1> QED
  BY <1>1 DEF MayStop, Skipped

EligibleOf(t) ==
    /\ pc[t] \notin StopSteps \cup {"memoryStop", "untrack"} => targets[t] = {}
    /\ pc[t] # "busyStop" => \A x \in targets[t] : MayStop(x)

EligibleNext(t) ==
    /\ pc'[t] \notin StopSteps \cup {"memoryStop", "untrack"} => targets'[t] = {}
    /\ pc'[t] # "busyStop" => \A x \in targets'[t] : MayStop(x)

LEMMA EligibleParts ==
    /\ Eligible <=> \A t \in Threads : EligibleOf(t)
    /\ Eligible' <=> \A t \in Threads : EligibleNext(t)
BY DEF Eligible, EligibleOf, EligibleNext, MayStop, StopSteps

\* A thread moves on with fewer targets, and with none when it is not at a stop.
LEMMA EligibleMoved ==
    ASSUME Typed, Eligible, NEW t \in Threads,
           \A u \in Threads : u # t => pc'[u] = pc[u] /\ targets'[u] = targets[u],
           EligibleNext(t)
    PROVE  Eligible'
BY EligibleParts DEF EligibleOf, EligibleNext

LEMMA StepEligible ==
    ASSUME Typed, Eligible, Step
    PROVE  Eligible'
<1>1. /\ pc \in [Threads -> PC] /\ targets \in [Threads -> SUBSET Target]
      /\ Requests \subseteq Threads /\ WD \in Threads
      /\ \A r \in Requests : pc[r] \in RequestSteps
      /\ \A t \in Threads : EligibleOf(t)
  BY Constants, EligibleParts DEF Typed, ThreadTyped
<1>2. ASSUME NEW t \in Threads, NEW E, NEW s, \A a \in E : ~Skipped(a),
             targets' = [targets EXCEPT ![t] = {TargetOf(a) : a \in E}], Goto(t, s),
             s \in StopSteps \cup {"memoryStop", "untrack"}
      PROVE  Eligible'
  <2>1. targets'[t] = {TargetOf(a) : a \in E} /\ pc'[t] = s
    BY <1>1, <1>2 DEF Goto
  <2>2. \A x \in targets'[t] : MayStop(x)
    BY <1>2, <2>1, SelectedMayStop
  <2>3. EligibleNext(t)
    BY <1>2, <2>1, <2>2 DEF EligibleNext
  <2>4. \A u \in Threads : u # t => pc'[u] = pc[u] /\ targets'[u] = targets[u]
    BY <1>1, <1>2 DEF Goto
  <2> QED
    BY <2>3, <2>4, EligibleMoved
<1>3. ASSUME NEW r \in Requests, RequestStep(r)
      PROVE  Eligible'
  <2>1. CASE EnforceGroupExclusivity(r)
    <3>1. Conflicts(model[r]) \in SUBSET Address
      BY DEF Conflicts, Tracked
    <3>2. PICK E \in Evictions(Conflicts(model[r]), Cardinality(Conflicts(model[r]))) :
              targets' = [targets EXCEPT ![r] = {TargetOf(a) : a \in E}]
      BY <2>1 DEF EnforceGroupExclusivity
    <3>3. \A a \in E : ~Skipped(a)
      BY <3>1, EvictionsSelect
    <3> QED
      BY <1>1, <1>2, <2>1, <3>2, <3>3 DEF EnforceGroupExclusivity, StopSteps
  <2>2. CASE EnforceLRULimit(r)
    <3>1. Tracked \in SUBSET Address
      BY DEF Tracked
    <3>2. PICK E : /\ \A a \in E : ~Skipped(a)
                   /\ targets' = [targets EXCEPT ![r] = {TargetOf(a) : a \in E}]
      BY <2>2, <3>1, EvictionsSelect DEF EnforceLRULimit
    <3> QED
      BY <1>1, <1>2, <2>2, <3>2 DEF EnforceLRULimit, StopSteps
  <2>3. CASE ~EnforceGroupExclusivity(r) /\ ~EnforceLRULimit(r)
    <3>1. targets' = targets /\ targets[r] = {}
      <4>1. CASE EnforceDone(r) \/ EnforceRetry(r) \/ EnforceGivesUp(r)
        BY <4>1 DEF EnforceDone, EnforceRetry, EnforceGivesUp, Enforced
      <4>2. CASE ~(EnforceDone(r) \/ EnforceRetry(r) \/ EnforceGivesUp(r))
        <5>1. targets' = targets /\ pc[r] \notin StopSteps \cup {"memoryStop", "untrack"}
          BY <1>3, <2>3, <4>2
          DEF RequestStep, EnforceStep, LoadStep, CallStep, CountLoads, LoadFound, StartProcess,
              StartProcessFails, BeginLoadModel, EndLoadModel, Publish, LoadFails, Start,
              UpdateLastUsed, BeginCall, EndCall, StopSteps
        <5> QED
          BY <1>1, <5>1 DEF EligibleOf
      <4> QED
        BY <4>1, <4>2
    <3>2. \A u \in Threads : u # r => pc'[u] = pc[u]
      BY <1>1, <1>3, RequestMoves DEF Moves
    <3>3. EligibleNext(r)
      BY <3>1 DEF EligibleNext
    <3> QED
      BY <1>1, <3>1, <3>2, <3>3, EligibleMoved
  <2> QED
    BY <2>1, <2>2, <2>3
<1>4. ASSUME NEW t \in Threads, NEW x \in Target, ShutdownTarget(t, x) \/ ShutdownTargetFails(t, x)
      PROVE  Eligible'
  <2>1. pc' = pc /\ targets' = [targets EXCEPT ![t] = targets[t] \ {x}]
    BY <1>4 DEF ShutdownTarget, ShutdownTargetFails
  <2>2. EligibleNext(t)
    BY <1>1, <2>1 DEF EligibleOf, EligibleNext
  <2> QED
    BY <1>1, <2>1, <2>2, EligibleMoved
<1>5. ASSUME NEW s, Goto(WD, s), targets' = [targets EXCEPT ![WD] = targets'[WD]] ,
             EligibleNext(WD)
      PROVE  Eligible'
  BY <1>1, <1>5, EligibleMoved DEF Goto
<1>6. CASE CheckBusy
  <2>1. pc' = [pc EXCEPT ![WD] = "busyStop"] /\ targets' = [targets EXCEPT ![WD] = targets'[WD]]
    BY <1>1, <1>6 DEF CheckBusy, Goto
  <2> QED
    BY <1>1, <1>5, <2>1 DEF EligibleNext, StopSteps, Goto
<1>7. CASE CheckIdle
  <2> DEFINE A == {a \in Address : idleTime[a] = "long" /\ addressModelMap[a] \notin Pinned}
  <2>1. /\ pc' = [pc EXCEPT ![WD] = "idleStop"]
        /\ targets' = [targets EXCEPT ![WD] =
               {[address |-> a, model |-> addressModelMap[a], wasBusy |-> FALSE] :
                   a \in A \cap Tracked}]
    BY <1>7 DEF CheckIdle, Goto
  <2>2. \A a \in A : MayStop([address |-> a, model |-> addressModelMap[a], wasBusy |-> FALSE])
    BY DEF MayStop
  <2>3. targets'[WD] = {[address |-> a, model |-> addressModelMap[a], wasBusy |-> FALSE] :
                           a \in A \cap Tracked}
    BY <1>1, <2>1
  <2>4. \A x \in targets'[WD] : MayStop(x)
    BY <2>2, <2>3
  <2>5. EligibleNext(WD)
    BY <1>1, <2>1, <2>4 DEF EligibleNext, StopSteps
  <2> QED
    BY <1>1, <1>5, <2>1, <2>5 DEF Goto
<1>8. CASE EvictLRUModel
  <2>1. Tracked \in SUBSET Address
    BY DEF Tracked
  <2>2. PICK E : /\ \A a \in E : ~Skipped(a)
                 /\ targets' = [targets EXCEPT ![WD] = {TargetOf(a) : a \in E}]
    BY <1>8, <2>1, EvictionsSelect DEF EvictLRUModel
  <2> QED
    BY <1>1, <1>2, <1>8, <2>2 DEF EvictLRUModel
<1>9. CASE EvictLRUModelUntracks \/ EvictLRUModelFails \/ CheckDone
  <2>1. /\ pc' = [pc EXCEPT ![WD] = "tick"] /\ targets'[WD] = {}
        /\ targets' = [targets EXCEPT ![WD] = targets'[WD]]
    BY <1>1, <1>9 DEF EvictLRUModelUntracks, EvictLRUModelFails, CheckDone, Goto
  <2> QED
    BY <1>5, <2>1 DEF EligibleNext, Goto
<1>10. CASE EvictLRUModelStops
  <2>1. /\ pc[WD] = "memoryStop" /\ pc' = [pc EXCEPT ![WD] = "untrack"] /\ targets' = targets
    BY <1>10 DEF EvictLRUModelStops, Goto
  <2>2. EligibleNext(WD)
    BY <1>1, <2>1 DEF EligibleOf, EligibleNext
  <2> QED
    BY <1>1, <1>5, <2>1, <2>2 DEF Goto
<1>11. CASE Outside
  BY <1>1, <1>11, EligibleParts
  DEF Outside, IdleTimeout, BusyTimeout, Unload, EligibleOf, EligibleNext
<1> QED
  BY <1>3, <1>4, <1>6, <1>7, <1>8, <1>9, <1>10, <1>11 DEF Step, RunStep

-----------------------------------------------------------------------------
(***************************************************************************)
(* What checkMemory has selected.                                          *)
(***************************************************************************)
SelectedNext ==
    /\ pc'[WD] = "memoryStop" => \A x, y \in targets'[WD] : x = y
    /\ pc'[WD] \in {"memoryStop", "untrack"} =>
        \A x \in targets'[WD] :
            /\ x.address <= addresses'
            /\ \A m \in Models :
                running'[m] = x.address => m = x.model /\ pc'[WD] = "memoryStop"
            /\ \A r \in Requests :
                LoadingNext(r) /\ client'[r] = x.address =>
                    model'[r] = x.model /\ pc'[WD] = "memoryStop"

LEMMA SelectedPrimed == Selected' <=> SelectedNext
BY DEF Selected, SelectedNext, Loading, LoadingNext

\* The steps of the others.
LEMMA SelectedKept ==
    ASSUME Typed, Places, Selected, Step,
           pc'[WD] = pc[WD], targets'[WD] = targets[WD]
    PROVE  Selected'
<1>1. /\ \A x \in targets[WD] : x.address \in Int /\ x.model \in Models
      /\ addresses \in Int
      /\ running \in [Models -> Address \cup {NoAddress}]
      /\ pc \in [Threads -> PC] /\ client \in [Requests -> Address \cup {NoAddress}]
      /\ Requests \subseteq Threads
  <2>1. \A x \in targets[WD] : x.address \in Address /\ x.model \in Models
    BY Constants DEF Typed, ThreadTyped, Target
  <2>2. Address \subseteq Int
    BY Constants
  <2>3. \A x \in targets[WD] : x.address \in Int /\ x.model \in Models
    BY <2>1, <2>2
  <2> QED
    BY <2>3, Constants DEF Typed, ThreadTyped, LoaderTyped
<1>2. CASE Keeps
  <2>1. \A x \in targets[WD] : x.address \in Address
    BY Constants DEF Typed, ThreadTyped, Target
  <2>2. \A x \in targets[WD], m \in Models : running'[m] = x.address => running[m] = x.address
    BY <1>2, <2>1, Constants DEF Keeps, NoAddress
  <2>3. \A r \in Requests : LoadingNext(r) =>
            Loading(r) /\ client'[r] = client[r] /\ model'[r] = model[r]
    BY <1>2 DEF Keeps
  <2>4. addresses' = addresses
    BY <1>2 DEF Keeps
  <2> QED
    BY <2>2, <2>3, <2>4, SelectedPrimed DEF Selected, SelectedNext
<1>3. ASSUME NEW r \in Requests, StartProcess(r)
      PROVE  Selected'
  <2>1. /\ addresses' = addresses + 1 /\ client' = [client EXCEPT ![r] = addresses + 1]
        /\ pc' = [pc EXCEPT ![r] = "spawned"] /\ UNCHANGED <<running, model>>
    BY <1>3 DEF StartProcess, Goto
  <2>2. \A u \in Requests : u # r => client'[u] = client[u] /\ (LoadingNext(u) => Loading(u))
    BY <1>1, <2>1 DEF LoadingNext, Loading
  <2>3. client'[r] = addresses + 1
    BY <1>1, <2>1
  <2>4. pc[WD] \in {"memoryStop", "untrack"} =>
            \A x \in targets[WD] : x.address <= addresses' /\ x.address # client'[r]
    BY <1>1, <2>1, <2>3 DEF Selected
  <2> QED
    BY <2>1, <2>2, <2>4, SelectedPrimed DEF Selected, SelectedNext
<1>4. ASSUME NEW r \in Requests, StartProcessFails(r)
      PROVE  Selected'
  <2>1. /\ addresses' \in {addresses, addresses + 1}
        /\ pc' = [pc EXCEPT ![r] = "done"] /\ UNCHANGED <<running, model, client>>
    BY <1>4 DEF StartProcessFails, Goto
  <2>2. \A u \in Requests : LoadingNext(u) => Loading(u)
    BY <1>1, <2>1 DEF LoadingNext, Loading
  <2>3. pc[WD] \in {"memoryStop", "untrack"} => \A x \in targets[WD] : x.address <= addresses'
    BY <1>1, <2>1 DEF Selected
  <2> QED
    BY <2>1, <2>2, <2>3, SelectedPrimed DEF Selected, SelectedNext
<1>5. ASSUME NEW r \in Requests, Publish(r)
      PROVE  Selected'
  <2>1. /\ running' = [running EXCEPT ![model[r]] = client[r]]
        /\ pc' = [pc EXCEPT ![r] = "ready"] /\ UNCHANGED <<addresses, model, client>>
        /\ Loading(r)
    BY <1>5 DEF Publish, Goto, Loading
  <2>2. \A u \in Requests : LoadingNext(u) => Loading(u)
    BY <1>1, <2>1 DEF LoadingNext, Loading
  <2>3. \A m \in Models : running'[m] = running[m] \/ (m = model[r] /\ running'[m] = client[r])
    BY <1>1, <2>1
  <2> QED
    BY <2>1, <2>2, <2>3, SelectedPrimed DEF Selected, SelectedNext
<1> QED
  BY <1>2, <1>3, <1>4, <1>5, StepKinds

\* A set with at most one element.
LEMMA AtMostOne ==
    ASSUME NEW E, IsFiniteSet(E), Cardinality(E) <= 1
    PROVE  \A x, y \in E : x = y
<1> SUFFICES ASSUME NEW x \in E, NEW y \in E, x # y PROVE FALSE
  OBVIOUS
<1>1. Cardinality({x, y}) = 2
  <2>1. Cardinality({x}) = 1 /\ IsFiniteSet({x})
    BY FS_Singleton
  <2>2. {x, y} = {x} \cup {y} /\ y \notin {x}
    OBVIOUS
  <2> QED
    BY <2>1, <2>2, FS_AddElement
<1>2. Cardinality({x, y}) <= Cardinality(E) /\ Cardinality(E) \in Nat
  BY FS_Subset, FS_CardinalityType
<1> QED
  BY <1>1, <1>2

\* The number of the evictions.
LEMMA EvictionsNumber ==
    ASSUME NEW C \in SUBSET Address, NEW max \in Nat, NEW E \in Evictions(C, max)
    PROVE  /\ IsFiniteSet(E) /\ Cardinality(E) \in Nat /\ Cardinality(E) <= max
           /\ Cardinality(E) < max => \A a \in C \ E : Skipped(a)
<1> DEFINE eligible == {a \in C : ~Skipped(a)}
<1>1. IsFiniteSet(eligible) /\ eligible \subseteq C
  BY Constants, FS_Subset
<1>2. E \subseteq eligible /\ Cardinality(E) = Min({max, Cardinality(eligible)})
  BY DEF Evictions
<1> HIDE DEF eligible
<1>3. Cardinality(eligible) \in Nat
  BY <1>1, FS_CardinalityType
<1>4. Cardinality(E) = IF max <= Cardinality(eligible) THEN max ELSE Cardinality(eligible)
  BY <1>2, <1>3, MinOfTwo
<1>5. IsFiniteSet(E) /\ Cardinality(E) \in Nat
  BY <1>1, <1>2, FS_Subset, FS_CardinalityType
<1>6. Cardinality(E) < max => E = eligible
  <2>1. Cardinality(E) < max => Cardinality(E) = Cardinality(eligible)
    BY <1>3, <1>4
  <2> QED
    BY <1>1, <1>2, <2>1, FS_Subset
<1>7. Cardinality(E) < max => \A a \in C \ E : Skipped(a)
  BY <1>6 DEF eligible
<1> QED
  BY <1>3, <1>4, <1>5, <1>7

LEMMA StepSelected ==
    ASSUME Typed, Places, Eligible, Selected, Step
    PROVE  Selected'
<1> USE DEF trackVars, loaderVars
<1>1. /\ pc \in [Threads -> PC] /\ targets \in [Threads -> SUBSET Target]
      /\ Requests \subseteq Threads /\ WD \in Threads /\ WD \notin Requests
      /\ running \in [Models -> Address \cup {NoAddress}] /\ NoAddress \notin Address
  BY Constants DEF Typed, ThreadTyped, LoaderTyped, NoAddress
<1>2. CASE pc'[WD] = pc[WD] /\ targets'[WD] = targets[WD]
  BY <1>2, SelectedKept
<1>3. CASE pc'[WD] \notin {"memoryStop", "untrack"}
  BY <1>3, SelectedPrimed DEF SelectedNext
<1>4. ASSUME NEW r \in Requests, RequestStep(r)
      PROVE  Selected'
  <2>1. pc'[WD] = pc[WD]
    BY <1>1, <1>4, RequestMoves DEF Moves
  <2>2. targets'[WD] = targets[WD]
    BY <1>1, <1>4
    DEF RequestStep, EnforceStep, LoadStep, CallStep, EnforceGroupExclusivity, CountLoads,
        EnforceLRULimit, EnforceDone, EnforceRetry, EnforceGivesUp, LoadFound, StartProcess,
        StartProcessFails, BeginLoadModel, EndLoadModel, Publish, LoadFails, Start,
        UpdateLastUsed, BeginCall, EndCall
  <2> QED
    BY <1>2, <2>1, <2>2
<1>5. ASSUME NEW t \in Threads, NEW x \in Target, ShutdownTarget(t, x) \/ ShutdownTargetFails(t, x)
      PROVE  Selected'
  <2>1. /\ pc' = pc /\ targets' = [targets EXCEPT ![t] = targets[t] \ {x}]
        /\ pc[t] \in StopSteps
    BY <1>5 DEF ShutdownTarget, ShutdownTargetFails
  <2>2. CASE t = WD
    BY <1>3, <2>1, <2>2 DEF StopSteps
  <2>3. CASE t # WD
    BY <1>1, <1>2, <2>1, <2>3
  <2> QED
    BY <2>2, <2>3
<1>6. CASE Outside
  BY <1>1, <1>2, <1>6 DEF Outside, IdleTimeout, BusyTimeout, Unload
<1>7. CASE CheckBusy \/ CheckIdle \/ CheckDone \/ EvictLRUModelUntracks \/ EvictLRUModelFails
  BY <1>1, <1>3, <1>7
  DEF CheckBusy, CheckIdle, CheckDone, EvictLRUModelUntracks, EvictLRUModelFails, Goto
<1>8. CASE EvictLRUModel
  <2>1. Tracked \in SUBSET Address
    BY DEF Tracked
  <2>2. PICK E \in Evictions(Tracked, 1) :
            targets' = [targets EXCEPT ![WD] = {TargetOf(a) : a \in E}]
    BY <1>8 DEF EvictLRUModel
  <2>3. E \subseteq Tracked /\ \A a, b \in E : a = b
    BY <2>1, EvictionsSelect, EvictionsNumber, AtMostOne
  <2>4. targets'[WD] = {TargetOf(a) : a \in E} /\ pc'[WD] = "memoryStop"
        /\ UNCHANGED <<addresses, running, model, client>>
        /\ \A r \in Requests : LoadingNext(r) <=> Loading(r)
    BY <1>1, <1>8, <2>2 DEF EvictLRUModel, Goto, LoadingNext, Loading
  <2>5. \A x, y \in targets'[WD] : x = y
    BY <2>3, <2>4
  <2>6. ASSUME NEW x \in targets'[WD]
        PROVE  /\ x.address <= addresses
               /\ \A m \in Models : running[m] = x.address => m = x.model
               /\ \A r \in Requests : Loading(r) /\ client[r] = x.address => model[r] = x.model
    <3>1. PICK a \in E : x = TargetOf(a)
      BY <2>4
    <3>2. x.address = a /\ x.model = addressModelMap[a] /\ a \in Tracked
      BY <2>3, <3>1 DEF TargetOf
    <3> QED
      BY <3>2 DEF Places
  <2> QED
    BY <2>4, <2>5, <2>6, SelectedPrimed DEF SelectedNext
<1>9. CASE EvictLRUModelStops
  <2>1. PICK x \in targets[WD] : \/ Stoppable(x) /\ Stop(x)
                                 \/ NotFound(x) /\ UNCHANGED <<loaderVars, trackVars>>
    BY <1>9 DEF EvictLRUModelStops
  <2>2. x \in Target /\ x.model \in Models /\ x.address \in Address
    BY <1>1 DEF Target
  <2>3. /\ pc[WD] = "memoryStop" /\ pc'[WD] = "untrack" /\ targets' = targets
        /\ UNCHANGED <<model, client, addresses, loading>>
        /\ \A r \in Requests : LoadingNext(r) <=> Loading(r)
    BY <1>1, <1>9, <2>1 DEF EvictLRUModelStops, Goto, LoadingNext, Loading, Stop
  <2>4. /\ running'[x.model] = NoAddress
        /\ \A m \in Models : m # x.model => running'[m] = running[m]
        /\ x.model \notin loading
    BY <1>1, <2>1, <2>2 DEF Stoppable, NotFound, Stop
  <2>5. \A y \in targets[WD] : y = x
    BY <2>3 DEF Selected
  <2>6. \A m \in Models : running'[m] # x.address
    BY <1>1, <2>2, <2>3, <2>4 DEF Selected
  <2>7. \A r \in Requests : Loading(r) => client[r] # x.address
    BY <2>3, <2>4 DEF Selected, Places
  <2>8. x.address <= addresses
    BY <2>3 DEF Selected
  <2> QED
    BY <2>3, <2>5, <2>6, <2>7, <2>8, SelectedPrimed DEF SelectedNext
<1> QED
  BY <1>4, <1>5, <1>6, <1>7, <1>8, <1>9 DEF Step, RunStep

-----------------------------------------------------------------------------
(***************************************************************************)
(* Nothing escapes.                                                        *)
(***************************************************************************)
DoomedNext(m) == \E t \in Threads : pc'[t] \in StopSteps /\ \E x \in targets'[t] : x.model = m

CoveredNext ==
    /\ \A m \in Models :
        running'[m] # NoAddress =>
            \/ running'[m] \in Address /\ addressModelMap'[running'[m]] # NoModel
            \/ DoomedNext(m)
    /\ \A r \in Requests :
        LoadingNext(r) =>
            \/ client'[r] \in Address /\ addressModelMap'[client'[r]] # NoModel
            \/ DoomedNext(model'[r])

LEMMA CoveredPrimed == Covered' <=> CoveredNext
BY DEF Covered, CoveredNext, Doomed, DoomedNext, Tracked, Loading, LoadingNext, StopSteps

\* Nothing is untracked, and no target dropped.
LEMMA CoveredKept ==
    ASSUME Typed, Covered,
           \A t \in Threads : pc[t] \in StopSteps /\ targets[t] # {} =>
               pc'[t] = pc[t] /\ targets'[t] = targets[t],
           \A a \in Tracked : addressModelMap'[a] # NoModel,
           \A m \in Models :
               \/ running'[m] \in {running[m], NoAddress}
               \/ \E r \in Requests : Loading(r) /\ model[r] = m /\ client[r] = running'[m],
           \A r \in Requests : LoadingNext(r) =>
               \/ Loading(r) /\ client'[r] = client[r] /\ model'[r] = model[r]
               \/ client'[r] \in Address /\ addressModelMap'[client'[r]] # NoModel
    PROVE  Covered'
<1>1. \A m : Doomed(m) => DoomedNext(m)
  BY DEF Doomed, DoomedNext
<1>2. \A a \in Tracked : a \in Address
  BY DEF Tracked
<1>3. \A m \in Models :
        running'[m] # NoAddress =>
            \/ running'[m] \in Address /\ addressModelMap'[running'[m]] # NoModel
            \/ DoomedNext(m)
  BY <1>1, <1>2 DEF Covered
<1>4. \A r \in Requests :
        LoadingNext(r) =>
            \/ client'[r] \in Address /\ addressModelMap'[client'[r]] # NoModel
            \/ DoomedNext(model'[r])
  BY <1>1, <1>2 DEF Covered
<1> QED
  BY <1>3, <1>4, CoveredPrimed DEF CoveredNext

\* What is untracked becomes a target.
LEMMA CoveredTaken ==
    ASSUME Typed, Places, Covered, NEW t \in Threads, NEW A,
           pc[t] \notin StopSteps, pc'[t] \in StopSteps,
           \A u \in Threads : u # t => pc'[u] = pc[u] /\ targets'[u] = targets[u],
           Untrack(A), running' = running,
           \A r \in Requests : LoadingNext(r) =>
               Loading(r) /\ client'[r] = client[r] /\ model'[r] = model[r],
           \A a \in A \cap Tracked : \E x \in targets'[t] : x.model = addressModelMap[a]
    PROVE  Covered'
<1>1. \A m : Doomed(m) => DoomedNext(m)
  BY DEF Doomed, DoomedNext
<1>2. \A a \in Tracked : a \in Address /\ (a \notin A => addressModelMap'[a] # NoModel)
  BY DEF Tracked, Untrack
<1>3. \A a \in A \cap Tracked : DoomedNext(addressModelMap[a])
  BY DEF DoomedNext
<1>4. \A m \in Models :
        running'[m] # NoAddress =>
            \/ running'[m] \in Address /\ addressModelMap'[running'[m]] # NoModel
            \/ DoomedNext(m)
  BY <1>1, <1>2, <1>3 DEF Covered, Places
<1>5. \A r \in Requests :
        LoadingNext(r) =>
            \/ client'[r] \in Address /\ addressModelMap'[client'[r]] # NoModel
            \/ DoomedNext(model'[r])
  BY <1>1, <1>2, <1>3 DEF Covered, Places
<1> QED
  BY <1>4, <1>5, CoveredPrimed DEF CoveredNext

\* Whoever is loading went on loading, unless the step is about it.
LEMMA StillLoading ==
    ASSUME Typed, Places, Step, Keeps
    PROVE  \A r \in Requests : LoadingNext(r) =>
               Loading(r) /\ client'[r] = client[r] /\ model'[r] = model[r]
BY DEF Keeps

LEMMA RequestCovered ==
    ASSUME Typed, Places, Covered, Eligible, NEW r \in Requests, RequestStep(r)
    PROVE  Covered'
<1> USE DEF trackVars, loaderVars
<1>1. /\ pc \in [Threads -> PC] /\ targets \in [Threads -> SUBSET Target] /\ r \in Threads
      /\ addressModelMap \in [Address -> Models \cup {NoModel}] /\ NoModel \notin Models
      /\ running \in [Models -> Address \cup {NoAddress}]
      /\ client \in [Requests -> Address \cup {NoAddress}]
  BY Constants DEF Typed, ThreadTyped, LoaderTyped, TrackTyped
<1>2. \A u \in Threads : u # r => pc'[u] = pc[u]
  BY <1>1, RequestMoves DEF Moves
<1>3. Step
  BY DEF Step
<1>4. ASSUME NEW E, NEW C \in SUBSET Address, NEW max, E \in Evictions(C, max),
             targets' = [targets EXCEPT ![r] = {TargetOf(a) : a \in E}], Untrack(E),
             pc[r] \in {"groups", "lru"}, pc'[r] \in StopSteps, running' = running, Keeps
      PROVE  Covered'
  <2>1. \A u \in Threads : u # r => pc'[u] = pc[u] /\ targets'[u] = targets[u]
    BY <1>1, <1>2, <1>4
  <2>2. \A a \in E : \E x \in targets'[r] : x.model = addressModelMap[a]
    <3>1. targets'[r] = {TargetOf(a) : a \in E}
      BY <1>1, <1>4
    <3>2. \A a \in E : TargetOf(a).model = addressModelMap[a]
      BY DEF TargetOf
    <3> QED
      BY <3>1, <3>2
  <2>3. pc[r] \notin StopSteps
    BY <1>4 DEF StopSteps
  <2> QED
    BY <1>1, <1>3, <1>4, <2>1, <2>2, <2>3, StillLoading, CoveredTaken
<1>5. CASE EnforceGroupExclusivity(r)
  <2>1. Keeps
    BY <1>5, RequestKeeps DEF EnforceGroupExclusivity, StartProcess, StartProcessFails, Publish
  <2>2. Conflicts(model[r]) \in SUBSET Address
    BY DEF Conflicts, Tracked
  <2>3. pc'[r] \in StopSteps /\ running' = running /\ pc[r] = "groups"
    BY <1>1, <1>5 DEF EnforceGroupExclusivity, Goto, StopSteps
  <2>4. PICK E \in Evictions(Conflicts(model[r]), Cardinality(Conflicts(model[r]))) :
            /\ targets' = [targets EXCEPT ![r] = {TargetOf(a) : a \in E}]
            /\ Untrack(E)
    BY <1>5 DEF EnforceGroupExclusivity
  <2> QED
    BY <1>4, <2>1, <2>2, <2>3, <2>4
<1>6. CASE EnforceLRULimit(r)
  <2>1. Keeps
    BY <1>6, RequestKeeps DEF EnforceLRULimit, StartProcess, StartProcessFails, Publish
  <2>2. Tracked \in SUBSET Address
    BY DEF Tracked
  <2>3. pc'[r] \in StopSteps /\ running' = running /\ pc[r] = "lru"
    <3>1. pc[r] = "lru" /\ pc' = [pc EXCEPT ![r] = "lruStop"] /\ running' = running
      BY <1>6 DEF EnforceLRULimit, Goto
    <3> QED
      BY <1>1, <3>1 DEF StopSteps
  <2> DEFINE max == IF LRULimit = 0 THEN 0 ELSE Max({0, ToEvict(r)})
  <2>4. PICK E \in Evictions(Tracked, max) :
            /\ targets' = [targets EXCEPT ![r] = {TargetOf(a) : a \in E}]
            /\ Untrack(E)
    BY <1>6 DEF EnforceLRULimit
  <2> HIDE DEF max
  <2> QED
    BY <1>4, <2>1, <2>2, <2>3, <2>4
<1>7. CASE ~EnforceGroupExclusivity(r) /\ ~EnforceLRULimit(r)
  <2>1. targets' = targets /\ (pc[r] \in StopSteps => targets[r] = {})
    BY <1>7
    DEF RequestStep, EnforceStep, LoadStep, CallStep, CountLoads,
        EnforceDone, EnforceRetry, EnforceGivesUp, Enforced, LoadFound, StartProcess,
        StartProcessFails, BeginLoadModel, EndLoadModel, Publish, LoadFails, Start,
        UpdateLastUsed, BeginCall, EndCall, StopSteps
  <2>2. \A t \in Threads : pc[t] \in StopSteps /\ targets[t] # {} =>
            pc'[t] = pc[t] /\ targets'[t] = targets[t]
    BY <1>2, <2>1
  <2>3. model[r] \in Models \/ ~(StartProcess(r) \/ StartProcessFails(r) \/ Publish(r))
    BY DEF StartProcess, StartProcessFails, Publish, Typed, ThreadTyped, Loads, LoadSteps
  <2>4. \A a \in Tracked : addressModelMap'[a] # NoModel
    <3>1. CASE StartProcess(r) \/ StartProcessFails(r)
      BY <1>1, <2>3, <3>1 DEF StartProcess, StartProcessFails, Tracked
    <3>2. CASE ~(StartProcess(r) \/ StartProcessFails(r))
      <4>1. addressModelMap' = addressModelMap
        BY <1>7, <3>2
        DEF RequestStep, EnforceStep, LoadStep, CallStep, CountLoads, EnforceDone, EnforceRetry,
            EnforceGivesUp, LoadFound, BeginLoadModel, EndLoadModel, Publish, LoadFails, Start,
            UpdateLastUsed, BeginCall, EndCall, BeginRequest, FinishRequest
      <4> QED
        BY <4>1 DEF Tracked
    <3> QED
      BY <3>1, <3>2
  <2>5. CASE Keeps
    BY <2>2, <2>4, <2>5, CoveredKept DEF Keeps
  <2>6. CASE StartProcess(r)
    <3>1. \A u \in Requests : LoadingNext(u) =>
              \/ Loading(u) /\ client'[u] = client[u] /\ model'[u] = model[u]
              \/ client'[u] \in Address /\ addressModelMap'[client'[u]] # NoModel
      <4>1. \A u \in Requests : u # r /\ LoadingNext(u) =>
                Loading(u) /\ client'[u] = client[u] /\ model'[u] = model[u]
        BY <1>1, <2>6, Constants DEF StartProcess, Goto, LoadingNext, Loading
      <4>2. client'[r] \in Address /\ addressModelMap'[client'[r]] # NoModel
        <5>1. addresses + 1 \in Address
          BY <2>6, NextIsNew DEF StartProcess
        <5> QED
          BY <1>1, <2>3, <2>6, <5>1 DEF StartProcess
      <4> QED
        BY <4>1, <4>2
    <3> QED
      BY <2>2, <2>4, <2>6, <3>1, CoveredKept DEF StartProcess
  <2>7. CASE StartProcessFails(r) \/ Publish(r)
    <3>1. \A u \in Requests : LoadingNext(u) =>
              Loading(u) /\ client'[u] = client[u] /\ model'[u] = model[u]
      BY <1>1, <2>7, Constants DEF StartProcessFails, Publish, Goto, LoadingNext, Loading
    <3>2. \A m \in Models :
              \/ running'[m] \in {running[m], NoAddress}
              \/ \E u \in Requests : Loading(u) /\ model[u] = m /\ client[u] = running'[m]
      BY <1>1, <2>7 DEF StartProcessFails, Publish, Loading
    <3> QED
      BY <2>2, <2>4, <3>1, <3>2, CoveredKept
  <2> QED
    BY <2>5, <2>6, <2>7, RequestKeeps
<1> QED
  BY <1>5, <1>6, <1>7

LEMMA StepCovered ==
    ASSUME Typed, Places, Eligible, Selected, Covered, ~DeadlinesExpire, Step
    PROVE  Covered'
<1> USE DEF trackVars, loaderVars
<1>1. CASE \E r \in Requests : RequestStep(r)
  BY <1>1, RequestCovered
<1>2. CASE \A r \in Requests : ~RequestStep(r)
  <2>1. /\ pc \in [Threads -> PC] /\ targets \in [Threads -> SUBSET Target] /\ WD \in Threads
        /\ running \in [Models -> Address \cup {NoAddress}]
        /\ addressModelMap \in [Address -> Models \cup {NoModel}]
    BY Constants DEF Typed, ThreadTyped, LoaderTyped, TrackTyped
  <2>2. Keeps /\ RunMoves
    BY <1>2, OthersKeep, OthersMove
  <2>3. /\ \A u \in Threads : u # WD => pc'[u] = pc[u]
        /\ \A r \in Requests : LoadingNext(r) =>
               Loading(r) /\ client'[r] = client[r] /\ model'[r] = model[r]
    BY <2>1, <2>2, StillLoading DEF RunMoves
  <2>4. ASSUME addressModelMap' = addressModelMap,
               \A t \in Threads : pc[t] \in StopSteps /\ targets[t] # {} =>
                   pc'[t] = pc[t] /\ targets'[t] = targets[t]
        PROVE  Covered'
    BY <2>2, <2>4, CoveredKept DEF Keeps, Tracked
  <2>5. ASSUME NEW t \in Threads, NEW x \in Target, x \in targets[t],
               ShutdownTarget(t, x) \/ ShutdownTargetFails(t, x)
        PROVE  Covered'
    <3>1. ShutdownTarget(t, x)
      BY <2>5 DEF ShutdownTargetFails, OutOfTime
    <3>2. /\ pc' = pc /\ targets' = [targets EXCEPT ![t] = targets[t] \ {x}]
          /\ UNCHANGED <<model, client>>
          /\ (Stoppable(x) /\ Stop(x)) \/ (NotFound(x) /\ UNCHANGED <<loaderVars, trackVars>>)
      BY <3>1 DEF ShutdownTarget
    <3>3. /\ x.model \in Models /\ x.model \notin loading
          /\ running'[x.model] = NoAddress
          /\ \A m \in Models : m # x.model => running'[m] = running[m]
          /\ addressModelMap' = addressModelMap
      BY <2>1, <3>2 DEF Target, Stoppable, NotFound, Stop, ShortRequest
    <3>4. ASSUME NEW m, m # x.model, Doomed(m)
          PROVE  DoomedNext(m)
      <4>1. PICK u \in Threads : pc[u] \in StopSteps /\ \E y \in targets[u] : y.model = m
        BY <3>4 DEF Doomed
      <4>2. PICK y \in targets[u] : y.model = m
        BY <4>1
      <4>3. y # x
        BY <3>4, <4>2
      <4>4. y \in targets'[u]
        BY <2>1, <3>2, <4>2, <4>3
      <4> QED
        BY <3>2, <4>1, <4>2, <4>4 DEF DoomedNext
    <3>5. \A r \in Requests : Loading(r) => model[r] # x.model
      BY <3>3 DEF Places
    <3>6. \A m \in Models :
            running'[m] # NoAddress =>
                \/ running'[m] \in Address /\ addressModelMap'[running'[m]] # NoModel
                \/ DoomedNext(m)
      BY <3>3, <3>4 DEF Covered, Tracked
    <3>7. \A r \in Requests :
            LoadingNext(r) =>
                \/ client'[r] \in Address /\ addressModelMap'[client'[r]] # NoModel
                \/ DoomedNext(model'[r])
      BY <2>3, <3>3, <3>4, <3>5 DEF Covered, Tracked
    <3> QED
      BY <3>6, <3>7, CoveredPrimed DEF CoveredNext
  <2>6. ASSUME NEW A, NEW b,
               Untrack(A), pc[WD] = "tick", pc'[WD] \in StopSteps, running' = running,
               targets' = [targets EXCEPT ![WD] =
                   {[address |-> a, model |-> addressModelMap[a], wasBusy |-> b] :
                       a \in A \cap Tracked}]
        PROVE  Covered'
    <3>1. \A a \in A \cap Tracked : \E x \in targets'[WD] : x.model = addressModelMap[a]
      <4>1. targets'[WD] = {[address |-> a, model |-> addressModelMap[a], wasBusy |-> b] :
                               a \in A \cap Tracked}
        BY <2>1, <2>6
      <4>2. ASSUME NEW a \in A \cap Tracked
            PROVE  \E x \in targets'[WD] : x.model = addressModelMap[a]
        <5> DEFINE x == [address |-> a, model |-> addressModelMap[a], wasBusy |-> b]
        <5>1. x \in targets'[WD] /\ x.model = addressModelMap[a]
          BY <4>1
        <5> QED
          BY <5>1
      <4> QED
        BY <4>2
    <3>2. pc[WD] \notin StopSteps /\ \A u \in Threads : u # WD => targets'[u] = targets[u]
      BY <2>1, <2>6 DEF StopSteps
    <3> QED
      BY <2>1, <2>3, <2>6, <3>1, <3>2, CoveredTaken
  <2>7. CASE CheckBusy \/ CheckIdle
    <3>1. pc'[WD] \in StopSteps /\ running' = running /\ pc[WD] = "tick"
      BY <2>1, <2>7 DEF CheckBusy, CheckIdle, Goto, StopSteps
    <3>2. CASE CheckBusy
      <4> DEFINE A == {a \in Address : busyTime[a] \in overdue}
      <4>1. /\ Untrack(A)
            /\ targets' = [targets EXCEPT ![WD] =
                   {[address |-> a, model |-> addressModelMap[a], wasBusy |-> TRUE] :
                       a \in A \cap Tracked}]
        BY <3>2 DEF CheckBusy
      <4> HIDE DEF A
      <4> QED
        BY <2>6, <3>1, <4>1
    <3>3. CASE CheckIdle
      <4> DEFINE A == {a \in Address : idleTime[a] = "long" /\ addressModelMap[a] \notin Pinned}
      <4>1. /\ Untrack(A)
            /\ targets' = [targets EXCEPT ![WD] =
                   {[address |-> a, model |-> addressModelMap[a], wasBusy |-> FALSE] :
                       a \in A \cap Tracked}]
        BY <3>3 DEF CheckIdle
      <4> HIDE DEF A
      <4> QED
        BY <2>6, <3>1, <4>1
    <3> QED
      BY <2>7, <3>2, <3>3
  <2>8. CASE EvictLRUModelUntracks
    <3>1. /\ pc[WD] = "untrack" /\ pc'[WD] = "tick" /\ running' = running
          /\ Untrack({x.address : x \in targets[WD]})
          /\ \A u \in Threads : u # WD => targets'[u] = targets[u]
      BY <2>1, <2>8 DEF EvictLRUModelUntracks, Goto
    <3>2. \A m : Doomed(m) => DoomedNext(m)
      BY <2>3, <3>1 DEF Doomed, DoomedNext, StopSteps
    <3>3. \A a \in Tracked : (\A x \in targets[WD] : x.address # a) =>
              a \in Address /\ addressModelMap'[a] # NoModel
      BY <3>1 DEF Tracked, Untrack
    <3>4. \A m \in Models :
            running'[m] # NoAddress =>
                \/ running'[m] \in Address /\ addressModelMap'[running'[m]] # NoModel
                \/ DoomedNext(m)
      BY <3>1, <3>2, <3>3 DEF Covered, Selected
    <3>5. \A r \in Requests :
            LoadingNext(r) =>
                \/ client'[r] \in Address /\ addressModelMap'[client'[r]] # NoModel
                \/ DoomedNext(model'[r])
      BY <2>3, <3>1, <3>2, <3>3 DEF Covered, Selected
    <3> QED
      BY <3>4, <3>5, CoveredPrimed DEF CoveredNext
  <2>9. CASE EvictLRUModel \/ EvictLRUModelFails \/ CheckDone
    <3>1. /\ addressModelMap' = addressModelMap
          /\ pc[WD] \in StopSteps => targets[WD] = {}
          /\ \A u \in Threads : u # WD => targets'[u] = targets[u]
      BY <2>1, <2>9 DEF EvictLRUModel, EvictLRUModelFails, CheckDone, StopSteps
    <3> QED
      BY <2>3, <2>4, <3>1
  <2>10. CASE EvictLRUModelStops
    <3>1. /\ addressModelMap' = addressModelMap /\ targets' = targets /\ pc[WD] \notin StopSteps
      BY <2>10 DEF EvictLRUModelStops, Stop, ShortRequest, StopSteps
    <3> QED
      BY <2>3, <2>4, <3>1
  <2>11. CASE Outside
    <3>1. addressModelMap' = addressModelMap /\ targets' = targets /\ pc' = pc
      BY <2>11 DEF Outside, IdleTimeout, BusyTimeout, Unload, ShortRequest
    <3> QED
      BY <2>4, <3>1
  <2> QED
    BY <1>2, <2>5, <2>7, <2>8, <2>9, <2>10, <2>11 DEF Step, RunStep
<1> QED
  BY <1>1, <1>2

-----------------------------------------------------------------------------
(***************************************************************************)
(* The invariants of every run.                                            *)
(***************************************************************************)
IInv == Typed /\ Marks /\ Places /\ Eligible /\ Selected

LEMMA InitInvariant == Init => IInv /\ Covered
<1> SUFFICES ASSUME Init PROVE IInv /\ Covered
  OBVIOUS
<1>1. Typed
  BY InitTyped
<1>2. /\ addressModelMap = [a \in Address |-> NoModel]
      /\ requestStarts = [a \in Address |-> <<>>] /\ busyTime = [a \in Address |-> NoCall]
      /\ running = [m \in Models |-> NoAddress] /\ addresses = 0
      /\ targets = [t \in Threads |-> {}]
      /\ pc[WD] = "tick" /\ \A r \in Requests : pc[r] = "start"
  BY Constants DEF Init
<1>3. Marks
  <2>1. \A a \in Address : requestStarts[a] = <<>> /\ busyTime[a] = NoCall
    BY <1>2
  <2>2. Len(<<>>) = 0 /\ \A i \in 1..0 : FALSE
    OBVIOUS
  <2> QED
    BY <2>1, <2>2 DEF Marks, MarksOf, Active, Distinct
<1>4. Places
  BY <1>2 DEF Places, Loading, Tracked, NoAddress
<1>5. Eligible /\ Selected
  BY <1>2 DEF Eligible, Selected
<1>6. Covered
  BY <1>2 DEF Covered, Loading
<1> QED
  BY <1>1, <1>3, <1>4, <1>5, <1>6 DEF IInv

LEMMA StutterInvariant ==
    ASSUME UNCHANGED vars
    PROVE  /\ IInv => IInv'
           /\ Covered => Covered'
<1> USE DEF vars, trackVars, loaderVars, enforceVars
<1>1. Typed => Typed'
  BY DEF Typed, TrackTyped, LoaderTyped, ThreadTyped, Loads, Loading
<1>2. Marks => Marks'
  BY DEF Marks, MarksOf, Active, Distinct
<1>3. Places => Places'
  BY DEF Places, Loading, Tracked
<1>4. (Eligible => Eligible') /\ (Selected => Selected')
  BY DEF Eligible, Selected, Loading
<1>5. Covered => Covered'
  BY DEF Covered, Doomed, Loading, Tracked
<1> QED
  BY <1>1, <1>2, <1>3, <1>4, <1>5 DEF IInv

LEMMA NextInvariant ==
    ASSUME IInv, [Next]_vars
    PROVE  IInv'
<1>1. CASE Next
  <2>1. Step
    BY <1>1, StepsOfNext DEF IInv
  <2> QED
    BY <2>1, StepTyped, StepMarks, StepPlaces, StepEligible, StepSelected DEF IInv
<1>2. CASE UNCHANGED vars
  BY <1>2, StutterInvariant
<1> QED
  BY <1>1, <1>2

LEMMA Invariant == Spec => []IInv
<1>1. Init => IInv
  BY InitInvariant
<1>2. IInv /\ [Next]_vars => IInv'
  BY NextInvariant
<1> QED
  BY <1>1, <1>2, PTL DEF Spec

-----------------------------------------------------------------------------
(***************************************************************************)
(* The tables of the watchdog and of the loader, the steps and the targets *)
(* of every thread have their types; a request is never at a step of Run,  *)
(* and one that loads or calls has the model and the address it needs.     *)
(***************************************************************************)
THEOREM TablesTyped == Spec => []Typed
<1>1. IInv => Typed
  BY DEF IInv
<1> QED
  BY <1>1, Invariant, PTL

(***************************************************************************)
(* beginRequestLocked, finishRequestLocked and untrack keep the busy mark  *)
(* of an address equal to the oldest call still active on it, and nothing  *)
(* that ended is active, whatever begins, ends or is evicted meanwhile.    *)
(***************************************************************************)
THEOREM MarksFollowCalls == Spec => []BusyMatchesCalls
<1>1. ASSUME IInv PROVE BusyMatchesCalls
  <2> SUFFICES ASSUME NEW a \in Address
               PROVE  /\ busyTime[a] = IF requestStarts[a] = <<>> THEN NoCall
                                       ELSE Head(requestStarts[a])
                      /\ \A c \in ToSet(requestStarts[a]) :
                           /\ client[c[1]] = a
                           /\ pc[c[1]] = IF c[2] = "infer" THEN "calling" ELSE "loadRPC"
                      /\ requestStarts[a] # <<>> => idleTime[a] = "none"
    BY DEF BusyMatchesCalls
  <2>1. requestStarts[a] \in Seq(Calls)
    BY <1>1 DEF IInv, Typed, TrackTyped
  <2>2. /\ busyTime[a] = IF requestStarts[a] = <<>> THEN NoCall ELSE requestStarts[a][1]
        /\ requestStarts[a] # <<>> => idleTime[a] = "none"
    BY <1>1 DEF IInv, Marks, MarksOf
  <2>3. ASSUME NEW i \in 1..Len(requestStarts[a])
        PROVE  /\ client[requestStarts[a][i][1]] = a
               /\ pc[requestStarts[a][i][1]] =
                      IF requestStarts[a][i][2] = "infer" THEN "calling" ELSE "loadRPC"
    BY <1>1, NotActive DEF IInv
  <2>4. DOMAIN requestStarts[a] = 1..Len(requestStarts[a])
    BY <2>1
  <2>5. \A c \in ToSet(requestStarts[a]) :
            /\ client[c[1]] = a
            /\ pc[c[1]] = IF c[2] = "infer" THEN "calling" ELSE "loadRPC"
    BY <2>3, <2>4 DEF ToSet
  <2>6. requestStarts[a] # <<>> => Head(requestStarts[a]) = requestStarts[a][1]
    BY <2>1
  <2> QED
    BY <2>2, <2>5, <2>6
<1>2. IInv => BusyMatchesCalls
  BY <1>1
<1> QED
  BY <1>2, Invariant, PTL

(***************************************************************************)
(* collectEvictionsLocked, checkIdle and evictLRUModel never select a      *)
(* pinned model, nor a busy one without forceEvictionWhenBusy, and what    *)
(* they selected is what shutdownEvicted stops.                            *)
(***************************************************************************)
THEOREM PinnedAndBusyAreSpared == Spec => []EvictsOnlyEligible
<1>1. IInv => EvictsOnlyEligible
  BY DEF IInv, Eligible, EvictsOnlyEligible
<1> QED
  BY <1>1, Invariant, PTL

(***************************************************************************)
(* As long as no shutdown runs out of time, a loaded model is tracked or   *)
(* about to be stopped: an untrack before the shutdown, a load of the same *)
(* name and the late untrack of evictLRUModel lose no process.             *)
(***************************************************************************)
THEOREM NoModelEscapes ==
    ASSUME ~DeadlinesExpire
    PROVE  Spec => []NothingEscapes
<1>1. Init => IInv /\ Covered
  BY InitInvariant
<1>2. IInv /\ Covered /\ [Next]_vars => IInv' /\ Covered'
  <2> SUFFICES ASSUME IInv, Covered, [Next]_vars PROVE IInv' /\ Covered'
    OBVIOUS
  <2>1. CASE Next
    <3>1. Step
      BY <2>1, StepsOfNext DEF IInv
    <3>2. Covered'
      BY <3>1, StepCovered DEF IInv
    <3> QED
      BY <3>2, NextInvariant
  <2>2. CASE UNCHANGED vars
    BY <2>2, StutterInvariant
  <2> QED
    BY <2>1, <2>2
<1>3. Covered => NothingEscapes
  BY DEF Covered, Doomed, NothingEscapes
<1> QED
  BY <1>1, <1>2, <1>3, PTL DEF Spec

-----------------------------------------------------------------------------
(***************************************************************************)
(* Loads one after the other.  The enforcement of the limit and of the     *)
(* groups decides from what the watchdog tracks; while nobody is about to  *)
(* stop a model, that is every loaded model.                               *)
(***************************************************************************)

\* Loads follow one another, and no check of Run that untracks early runs beside them.
OneLoads ==
    /\ \A r, u \in Requests : Loads(r) /\ Loads(u) => r = u
    /\ pc[WD] \notin {"busyStop", "idleStop"}

LoadsNext(r) == pc'[r] \in EnforceSteps \cup LoadSteps

LEMMA OneLoadsPrimed ==
    OneLoads' <=>
        /\ \A r, u \in Requests : LoadsNext(r) /\ LoadsNext(u) => r = u
        /\ pc'[WD] \notin {"busyStop", "idleStop"}
BY DEF OneLoads, Loads, LoadsNext, EnforceSteps, LoadSteps

LEMMA StepOneLoads ==
    ASSUME Typed, OneLoads, Step, SerialLoads, ~BusyCheck, ~IdleCheck
    PROVE  OneLoads'
<1>1. pc \in [Threads -> PC] /\ WD \in Threads /\ Requests \subseteq Threads /\ WD \notin Requests
  BY Constants DEF Typed, ThreadTyped
<1>2. CASE \E r \in Requests : RequestStep(r)
  <2>1. PICK r \in Requests : RequestStep(r)
    BY <1>2
  <2>2. /\ \A t \in Threads : t # r => pc'[t] = pc[t]
    BY <1>1, <2>1, RequestMoves DEF Moves
  <2>3. CASE Start(r)
    <3>1. LoadsNext(r) => \A u \in Requests : ~Loads(u)
      BY <1>1, <2>3 DEF Start, Goto, LoadsNext, EnforceSteps, LoadSteps
    <3> QED
      BY <1>1, <2>2, <3>1, OneLoadsPrimed DEF OneLoads, Loads, LoadsNext
  <2>4. CASE ~Start(r)
    <3>1. LoadsNext(r) => Loads(r)
      BY <1>1, <2>1, <2>4
      DEF RequestStep, EnforceStep, LoadStep, CallStep, EnforceGroupExclusivity, CountLoads,
          EnforceLRULimit, EnforceDone, EnforceRetry, EnforceGivesUp, Enforced, LoadFound,
          StartProcess, StartProcessFails, BeginLoadModel, EndLoadModel, Publish, LoadFails,
          UpdateLastUsed, BeginCall, EndCall, Goto, Loads, LoadsNext, EnforceSteps, LoadSteps
    <3> QED
      BY <1>1, <2>2, <3>1, OneLoadsPrimed DEF OneLoads, Loads, LoadsNext
  <2> QED
    BY <2>3, <2>4
<1>3. CASE \A r \in Requests : ~RequestStep(r)
  <2>1. \A r \in Requests : pc'[r] = pc[r]
    BY <1>1, <1>3, OthersMove DEF RunMoves
  <2>2. pc'[WD] \notin {"busyStop", "idleStop"}
    BY <1>1, <1>3
    DEF OneLoads, Step, RunStep, CheckBusy, CheckIdle, CheckDone, EvictLRUModel,
        EvictLRUModelStops, EvictLRUModelUntracks, EvictLRUModelFails, ShutdownTarget,
        ShutdownTargetFails, Outside, IdleTimeout, BusyTimeout, Unload, Goto
  <2> QED
    BY <2>1, <2>2, OneLoadsPrimed DEF OneLoads, Loads, LoadsNext
<1> QED
  BY <1>2, <1>3

\* A request at a step of a load is the only one, and nobody else loads or publishes.
LEMMA NobodyElse ==
    ASSUME Typed, Places, OneLoads, Step, NEW r \in Requests, Loads(r), ~RequestStep(r)
    PROVE  Keeps /\ \A u \in Requests : ~Publish(u)
<1>1. \A u \in Requests : StartProcess(u) \/ StartProcessFails(u) \/ Publish(u) => Loads(u)
  BY DEF StartProcess, StartProcessFails, Publish, Loads, LoadSteps
<1>2. \A u \in Requests : StartProcess(u) \/ StartProcessFails(u) \/ Publish(u) => RequestStep(u)
  BY DEF RequestStep, LoadStep
<1> QED
  BY <1>1, <1>2, StepKinds DEF OneLoads

\* A request that does not move keeps what it decided.
LEMMA Unmoved ==
    ASSUME Typed, Step, NEW r \in Requests, ~RequestStep(r)
    PROVE  pc'[r] = pc[r] /\ model'[r] = model[r] /\ needMore'[r] = needMore[r]
<1>1. /\ pc \in [Threads -> PC] /\ model \in [Requests -> Models \cup {NoModel}]
      /\ needMore \in [Requests -> BOOLEAN] /\ r \in Threads /\ r # WD
  BY Constants DEF Typed, ThreadTyped, LoaderTyped
<1>2. CASE \E u \in Requests : RequestStep(u)
  <2>1. PICK u \in Requests : RequestStep(u)
    BY <1>2
  <2>2. u # r
    BY <2>1
  <2>3. pc'[r] = pc[r] /\ model'[r] = model[r]
    BY <1>1, <2>1, <2>2, RequestMoves DEF Moves
  <2>4. needMore'[r] = needMore[r]
    BY <1>1, <2>1, <2>2
    DEF RequestStep, EnforceStep, LoadStep, CallStep, EnforceGroupExclusivity, CountLoads,
        EnforceLRULimit, EnforceDone, EnforceRetry, EnforceGivesUp, LoadFound,
        StartProcess, StartProcessFails, BeginLoadModel, EndLoadModel, Publish, LoadFails,
        Start, UpdateLastUsed, BeginCall, EndCall, enforceVars
  <2> QED
    BY <2>3, <2>4
<1>3. CASE \A u \in Requests : ~RequestStep(u)
  <2>1. pc'[r] = pc[r] /\ model' = model
    BY <1>1, <1>3, OthersMove DEF RunMoves
  <2>2. needMore' = needMore
    BY <1>3
    DEF Step, RunStep, CheckBusy, CheckIdle, CheckDone, EvictLRUModel,
        EvictLRUModelStops, EvictLRUModelUntracks, EvictLRUModelFails, ShutdownTarget,
        ShutdownTargetFails, Outside, IdleTimeout, BusyTimeout, Unload, enforceVars
  <2> QED
    BY <2>1, <2>2
<1> QED
  BY <1>2, <1>3

LEMMA GaveUpStays ==
    ASSUME Step, gaveUp
    PROVE  gaveUp'
BY DEF Step, RequestStep, EnforceStep, LoadStep, CallStep, EnforceGroupExclusivity, CountLoads,
       EnforceLRULimit, EnforceDone, EnforceRetry, EnforceGivesUp, LoadFound,
       StartProcess, StartProcessFails, BeginLoadModel, EndLoadModel, Publish, LoadFails,
       Start, UpdateLastUsed, BeginCall, EndCall, enforceVars,
       RunStep, CheckBusy, CheckIdle, CheckDone, EvictLRUModel,
       EvictLRUModelStops, EvictLRUModelUntracks, EvictLRUModelFails, ShutdownTarget,
       ShutdownTargetFails, Outside, IdleTimeout, BusyTimeout, Unload

\* Only a publication adds a loaded model.
LEMMA LoadedShrinks ==
    ASSUME Typed, Places, Step, \A u \in Requests : ~Publish(u)
    PROVE  Loaded' \subseteq Loaded
<1>1. CASE Keeps
  BY <1>1 DEF Keeps, Loaded
<1>2. CASE \E r \in Requests : StartProcess(r) \/ StartProcessFails(r)
  <2>1. running' = running
    BY <1>2 DEF StartProcess, StartProcessFails
  <2> QED
    BY <2>1 DEF Loaded
<1> QED
  BY <1>1, <1>2, StepKinds

LEMMA LoadedPublished ==
    ASSUME Typed, NEW r \in Requests, Publish(r)
    PROVE  Loaded' \subseteq Loaded \cup {model[r]}
<1>1. /\ running' = [running EXCEPT ![model[r]] = client[r]]
      /\ running \in [Models -> Address \cup {NoAddress}]
  BY DEF Publish, Typed, LoaderTyped
<1> QED
  BY <1>1 DEF Loaded

\* When its shutdowns are over, nobody is about to stop a model.
LEMMA NobodyDoomed ==
    ASSUME Typed, OneLoads, Eligible, NEW r \in Requests, Enforced(r)
    PROVE  \A m : ~Doomed(m)
<1> SUFFICES ASSUME NEW t \in Threads, pc[t] \in StopSteps, targets[t] # {}
             PROVE  FALSE
  BY DEF Doomed
<1>1. pc[r] \in {"groupsStop", "lruStop"} /\ targets[r] = {}
  BY DEF Enforced
<1>2. CASE t = WD
  BY <1>2 DEF Typed, ThreadTyped, RunSteps, OneLoads, StopSteps
<1>3. CASE t \in Requests
  <2>1. pc[t] \in {"groupsStop", "lruStop"}
    BY <1>3 DEF Typed, ThreadTyped, RequestSteps, EnforceSteps, LoadSteps, StopSteps
  <2>2. Loads(t) /\ Loads(r)
    BY <1>1, <2>1 DEF Loads, EnforceSteps
  <2> QED
    BY <1>1, <1>3, <2>2 DEF OneLoads
<1> QED
  BY <1>2, <1>3 DEF Threads

\* Then the watchdog has every loaded model under its name.
LEMMA AllTracked ==
    ASSUME Typed, Places, OneLoads, Eligible, Covered, NEW r \in Requests, Enforced(r)
    PROVE  \A m \in Loaded : running[m] \in Tracked /\ addressModelMap[running[m]] = m
BY NobodyDoomed DEF Covered, Places, Loaded

-----------------------------------------------------------------------------
(***************************************************************************)
(* The limit.                                                              *)
(***************************************************************************)
LEMMA Fewer ==
    ASSUME NEW S, NEW T, IsFiniteSet(T), S \subseteq T
    PROVE  /\ IsFiniteSet(S) /\ Cardinality(S) \in Nat /\ Cardinality(T) \in Nat
           /\ Cardinality(S) <= Cardinality(T)
BY FS_Subset, FS_CardinalityType

LEMMA FiniteTables ==
    /\ IsFiniteSet(Loaded) /\ Cardinality(Loaded) \in Nat
    /\ IsFiniteSet(Tracked) /\ Cardinality(Tracked) \in Nat
<1>1. Loaded \subseteq Models /\ Tracked \subseteq Address
  BY DEF Loaded, Tracked
<1> QED
  BY <1>1, Constants, FS_Subset, FS_CardinalityType

\* What the last enforcement left of the tracked models.
Room == Cardinality(Tracked) < LRULimit \/ \A a \in Tracked : addressModelMap[a] \in Pinned

Limited ==
    /\ \A r \in Requests :
        /\ pc[r] = "lruStop" /\ ~needMore[r] => Room
        /\ pc[r] \in LoadSteps => Cardinality(Loaded) < LRULimit \/ gaveUp
    /\ LimitKept

LimitedNext ==
    /\ \A r \in Requests :
        /\ pc'[r] = "lruStop" /\ ~needMore'[r] => Room'
        /\ pc'[r] \in LoadSteps => Cardinality(Loaded') < LRULimit \/ gaveUp'
    /\ LRULimit > 0 => Cardinality(Loaded') <= LRULimit \/ gaveUp'

LEMMA LimitedPrimed == Limited' <=> LimitedNext
BY DEF Limited, LimitedNext, LimitKept, LoadSteps

LEMMA RoomKept ==
    ASSUME Typed, Keeps, Room
    PROVE  Room'
<1>1. Tracked' \subseteq Tracked /\ \A a \in Tracked' : addressModelMap'[a] = addressModelMap[a]
  BY DEF Keeps, Tracked
<1>2. CASE Cardinality(Tracked) < LRULimit
  <2>1. Cardinality(Tracked') <= Cardinality(Tracked) /\ Cardinality(Tracked') \in Nat
    BY <1>1, FiniteTables, Fewer
  <2>2. Cardinality(Tracked') < LRULimit
    BY <1>2, <2>1, FiniteTables, Constants
  <2> QED
    BY <2>2 DEF Room
<1>3. CASE \A a \in Tracked : addressModelMap[a] \in Pinned
  BY <1>1, <1>3 DEF Room
<1> QED
  BY <1>2, <1>3 DEF Room

\* An attempt that needs no other leaves room, or nothing it may evict.
LEMMA RoomMade ==
    ASSUME Typed, NEW r \in Requests, EnforceLRULimit(r), ~needMore'[r], LRULimit > 0
    PROVE  Room'
<1> DEFINE max == IF LRULimit = 0 THEN 0 ELSE Max({0, ToEvict(r)})
           more(E) == /\ Cardinality(E) < max
                      /\ \E a \in Tracked : addressModelMap[a] \notin Pinned /\ Skipped(a)
<1>1. PICK E \in Evictions(Tracked, max) :
          /\ needMore' = [needMore EXCEPT ![r] = more(E)]
          /\ Untrack(E)
  BY DEF EnforceLRULimit
<1>2. ToEvict(r) \in Int /\ ToEvict(r) = Cardinality(Tracked) - LRULimit + pending[r] + 1
      /\ pending[r] \in Nat
  BY FiniteTables, Constants DEF ToEvict, Typed, LoaderTyped
<1>3. max = IF 0 >= ToEvict(r) THEN 0 ELSE ToEvict(r)
  BY <1>2, MaxOfTwo, Constants
<1>4. max \in Nat
  BY <1>2, <1>3
<1>5. ~more(E)
  <2>1. needMore \in [Requests -> BOOLEAN]
    BY DEF Typed, LoaderTyped
  <2> HIDE DEF more
  <2>2. needMore'[r] = more(E)
    BY <1>1, <2>1
  <2> QED
    BY <2>2
<1>6. Tracked \in SUBSET Address
  BY DEF Tracked
<1> HIDE DEF max
<1>7. /\ IsFiniteSet(E) /\ Cardinality(E) \in Nat /\ Cardinality(E) <= max
      /\ Cardinality(E) < max => \A a \in Tracked \ E : Skipped(a)
  BY <1>4, <1>6, EvictionsNumber
<1>8. E \subseteq Tracked
  BY <1>6, EvictionsSelect
<1>9. Tracked' = Tracked \ E /\ \A a \in Tracked' : addressModelMap'[a] = addressModelMap[a]
  BY <1>1, <1>8 DEF Untrack, Tracked
<1>10. CASE Cardinality(E) < max
  BY <1>5, <1>7, <1>9, <1>10 DEF Room
<1>11. CASE Cardinality(E) = max
  <2>1. Cardinality(Tracked \ E) = Cardinality(Tracked) - Cardinality(E)
    <3>1. Tracked \cap E = E
      BY <1>8
    <3> QED
      BY <3>1, FiniteTables, FS_Difference
  <2>2. Cardinality(Tracked') < LRULimit
    BY <1>2, <1>3, <1>9, <1>11, <2>1, FiniteTables, Constants
  <2> QED
    BY <2>2 DEF Room
<1> QED
  BY <1>7, <1>10, <1>11, <1>4

\* With room, and nobody about to stop a model, fewer models than the limit are loaded.
LEMMA RoomIsRoom ==
    ASSUME Typed, Places, OneLoads, Eligible, Covered, Room, NEW r \in Requests, Enforced(r),
           Cardinality(Pinned) < LRULimit
    PROVE  Cardinality(Loaded) < LRULimit
<1>1. \A m \in Loaded : running[m] \in Tracked /\ addressModelMap[running[m]] = m
  BY AllTracked
<1>2. CASE Cardinality(Tracked) < LRULimit
  <2> DEFINE f == [m \in Loaded |-> running[m]]
  <2>1. f \in Injection(Loaded, Tracked)
    <3>1. f \in [Loaded -> Tracked]
      BY <1>1
    <3>2. \A m, n \in Loaded : f[m] = f[n] => m = n
      BY <1>1
    <3> QED
      BY <3>1, <3>2 DEF Injection, IsInjective
  <2> HIDE DEF f
  <2>2. Cardinality(Loaded) <= Cardinality(Tracked)
    BY <2>1, FiniteTables, FS_Injection
  <2> QED
    BY <1>2, <2>2, FiniteTables, Constants
<1>3. CASE \A a \in Tracked : addressModelMap[a] \in Pinned
  <2>1. Loaded \subseteq Pinned
    BY <1>1, <1>3
  <2>2. IsFiniteSet(Pinned)
    BY Constants, WatchDogAssumption, FS_Subset DEF WatchDogAssumption
  <2>3. Cardinality(Loaded) <= Cardinality(Pinned) /\ Cardinality(Pinned) \in Nat
    BY <2>1, <2>2, Fewer
  <2> QED
    BY <2>3, FiniteTables, Constants
<1> QED
  BY <1>2, <1>3 DEF Room

LEMMA StepLimited ==
    ASSUME Typed, Places, Eligible, Covered, OneLoads, Limited, Step,
           LRULimit > 0, Cardinality(Pinned) < LRULimit
    PROVE  Limited'
<1>1. pc \in [Threads -> PC] /\ Requests \subseteq Threads
  BY Constants DEF Typed, ThreadTyped
<1>2. (\A u \in Requests : ~Publish(u)) /\ Cardinality(Loaded) < LRULimit =>
          Cardinality(Loaded') < LRULimit
  <2>1. (\A u \in Requests : ~Publish(u)) => Cardinality(Loaded') <= Cardinality(Loaded)
                                             /\ Cardinality(Loaded') \in Nat
    BY LoadedShrinks, FiniteTables, Fewer
  <2> QED
    BY <2>1, FiniteTables, Constants
<1>3. ASSUME NEW r \in Requests, pc'[r] = "lruStop", ~needMore'[r]
      PROVE  Room'
  <2>1. CASE RequestStep(r)
    <3>1. EnforceLRULimit(r)
      BY <1>1, <1>3, <2>1
      DEF RequestStep, EnforceStep, LoadStep, CallStep, EnforceGroupExclusivity, CountLoads,
          EnforceDone, EnforceRetry, EnforceGivesUp, Enforce, AfterEnforce, LoadFound,
          StartProcess, StartProcessFails, BeginLoadModel, EndLoadModel, Publish, LoadFails,
          Start, UpdateLastUsed, BeginCall, EndCall, Goto
    <3> QED
      BY <1>3, <3>1, RoomMade
  <2>2. CASE ~RequestStep(r)
    <3>1. pc[r] = "lruStop" /\ ~needMore[r]
      BY <1>3, <2>2, Unmoved
    <3>2. Keeps
      BY <2>2, <3>1, NobodyElse DEF Loads, EnforceSteps
    <3> QED
      BY <3>1, <3>2, RoomKept DEF Limited
  <2> QED
    BY <2>1, <2>2
<1>4. ASSUME NEW r \in Requests, pc'[r] \in LoadSteps
      PROVE  Cardinality(Loaded') < LRULimit \/ gaveUp'
  <2>1. CASE RequestStep(r)
    <3>1. \/ pc[r] \in LoadSteps /\ (\A u \in Requests : ~Publish(u))
          \/ pc[r] = "lruStop" /\ (EnforceDone(r) \/ EnforceGivesUp(r))
      <4>1. \/ pc[r] \in LoadSteps /\ ~Publish(r)
            \/ pc[r] = "lruStop" /\ (EnforceDone(r) \/ EnforceGivesUp(r))
        BY <1>1, <1>4, <2>1
        DEF RequestStep, EnforceStep, LoadStep, CallStep, EnforceGroupExclusivity, CountLoads,
            EnforceDone, EnforceRetry, EnforceGivesUp, Enforce, AfterEnforce, LoadFound,
            StartProcess, StartProcessFails, BeginLoadModel, EndLoadModel, Publish, LoadFails,
            Start, UpdateLastUsed, BeginCall, EndCall, Goto, LoadSteps, EnforceLRULimit, Enforced
      <4>2. ASSUME pc[r] \in LoadSteps, NEW u \in Requests, Publish(u) PROVE u = r
        BY <4>2 DEF OneLoads, Loads, Publish, LoadSteps
      <4> QED
        BY <4>1, <4>2
    <3>2. CASE pc[r] \in LoadSteps /\ (\A u \in Requests : ~Publish(u))
      BY <1>2, <3>2, GaveUpStays DEF Limited
    <3>3. CASE pc[r] = "lruStop" /\ EnforceGivesUp(r)
      BY <3>3 DEF EnforceGivesUp
    <3>4. CASE pc[r] = "lruStop" /\ EnforceDone(r)
      <4>1. Room /\ Enforced(r) /\ running' = running
        BY <3>4 DEF Limited, EnforceDone, loaderVars
      <4>2. Cardinality(Loaded) < LRULimit
        BY <4>1, RoomIsRoom
      <4>3. Loaded' = Loaded
        BY <4>1 DEF Loaded
      <4> QED
        BY <4>2, <4>3
    <3> QED
      BY <3>1, <3>2, <3>3, <3>4
  <2>2. CASE ~RequestStep(r)
    <3>1. pc[r] \in LoadSteps
      BY <1>4, <2>2, Unmoved
    <3>2. \A u \in Requests : ~Publish(u)
      BY <2>2, <3>1, NobodyElse DEF Loads
    <3> QED
      BY <1>2, <3>1, <3>2, GaveUpStays DEF Limited
  <2> QED
    BY <2>1, <2>2
<1>5. Cardinality(Loaded') <= LRULimit \/ gaveUp'
  <2>1. CASE \A u \in Requests : ~Publish(u)
    <3>1. Cardinality(Loaded') <= Cardinality(Loaded) /\ Cardinality(Loaded') \in Nat
      BY <2>1, LoadedShrinks, FiniteTables, Fewer
    <3>2. Cardinality(Loaded) <= LRULimit \/ gaveUp
      BY DEF Limited, LimitKept
    <3> QED
      BY <3>1, <3>2, FiniteTables, Constants, GaveUpStays
  <2>2. ASSUME NEW r \in Requests, Publish(r)
        PROVE  Cardinality(Loaded') <= LRULimit \/ gaveUp'
    <3>1. Loaded' \subseteq Loaded \cup {model[r]}
      BY <2>2, LoadedPublished
    <3>2. /\ IsFiniteSet(Loaded \cup {model[r]})
          /\ Cardinality(Loaded \cup {model[r]}) <= Cardinality(Loaded) + 1
          /\ Cardinality(Loaded \cup {model[r]}) \in Nat
      BY FiniteTables, FS_AddElement
    <3>3. Cardinality(Loaded') <= Cardinality(Loaded) + 1 /\ Cardinality(Loaded') \in Nat
      <4>1. Cardinality(Loaded') <= Cardinality(Loaded \cup {model[r]})
            /\ Cardinality(Loaded') \in Nat
        BY <3>1, <3>2, Fewer
      <4> QED
        BY <3>2, <4>1, FiniteTables
    <3>4. Cardinality(Loaded) < LRULimit \/ gaveUp
      BY <2>2 DEF Limited, Publish, LoadSteps
    <3> QED
      BY <3>3, <3>4, FiniteTables, Constants, GaveUpStays
  <2> QED
    BY <2>1, <2>2
<1> QED
  BY <1>3, <1>4, <1>5, LimitedPrimed DEF LimitedNext

-----------------------------------------------------------------------------
(***************************************************************************)
(* The groups.                                                             *)
(***************************************************************************)

\* No model of a group of m is loaded, but m.
Apart(m) == \A n \in Loaded : n # m => Groups[n] \cap Groups[m] = {}

GroupsDone == {"count", "lru", "lruStop"} \cup LoadSteps

Separate ==
    /\ \A r \in Requests :
        /\ pc[r] = "groupsStop" /\ ~needMore[r] => Conflicts(model[r]) = {}
        /\ pc[r] \in GroupsDone => Apart(model[r]) \/ gaveUp
    /\ GroupsExclusive

ConflictsNext(m) ==
    {a \in Address :
        /\ addressModelMap'[a] # NoModel
        /\ addressModelMap'[a] # m
        /\ Groups[addressModelMap'[a]] \cap Groups[m] # {}}

ApartNext(m) == \A n \in Models : running'[n] # NoAddress /\ n # m => Groups[n] \cap Groups[m] = {}

SeparateNext ==
    /\ \A r \in Requests :
        /\ pc'[r] = "groupsStop" /\ ~needMore'[r] => ConflictsNext(model'[r]) = {}
        /\ pc'[r] \in GroupsDone => ApartNext(model'[r]) \/ gaveUp'
    /\ \A m, n \in Models :
        running'[m] # NoAddress /\ running'[n] # NoAddress /\ m # n
            /\ Groups[m] \cap Groups[n] # {} => gaveUp'

LEMMA SeparatePrimed == Separate' <=> SeparateNext
<1>1. \A r \in Requests : Conflicts(model[r])' = ConflictsNext(model'[r])
  BY DEF Conflicts, ConflictsNext, Tracked
<1>2. \A r \in Requests : Apart(model[r])' <=> ApartNext(model'[r])
  BY DEF Apart, ApartNext, Loaded
<1>3. GroupsExclusive' <=> \A m, n \in Models :
          running'[m] # NoAddress /\ running'[n] # NoAddress /\ m # n
              /\ Groups[m] \cap Groups[n] # {} => gaveUp'
  BY DEF GroupsExclusive, Loaded
<1> QED
  BY <1>1, <1>2, <1>3 DEF Separate, SeparateNext, GroupsDone, LoadSteps

\* Fewer models tracked, fewer conflicts; fewer loaded, as far apart.
LEMMA ConflictsKept ==
    ASSUME Typed, Keeps, NEW m, Conflicts(m) = {}
    PROVE  ConflictsNext(m) = {}
BY DEF Keeps, Conflicts, ConflictsNext, Tracked

LEMMA ApartKept ==
    ASSUME Typed, Places, Step, NEW m, Apart(m), \A u \in Requests : ~Publish(u)
    PROVE  ApartNext(m)
BY LoadedShrinks DEF Apart, ApartNext, Loaded

\* An attempt that needs no other leaves no conflict.
LEMMA ConflictsResolved ==
    ASSUME Typed, NEW r \in Requests, EnforceGroupExclusivity(r), ~needMore'[r]
    PROVE  ConflictsNext(model'[r]) = {}
<1>1. PICK E \in Evictions(Conflicts(model[r]), Cardinality(Conflicts(model[r]))) :
          /\ needMore' = [needMore EXCEPT ![r] = E # Conflicts(model[r])]
          /\ Untrack(E)
  BY DEF EnforceGroupExclusivity
<1>2. E = Conflicts(model[r])
  <2> DEFINE more == E # Conflicts(model[r])
  <2>1. needMore \in [Requests -> BOOLEAN]
    BY DEF Typed, LoaderTyped
  <2>2. needMore'[r] = more
    BY <1>1, <2>1
  <2> QED
    BY <2>2
<1>3. addressModelMap' = [a \in Address |-> IF a \in E THEN NoModel ELSE addressModelMap[a]]
  BY <1>1 DEF Untrack
<1>4. model' = model
  BY DEF EnforceGroupExclusivity
<1> QED
  BY <1>2, <1>3, <1>4 DEF Conflicts, ConflictsNext, Tracked

\* Without conflicts, and nobody about to stop a model, the loaded models are apart.
LEMMA NoConflictIsApart ==
    ASSUME Typed, Places, OneLoads, Eligible, Covered, NEW r \in Requests, Enforced(r),
           NEW m, Conflicts(m) = {}
    PROVE  Apart(m)
<1>1. \A n \in Loaded : running[n] \in Tracked /\ addressModelMap[running[n]] = n
  BY AllTracked
<1> QED
  BY <1>1 DEF Apart, Conflicts

LEMMA StepSeparate ==
    ASSUME Typed, Places, Eligible, Covered, OneLoads, Separate, Step
    PROVE  Separate'
<1>1. /\ pc \in [Threads -> PC] /\ Requests \subseteq Threads
      /\ model \in [Requests -> Models \cup {NoModel}]
  BY Constants DEF Typed, ThreadTyped
<1>2. ASSUME NEW r \in Requests, pc'[r] = "groupsStop", ~needMore'[r]
      PROVE  ConflictsNext(model'[r]) = {}
  <2>1. CASE RequestStep(r)
    <3>1. EnforceGroupExclusivity(r)
      BY <1>1, <1>2, <2>1
      DEF RequestStep, EnforceStep, LoadStep, CallStep, EnforceLRULimit, CountLoads,
          EnforceDone, EnforceRetry, EnforceGivesUp, Enforce, AfterEnforce, LoadFound,
          StartProcess, StartProcessFails, BeginLoadModel, EndLoadModel, Publish, LoadFails,
          Start, UpdateLastUsed, BeginCall, EndCall, Goto
    <3> QED
      BY <1>2, <3>1, ConflictsResolved
  <2>2. CASE ~RequestStep(r)
    <3>1. pc[r] = "groupsStop" /\ ~needMore[r] /\ model'[r] = model[r]
      BY <1>2, <2>2, Unmoved
    <3>2. Keeps
      BY <2>2, <3>1, NobodyElse DEF Loads, EnforceSteps
    <3> QED
      BY <3>1, <3>2, ConflictsKept DEF Separate
  <2> QED
    BY <2>1, <2>2
<1>3. ASSUME NEW r \in Requests, pc'[r] \in GroupsDone
      PROVE  ApartNext(model'[r]) \/ gaveUp'
  <2>1. CASE RequestStep(r)
    <3>1. model'[r] = model[r]
      BY <1>1, <1>3, <2>1
      DEF RequestStep, EnforceStep, LoadStep, CallStep, EnforceGroupExclusivity, CountLoads,
          EnforceLRULimit, EnforceDone, EnforceRetry, EnforceGivesUp, LoadFound,
          StartProcess, StartProcessFails, BeginLoadModel, EndLoadModel, Publish, LoadFails,
          Start, UpdateLastUsed, BeginCall, EndCall, Goto, GroupsDone, LoadSteps
    <3>2. \/ pc[r] \in GroupsDone /\ (\A u \in Requests : ~Publish(u))
          \/ pc[r] = "groupsStop" /\ (EnforceDone(r) \/ EnforceGivesUp(r))
      <4>1. \/ pc[r] \in GroupsDone /\ ~Publish(r)
            \/ pc[r] = "groupsStop" /\ (EnforceDone(r) \/ EnforceGivesUp(r))
        BY <1>1, <1>3, <2>1
        DEF RequestStep, EnforceStep, LoadStep, CallStep, EnforceGroupExclusivity, CountLoads,
            EnforceDone, EnforceRetry, EnforceGivesUp, Enforce, AfterEnforce, LoadFound,
            StartProcess, StartProcessFails, BeginLoadModel, EndLoadModel, Publish, LoadFails,
            Start, UpdateLastUsed, BeginCall, EndCall, Goto, GroupsDone, LoadSteps,
            EnforceLRULimit, Enforced
      <4>2. ASSUME pc[r] \in GroupsDone, NEW u \in Requests, Publish(u) PROVE u = r
        BY <4>2 DEF OneLoads, Loads, Publish, GroupsDone, LoadSteps, EnforceSteps
      <4> QED
        BY <4>1, <4>2
    <3>3. CASE pc[r] \in GroupsDone /\ (\A u \in Requests : ~Publish(u))
      BY <3>1, <3>3, ApartKept, GaveUpStays DEF Separate
    <3>4. CASE pc[r] = "groupsStop" /\ EnforceGivesUp(r)
      BY <3>4 DEF EnforceGivesUp
    <3>5. CASE pc[r] = "groupsStop" /\ EnforceDone(r)
      <4>1. Conflicts(model[r]) = {} /\ Enforced(r) /\ running' = running
        BY <3>5 DEF Separate, EnforceDone, loaderVars
      <4>2. Apart(model[r])
        BY <4>1, NoConflictIsApart
      <4> QED
        BY <3>1, <4>1, <4>2 DEF Apart, ApartNext, Loaded
    <3> QED
      BY <3>2, <3>3, <3>4, <3>5
  <2>2. CASE ~RequestStep(r)
    <3>1. pc[r] \in GroupsDone /\ model'[r] = model[r]
      BY <1>3, <2>2, Unmoved
    <3>2. \A u \in Requests : ~Publish(u)
      BY <2>2, <3>1, NobodyElse DEF Loads, GroupsDone, EnforceSteps
    <3> QED
      BY <3>1, <3>2, ApartKept, GaveUpStays DEF Separate
  <2> QED
    BY <2>1, <2>2
<1>4. ASSUME NEW m \in Models, NEW n \in Models, running'[m] # NoAddress, running'[n] # NoAddress,
             m # n, Groups[m] \cap Groups[n] # {}
      PROVE  gaveUp'
  <2>1. CASE \A u \in Requests : ~Publish(u)
    <3>1. m \in Loaded /\ n \in Loaded
      BY <1>4, <2>1, LoadedShrinks DEF Loaded
    <3> QED
      BY <1>4, <3>1, GaveUpStays DEF Separate, GroupsExclusive
  <2>2. ASSUME NEW r \in Requests, Publish(r)
        PROVE  gaveUp'
    <3>1. {m, n} \subseteq Loaded \cup {model[r]}
      BY <1>4, <2>2, LoadedPublished DEF Loaded
    <3>2. Apart(model[r]) \/ gaveUp
      BY <2>2 DEF Separate, Publish, GroupsDone, LoadSteps
    <3>3. gaveUp
      BY <1>4, <3>1, <3>2 DEF Apart, Separate, GroupsExclusive
    <3> QED
      BY <3>3, GaveUpStays
  <2> QED
    BY <2>1, <2>2
<1> QED
  BY <1>2, <1>3, <1>4, SeparatePrimed DEF SeparateNext

-----------------------------------------------------------------------------
(***************************************************************************)
(* What holds of loads that follow one another.                            *)
(***************************************************************************)
SerialInv == IInv /\ Covered /\ OneLoads

LEMMA SerialInvariance ==
    ASSUME SerialLoads, ~DeadlinesExpire, ~BusyCheck, ~IdleCheck
    PROVE  /\ Init => SerialInv
           /\ SerialInv /\ [Next]_vars => SerialInv'
<1>1. Init => OneLoads
  BY Constants DEF Init, OneLoads, Loads, EnforceSteps, LoadSteps
<1>2. ASSUME SerialInv, [Next]_vars PROVE SerialInv'
  <2>1. IInv'
    BY <1>2, NextInvariant DEF SerialInv
  <2>2. CASE Next
    <3>1. Step
      BY <1>2, <2>2, StepsOfNext DEF SerialInv, IInv
    <3> QED
      BY <1>2, <2>1, <3>1, StepCovered, StepOneLoads DEF SerialInv, IInv
  <2>3. CASE UNCHANGED vars
    <3>1. OneLoads'
      BY <1>2, <2>3 DEF SerialInv, OneLoads, Loads, vars
    <3> QED
      BY <1>2, <2>1, <2>3, <3>1, StutterInvariant DEF SerialInv
  <2> QED
    BY <1>2, <2>2, <2>3
<1> QED
  BY <1>1, <1>2, InitInvariant DEF SerialInv

(***************************************************************************)
(* enforceLRULimit, retryEnforce and collectEvictionsLocked keep the limit *)
(* of --max-active-backends, as long as loads follow one another, nothing  *)
(* is untracked before it stops, and fewer models are pinned than the      *)
(* limit allows: what is over the limit is over it because an enforcement  *)
(* gave up on busy models.                                                 *)
(***************************************************************************)
THEOREM LimitHolds ==
    ASSUME SerialLoads, ~DeadlinesExpire, ~BusyCheck, ~IdleCheck,
           LRULimit > 0 => Cardinality(Pinned) < LRULimit
    PROVE  Spec => []LimitKept
<1>1. CASE LRULimit > 0
  <2>1. Init => SerialInv /\ Limited
    <3>1. ASSUME Init PROVE Limited
      <4>1. Loaded = {} /\ \A r \in Requests : pc[r] = "start"
        BY <3>1, Constants DEF Init, Loaded
      <4> QED
        BY <1>1, <4>1, FS_EmptySet, Constants DEF Limited, LimitKept, LoadSteps
    <3> QED
      BY <3>1, SerialInvariance
  <2>2. SerialInv /\ Limited /\ [Next]_vars => SerialInv' /\ Limited'
    <3> SUFFICES ASSUME SerialInv, Limited, [Next]_vars PROVE Limited'
      BY SerialInvariance
    <3>1. CASE Next
      <4>1. Step
        BY <3>1, StepsOfNext DEF SerialInv, IInv
      <4> QED
        BY <1>1, <4>1, StepLimited DEF SerialInv, IInv
    <3>2. CASE UNCHANGED vars
      BY <3>2 DEF Limited, LimitKept, Room, Loaded, Tracked, vars, trackVars, loaderVars,
                      enforceVars
    <3> QED
      BY <3>1, <3>2
  <2>3. Limited => LimitKept
    BY DEF Limited
  <2> QED
    BY <2>1, <2>2, <2>3, PTL DEF Spec
<1>2. CASE ~(LRULimit > 0)
  <2>1. LimitKept
    BY <1>2 DEF LimitKept
  <2> QED
    BY <2>1, PTL
<1> QED
  BY <1>1, <1>2

(***************************************************************************)
(* EnforceGroupExclusivity keeps models of one group apart, as long as     *)
(* loads follow one another and nothing is untracked before it stops, but  *)
(* for an enforcement that gave up.                                        *)
(***************************************************************************)
THEOREM GroupsStayApart ==
    ASSUME SerialLoads, ~DeadlinesExpire, ~BusyCheck, ~IdleCheck
    PROVE  Spec => []GroupsExclusive
<1>1. Init => SerialInv /\ Separate
  <2>1. ASSUME Init PROVE Separate
    <3>1. Loaded = {} /\ \A r \in Requests : pc[r] = "start"
      BY <2>1, Constants DEF Init, Loaded
    <3> QED
      BY <3>1 DEF Separate, GroupsExclusive, GroupsDone, LoadSteps
  <2> QED
    BY <2>1, SerialInvariance
<1>2. SerialInv /\ Separate /\ [Next]_vars => SerialInv' /\ Separate'
  <2> SUFFICES ASSUME SerialInv, Separate, [Next]_vars PROVE Separate'
    BY SerialInvariance
  <2>1. CASE Next
    <3>1. Step
      BY <2>1, StepsOfNext DEF SerialInv, IInv
    <3> QED
      BY <3>1, StepSeparate DEF SerialInv, IInv
  <2>2. CASE UNCHANGED vars
    BY <2>2 DEF Separate, Apart, Conflicts, GroupsExclusive, Loaded, Tracked, vars,
                    trackVars, loaderVars, enforceVars
  <2> QED
    BY <2>1, <2>2
<1>3. Separate => GroupsExclusive
  BY DEF Separate
<1> QED
  BY <1>1, <1>2, <1>3, PTL DEF Spec

===============================================================================
