------------------------- MODULE TaskSchedulerProofs -------------------------
(***************************************************************************)
(* Proofs about TaskScheduler and ServiceShutdown, for any number of runs, *)
(* keys and projects and any limits.                                       *)
(*                                                                         *)
(* The invariant the runs check speaks of counters, and the code counts:   *)
(* it is kept only if a run takes its slot once and gives it back once.    *)
(* That follows from where a run can be (PhaseAgrees: the worker's step    *)
(* and the status agree) and from what is queued (QueuesExact: a run is in *)
(* the queue of its key exactly while it is queued, and once), which are   *)
(* therefore parts of the inductive invariant.                             *)
(***************************************************************************)
EXTENDS ServiceShutdown, FiniteSetTheorems, TLAPS

\* A queue without repetitions, and what is in it.
Distinct(q) == \A i, j \in DOMAIN q : q[i] = q[j] => i = j
Has(q, r)   == \E i \in DOMAIN q : q[i] = r

\* A run that _requeue_item_unlocked() puts into a queue it is not in is in it once.
LEMMA RequeueFacts ==
    ASSUME NEW q \in Seq(Runs), NEW r \in Runs, NEW s, Distinct(q), ~Has(q, r)
    PROVE  /\ Requeue(q, r, s) \in Seq(Runs)
           /\ Distinct(Requeue(q, r, s))
           /\ \A x : Has(Requeue(q, r, s), x) <=> Has(q, x) \/ x = r
<1>1. CASE s.high
  <2> DEFINE n == <<r>> \o q
  <2>1. n \in Seq(Runs) /\ Len(n) = Len(q) + 1 /\ DOMAIN n = 1..(Len(q) + 1)
    OBVIOUS
  <2>2. n[1] = r /\ \A i \in DOMAIN q : i + 1 \in DOMAIN n /\ n[i + 1] = q[i]
    OBVIOUS
  <2>3. \A i \in DOMAIN n : i # 1 => i - 1 \in DOMAIN q /\ n[i] = q[i - 1]
    OBVIOUS
  <2>4. Distinct(n) BY <2>1, <2>2, <2>3 DEF Distinct, Has
  <2>5. \A x : Has(n, x) <=> Has(q, x) \/ x = r
    <3> HIDE DEF n
    <3>1. ASSUME NEW x, Has(n, x) PROVE Has(q, x) \/ x = r
      <4>1. PICK i \in DOMAIN n : n[i] = x BY <3>1 DEF Has
      <4>2. CASE i = 1 BY <2>2, <4>1, <4>2
      <4>3. CASE i # 1
        <5>1. i - 1 \in DOMAIN q /\ x = q[i - 1] BY <2>3, <4>1, <4>3
        <5> QED BY <5>1 DEF Has
      <4> QED BY <4>2, <4>3
    <3>2. \A x : Has(q, x) => Has(n, x) BY <2>2 DEF Has
    <3>3. Has(n, r) BY <2>1, <2>2 DEF Has
    <3> QED BY <3>1, <3>2, <3>3
  <2> QED BY <1>1, <2>1, <2>4, <2>5 DEF Requeue
<1>2. CASE ~s.high
  <2>1. Append(q, r) \in Seq(Runs) /\ Len(Append(q, r)) = Len(q) + 1
    OBVIOUS
  <2> QED BY <1>2, <2>1 DEF Requeue, Distinct, Has
<1> QED BY <1>1, <1>2

\* _pop_queued_item_unlocked() takes that run and no other.
LEMMA WithoutFacts ==
    ASSUME NEW q \in Seq(Runs), NEW r \in Runs, Distinct(q)
    PROVE  /\ Without(q, r) \in Seq(Runs)
           /\ Distinct(Without(q, r))
           /\ \A x : Has(Without(q, r), x) <=> Has(q, x) /\ x # r
<1>1. CASE Has(q, r)
  <2> DEFINE i == CHOOSE i \in DOMAIN q : q[i] = r
             n == RemoveAt(q, i)
  <2>1. i \in DOMAIN q /\ q[i] = r BY <1>1 DEF Has
  <2>2. i \in 1..Len(q) BY <2>1
  <2> HIDE DEF i
  <2> DEFINE a == SubSeq(q, 1, i - 1)
             b == SubSeq(q, i + 1, Len(q))
  <2>a. a \in Seq(Runs) /\ Len(a) = i - 1 /\ \A j \in 1..(i - 1) : a[j] = q[j]
    BY <2>2
  <2>b. b \in Seq(Runs) /\ Len(b) = Len(q) - i /\ \A j \in 1..(Len(q) - i) : b[j] = q[i + j]
    BY <2>2
  <2>c. n = a \o b BY DEF RemoveAt
  <2> HIDE DEF a, b, n
  <2>3. n \in Seq(Runs) /\ Len(n) = Len(q) - 1 /\ DOMAIN n = 1..(Len(q) - 1)
    BY <2>2, <2>a, <2>b, <2>c
  <2>4. \A j \in DOMAIN n : n[j] = IF j < i THEN q[j] ELSE q[j + 1]
    <3> SUFFICES ASSUME NEW j \in DOMAIN n PROVE n[j] = IF j < i THEN q[j] ELSE q[j + 1]
      OBVIOUS
    <3>1. CASE j < i BY <3>1, <2>2, <2>3, <2>a, <2>b, <2>c
    <3>2. CASE ~(j < i)
      <4>1. j - (i - 1) \in 1..(Len(q) - i) BY <3>2, <2>2, <2>3
      <4>2. n[j] = b[j - (i - 1)]
        <5>1. j \in 1..(Len(a) + Len(b)) /\ j > Len(a) BY <3>2, <2>2, <2>3, <2>a, <2>b
        <5>2. (a \o b)[j] = b[j - Len(a)] BY <5>1, <2>a, <2>b
        <5> QED BY <5>2, <2>a, <2>c
      <4>3. b[j - (i - 1)] = q[i + (j - (i - 1))] BY <4>1, <2>b
      <4>4. i + (j - (i - 1)) = j + 1 BY <2>2, <2>3
      <4> QED BY <4>2, <4>3, <4>4, <3>2
    <3> QED BY <3>1, <3>2
  <2>5. \A j \in DOMAIN q : j # i =>
           \E m \in DOMAIN n : n[m] = q[j]
    <3> SUFFICES ASSUME NEW j \in DOMAIN q, j # i PROVE \E m \in DOMAIN n : n[m] = q[j]
      OBVIOUS
    <3>1. CASE j < i BY <3>1, <2>2, <2>3, <2>4
    <3>2. CASE j > i
      <4>1. j - 1 \in DOMAIN n /\ n[j - 1] = q[j] BY <3>2, <2>2, <2>3, <2>4
      <4> QED BY <4>1
    <3> QED BY <3>1, <3>2, <2>2
  <2>6. Distinct(n) BY <2>2, <2>3, <2>4 DEF Distinct
  <2>7. \A x : Has(n, x) => Has(q, x) /\ x # r
    BY <2>1, <2>2, <2>3, <2>4 DEF Distinct, Has
  <2>8. \A x : Has(q, x) /\ x # r => Has(n, x) BY <2>1, <2>5 DEF Has
  <2>9. Without(q, r) = n BY <1>1 DEF Without, Has, i, n
  <2> QED BY <2>3, <2>6, <2>7, <2>8, <2>9
<1>2. CASE ~Has(q, r)
  BY <1>2 DEF Without, Has
<1> QED BY <1>1, <1>2

\* popleft() in the dispatcher takes the first run and no other.
LEMMA TailFacts ==
    ASSUME NEW q \in Seq(Runs), q # <<>>, Distinct(q)
    PROVE  /\ Head(q) \in Runs /\ Has(q, Head(q))
           /\ Tail(q) \in Seq(Runs)
           /\ Distinct(Tail(q))
           /\ \A x : Has(Tail(q), x) <=> Has(q, x) /\ x # Head(q)
<1>1. Head(q) = q[1] /\ 1 \in DOMAIN q /\ Head(q) \in Runs OBVIOUS
<1>2. Tail(q) \in Seq(Runs) /\ Len(Tail(q)) = Len(q) - 1 OBVIOUS
<1>3. \A i \in DOMAIN Tail(q) : i + 1 \in DOMAIN q /\ Tail(q)[i] = q[i + 1] BY <1>2
<1>4. \A i \in DOMAIN q : i # 1 => i - 1 \in DOMAIN Tail(q) /\ Tail(q)[i - 1] = q[i]
  BY <1>2
<1>5. Distinct(Tail(q)) BY <1>2, <1>3 DEF Distinct
<1>6. \A x : Has(Tail(q), x) => Has(q, x) /\ x # Head(q)
  BY <1>1, <1>2, <1>3 DEF Distinct, Has
<1>7. \A x : Has(q, x) /\ x # Head(q) => Has(Tail(q), x) BY <1>1, <1>4 DEF Has
<1> QED BY <1>1, <1>2, <1>5, <1>6, <1>7 DEF Has

-----------------------------------------------------------------------------
\* Where a run's worker is and what the scheduler says of the run agree.
PhaseAgrees ==
    \A r \in Runs :
        /\ status[r] = "running" <=> pc[r] \in {"pooled", "guard", "body", "publish", "lost"}
        /\ pc[r] \in {"ending", "exit"} => status[r] \in Terminal
        /\ r \in token => status[r] \notin {"unknown", "queued"}

\* QueuesHoldQueued, as an equivalence.
QueuesExact ==
    \A k \in Keys :
        /\ Distinct(queues[k])
        /\ \A r : Has(queues[k], r) <=> r \in Runs /\ status[r] = "queued" /\ key[r] = k

\* ConcurrencyLimits, of the counters.
CounterLimits ==
    /\ \A k \in Keys \ {SystemKey} : byKey[k] <= PerKey
    /\ normalTotal <= MaxConcurrent
    /\ systemTotal <= SystemConcurrency

\* The inductive invariant of the scheduler.
SchedulerInv ==
    /\ TypeOK
    /\ PhaseAgrees
    /\ QueuesExact
    /\ CountersExact
    /\ CounterLimits
    /\ IndexAgrees

\* Every task has an effective key, also after its project was changed.
LEMMA KeyTypes ==
    /\ \A s \in TaskSpec : EffectiveKey(s) \in Keys
    /\ NoSpec \in TaskSpec
    /\ \A s \in TaskSpec, p \in Projects : [s EXCEPT !.proj = p] \in TaskSpec
    /\ SystemKey \in Keys /\ DefaultKey \in Keys /\ None \notin Projects
BY SchedulerAssumption DEF TaskSpec, EffectiveKey, Keys, NoSpec

\* A queue stays a queue of runs.
LEMMA RequeueType ==
    ASSUME NEW q \in Seq(Runs), NEW r \in Runs, NEW s PROVE Requeue(q, r, s) \in Seq(Runs)
BY DEF Requeue

\* So does one that a run, in it or not, was taken out of.
LEMMA WithoutType ==
    ASSUME NEW q \in Seq(Runs), NEW r \in Runs PROVE Without(q, r) \in Seq(Runs)
<1>1. CASE \E i \in DOMAIN q : q[i] = r
  <2> DEFINE i == CHOOSE i \in DOMAIN q : q[i] = r
  <2>1. i \in 1..Len(q) BY <1>1
  <2> HIDE DEF i
  <2>2. SubSeq(q, 1, i - 1) \in Seq(Runs) /\ SubSeq(q, i + 1, Len(q)) \in Seq(Runs)
    BY <2>1
  <2> QED BY <1>1, <2>2 DEF Without, RemoveAt, i
<1> QED BY <1>1 DEF Without

\* A queue that the dispatcher picks has a first run.
LEMMA HeadRun ==
    ASSUME TypeOK, NEW k \in Keys, Picks(k)
    PROVE  queues[k] # <<>> /\ Head(queues[k]) \in Runs /\ Tail(queues[k]) \in Seq(Runs)
<1>1. queues[k] \in Seq(Runs) /\ queues[k] # <<>> BY DEF TypeOK, Picks, Eligible
<1> QED BY <1>1

\* The counters stay natural numbers, clamped at zero as the code does.
LEMMA SlotTypes ==
    ASSUME TypeOK, NEW r \in Runs, TakeSlot(r) \/ ReleaseSlot(r)
    PROVE  /\ byKey' \in [Keys -> Nat] /\ byProject' \in [Projects -> Nat]
           /\ normalTotal' \in Nat /\ systemTotal' \in Nat
<1>1. key[r] \in Keys /\ key[r] # None BY SchedulerAssumption DEF TypeOK
<1>2. spec[r].proj \in Projects \cup {None} BY DEF TypeOK, TaskSpec
<1>3. byKey \in [Keys -> Nat] /\ byProject \in [Projects -> Nat]
      /\ normalTotal \in Nat /\ systemTotal \in Nat BY DEF TypeOK
<1>4. \A k \in Keys : Inc(byKey, k) \in [Keys -> Nat] /\ Dec(byKey, k) \in [Keys -> Nat]
  BY <1>3 DEF Inc, Dec
<1>5. \A p \in Projects \cup {None} :
         Inc(byProject, p) \in [Projects -> Nat] /\ Dec(byProject, p) \in [Projects -> Nat]
  BY <1>3, KeyTypes DEF Inc, Dec
<1>6. byKey' \in [Keys -> Nat] /\ byProject' \in [Projects -> Nat]
  BY <1>1, <1>2, <1>4, <1>5 DEF TakeSlot, ReleaseSlot
<1>7. normalTotal' \in Nat /\ systemTotal' \in Nat
  BY <1>3 DEF TakeSlot, ReleaseSlot
<1> QED BY <1>6, <1>7

\* The fields keep their types.
LEMMA TypeStep == TypeOK /\ [Next]_vars => TypeOK'
<1> SUFFICES ASSUME TypeOK, [Next]_vars PROVE TypeOK' OBVIOUS
<1> USE DEF stateVars, queueVars, counterVars, stopVars
<1>1. ASSUME NEW r \in Runs, NEW s \in Specs, Submit(r, s) PROVE TypeOK'
  <2>1. s \in TaskSpec /\ EffectiveKey(s) \in Keys BY SchedulerAssumption, KeyTypes
  <2>2. queues' \in [Keys -> Seq(Runs)]
    BY <1>1, <2>1, RequeueType DEF Submit, TypeOK
  <2>3. order' \in Seq(Keys) BY <1>1, <2>1 DEF Submit, TypeOK, KnownKeys
  <2>4. projectIndex' \in [Projects -> SUBSET Runs] BY <1>1 DEF Submit, TypeOK
  <2>5. status' \in [Runs -> Statuses] /\ spec' \in [Runs -> TaskSpec] /\ key' \in [Runs -> Keys]
    BY <1>1, <2>1 DEF Submit, TypeOK, Statuses
  <2> QED BY <1>1, <2>2, <2>3, <2>4, <2>5 DEF Submit, TypeOK
<1>2. ASSUME NEW r \in Runs, NEW p \in Projects, UpdateQueuedProject(r, p) PROVE TypeOK'
  <2> DEFINE new == EffectiveKey([spec[r] EXCEPT !.proj = p])
  <2>1. spec[r] \in TaskSpec /\ new \in Keys BY KeyTypes DEF TypeOK
  <2>2. spec' \in [Runs -> TaskSpec] /\ projectIndex' \in [Projects -> SUBSET Runs]
    <3>1. Rebind(r, p) BY <1>2 DEF UpdateQueuedProject
    <3>2. [spec[r] EXCEPT !.proj = p] \in TaskSpec BY <2>1, KeyTypes
    <3>3. spec' \in [Runs -> TaskSpec] BY <3>1, <3>2 DEF Rebind, TypeOK
    <3>4. projectIndex' \in [Projects -> SUBSET Runs] BY <3>1 DEF Rebind, TypeOK
    <3> QED BY <3>3, <3>4
  <2> HIDE DEF new
  <2>3. CASE key[r] = new
    BY <1>2, <2>2, <2>3 DEF UpdateQueuedProject, TypeOK, new
  <2>4. CASE key[r] # new
    <3>1. /\ queues' = [queues EXCEPT ![key[r]] = Without(@, r), ![new] = Requeue(@, r, spec[r])]
          /\ order' = KnownKeys(new) /\ key' = [key EXCEPT ![r] = new]
      BY <1>2, <2>4 DEF UpdateQueuedProject, new
    <3>2. queues' \in [Keys -> Seq(Runs)]
      <4>1. queues[key[r]] \in Seq(Runs) /\ queues[new] \in Seq(Runs) BY <2>1 DEF TypeOK
      <4>2. Without(queues[key[r]], r) \in Seq(Runs) /\ Requeue(queues[new], r, spec[r]) \in Seq(Runs)
        BY <4>1, WithoutType, RequeueType
      <4> QED BY <2>4, <3>1, <4>2 DEF TypeOK
    <3>3. order' \in Seq(Keys) BY <2>1, <3>1 DEF TypeOK, KnownKeys
    <3>4. key' \in [Runs -> Keys] BY <2>1, <3>1 DEF TypeOK
    <3> QED BY <1>2, <2>2, <3>2, <3>3, <3>4 DEF UpdateQueuedProject, TypeOK
  <2> QED BY <2>3, <2>4
<1>3. ASSUME NEW r \in Runs, NEW p \in Projects, UpdateRunningProject(r, p) PROVE TypeOK'
  <2>1. spec' \in [Runs -> TaskSpec] /\ projectIndex' \in [Projects -> SUBSET Runs]
    BY <1>3, KeyTypes DEF UpdateRunningProject, Rebind, TypeOK
  <2>2. spec[r].proj \in Projects \cup {None} BY DEF TypeOK, TaskSpec
  <2>3. Dec(byProject, spec[r].proj) \in [Projects -> Nat]
    BY <2>2 DEF Dec, TypeOK
  <2>4. byProject' \in [Projects -> Nat]
    BY <1>3, <2>3 DEF UpdateRunningProject, MoveProjectSlot, Inc
  <2> QED BY <1>3, <2>1, <2>4 DEF UpdateRunningProject, TypeOK
<1>4. ASSUME NEW r \in Runs, Cancel(r) PROVE TypeOK'
  <2>1. queues' \in [Keys -> Seq(Runs)] BY <1>4, WithoutType DEF Cancel, TypeOK
  <2>2. status' \in [Runs -> Statuses] /\ token' \subseteq Runs
    BY <1>4 DEF Cancel, TypeOK, Statuses, Terminal
  <2> QED BY <1>4, <2>1, <2>2 DEF Cancel, TypeOK
<1>5. ASSUME NEW k \in Keys, Dispatch(k) PROVE TypeOK'
  <2> DEFINE r == Head(queues[k])
  <2>1. Picks(k) BY <1>5 DEF Dispatch
  <2>2. r \in Runs /\ Tail(queues[k]) \in Seq(Runs) BY <2>1, HeadRun
  <2>3. /\ byKey' \in [Keys -> Nat] /\ byProject' \in [Projects -> Nat]
        /\ normalTotal' \in Nat /\ systemTotal' \in Nat
    BY <1>5, <2>2, SlotTypes DEF Dispatch
  <2> QED BY <1>5, <2>2, <2>3 DEF Dispatch, TypeOK, Statuses, PCs
<1>6. ASSUME NEW k \in Keys, DispatchFails(k) PROVE TypeOK'
  <2> DEFINE r == Head(queues[k])
  <2>1. Picks(k) BY <1>6 DEF DispatchFails
  <2>2. r \in Runs /\ Tail(queues[k]) \in Seq(Runs) BY <2>1, HeadRun
  <2> QED BY <1>6, <2>2 DEF DispatchFails, TypeOK, Statuses, Terminal
<1>7. ASSUME NEW r \in Runs, Reap(r) PROVE TypeOK'
  BY <1>7, KeyTypes DEF Reap, TypeOK, Statuses
<1>8. ASSUME NEW r \in Runs,
             StartWorker(r) \/ EnterGuard(r) \/ BodyReturns(r) \/ ExitGuard(r)
      PROVE  TypeOK'
  BY <1>8 DEF StartWorker, EnterGuard, BodyReturns, ExitGuard, TypeOK, PCs
<1>9. ASSUME NEW r \in Runs, BodyCanceled(r) \/ BodyFails(r) \/ PublishSuccess(r)
      PROVE  TypeOK'
  <2>1. PICK s \in Terminal : Publish(r, s)
    BY <1>9 DEF BodyCanceled, BodyFails, PublishSuccess, Terminal
  <2> QED BY <2>1 DEF Publish, TypeOK, PCs, Statuses
<1>10. ASSUME NEW r \in Runs, GuardRefused(r) PROVE TypeOK'
  <2>1. /\ byKey' \in [Keys -> Nat] /\ byProject' \in [Projects -> Nat]
        /\ normalTotal' \in Nat /\ systemTotal' \in Nat
    BY <1>10, SlotTypes DEF GuardRefused
  <2> QED BY <1>10, <2>1 DEF GuardRefused, TypeOK, PCs, Statuses, Terminal
<1>11. ASSUME NEW r \in Runs, FinishRun(r) PROVE TypeOK'
  <2>1. /\ byKey' \in [Keys -> Nat] /\ byProject' \in [Projects -> Nat]
        /\ normalTotal' \in Nat /\ systemTotal' \in Nat
    BY <1>11, SlotTypes DEF FinishRun
  <2> QED BY <1>11, <2>1 DEF FinishRun, TypeOK, PCs
<1>12. CASE Fence
  <2>1. queues' \in [Keys -> Seq(Runs)] BY <1>12 DEF Fence
  <2>2. status' \in [Runs -> Statuses] BY <1>12 DEF Fence, TypeOK, Statuses, Terminal
  <2> QED BY <1>12, <2>1, <2>2 DEF Fence, TypeOK
<1>13. CASE CancelWaiters \/ CancelActive \/ StopDispatcher \/ ShutdownPools
  BY <1>13 DEF CancelWaiters, CancelActive, StopDispatcher, ShutdownPools, TypeOK, PCs
<1>14. CASE UNCHANGED vars BY <1>14 DEF vars, TypeOK
<1> QED
  BY <1>1, <1>2, <1>3, <1>4, <1>5, <1>6, <1>7, <1>8, <1>9, <1>10, <1>11, <1>12, <1>13, <1>14
  DEF Next, Callers, Dispatcher, Worker, Shutdown

-----------------------------------------------------------------------------
\* Workers and statuses move together.
LEMMA PhaseStep == TypeOK /\ PhaseAgrees /\ QueuesExact /\ [Next]_vars => PhaseAgrees'
<1> SUFFICES ASSUME TypeOK, PhaseAgrees, QueuesExact, [Next]_vars PROVE PhaseAgrees' OBVIOUS
<1> USE DEF stateVars, queueVars, counterVars, stopVars
<1>1. ASSUME NEW r \in Runs, NEW s \in Specs, Submit(r, s) PROVE PhaseAgrees'
  BY <1>1 DEF Submit, TypeOK, PhaseAgrees
<1>2. ASSUME NEW r \in Runs, NEW p \in Projects,
             UpdateQueuedProject(r, p) \/ UpdateRunningProject(r, p)
      PROVE  PhaseAgrees'
  BY <1>2 DEF UpdateQueuedProject, UpdateRunningProject, PhaseAgrees
<1>3. ASSUME NEW r \in Runs, Cancel(r) PROVE PhaseAgrees'
  BY <1>3 DEF Cancel, TypeOK, PhaseAgrees, Terminal
<1>4. ASSUME NEW k \in Keys, Dispatch(k) \/ DispatchFails(k) PROVE PhaseAgrees'
  <2> DEFINE r == Head(queues[k])
  <2>1. Picks(k) BY <1>4 DEF Dispatch, DispatchFails
  <2>2. queues[k] \in Seq(Runs) /\ queues[k] # <<>> BY <2>1, HeadRun DEF TypeOK
  <2>3. r \in Runs /\ status[r] = "queued"
    BY <2>2, TailFacts DEF QueuesExact
  <2> HIDE DEF r
  <2>4. pc[r] = "none" /\ r \notin token BY <2>3 DEF PhaseAgrees, TypeOK, PCs, Terminal
  <2>5. CASE Dispatch(k)
    BY <2>3, <2>4, <2>5 DEF Dispatch, TypeOK, PhaseAgrees, r
  <2>6. CASE DispatchFails(k)
    BY <2>3, <2>4, <2>6 DEF DispatchFails, TypeOK, PhaseAgrees, r
  <2> QED BY <1>4, <2>5, <2>6
<1>5. ASSUME NEW r \in Runs, Reap(r) PROVE PhaseAgrees'
  BY <1>5 DEF Reap, TypeOK, PhaseAgrees
<1>6. ASSUME NEW r \in Runs,
             StartWorker(r) \/ EnterGuard(r) \/ BodyReturns(r) \/ ExitGuard(r)
      PROVE  PhaseAgrees'
  BY <1>6 DEF StartWorker, EnterGuard, BodyReturns, ExitGuard, TypeOK, PhaseAgrees
<1>7. ASSUME NEW r \in Runs, BodyCanceled(r) \/ BodyFails(r) \/ PublishSuccess(r)
      PROVE  PhaseAgrees'
  <2>1. PICK s \in Terminal : Publish(r, s)
    BY <1>7 DEF BodyCanceled, BodyFails, PublishSuccess, Terminal
  <2> QED BY <2>1 DEF Publish, TypeOK, PhaseAgrees, Terminal
<1>8. ASSUME NEW r \in Runs, GuardRefused(r) PROVE PhaseAgrees'
  BY <1>8 DEF GuardRefused, TypeOK, PhaseAgrees
<1>9. ASSUME NEW r \in Runs, FinishRun(r) PROVE PhaseAgrees'
  BY <1>9 DEF FinishRun, TypeOK, PhaseAgrees
<1>10. CASE Fence BY <1>10 DEF Fence, TypeOK, PhaseAgrees, Terminal
<1>11. CASE CancelWaiters \/ CancelActive \/ StopDispatcher
  BY <1>11 DEF CancelWaiters, CancelActive, StopDispatcher, TypeOK, PhaseAgrees
<1>12. CASE ShutdownPools BY <1>12 DEF ShutdownPools, TypeOK, PhaseAgrees
<1>13. CASE UNCHANGED vars BY <1>13 DEF vars, PhaseAgrees
<1> QED
  BY <1>1, <1>2, <1>3, <1>4, <1>5, <1>6, <1>7, <1>8, <1>9, <1>10, <1>11, <1>12, <1>13
  DEF Next, Callers, Dispatcher, Worker, Shutdown

\* A step that moves no run in or out of a queue.
LEMMA QueuesSame ==
    ASSUME QueuesExact, queues' = queues,
           \A r \in Runs : /\ status'[r] = "queued" <=> status[r] = "queued"
                           /\ status[r] = "queued" => key'[r] = key[r]
    PROVE  QueuesExact'
BY DEF QueuesExact

\* The queues hold the QUEUED runs.
LEMMA QueueStep == TypeOK /\ PhaseAgrees /\ QueuesExact /\ [Next]_vars => QueuesExact'
<1> SUFFICES ASSUME TypeOK, PhaseAgrees, QueuesExact, [Next]_vars PROVE QueuesExact' OBVIOUS
<1> USE DEF stateVars, queueVars, counterVars, stopVars
<1>1. ASSUME NEW r \in Runs, NEW s \in Specs, Submit(r, s) PROVE QueuesExact'
  <2> DEFINE k == EffectiveKey(s)
  <2>1. k \in Keys /\ s \in TaskSpec BY SchedulerAssumption, KeyTypes
  <2> HIDE DEF k
  <2>2. queues[k] \in Seq(Runs) /\ ~Has(queues[k], r) /\ Distinct(queues[k])
    BY <1>1, <2>1 DEF Submit, QueuesExact, TypeOK
  <2>3. /\ Distinct(Requeue(queues[k], r, s))
        /\ \A x : Has(Requeue(queues[k], r, s), x) <=> Has(queues[k], x) \/ x = r
    BY <2>2, RequeueFacts
  <2>4. /\ queues' = [queues EXCEPT ![k] = Requeue(queues[k], r, s)]
        /\ status' = [status EXCEPT ![r] = "queued"] /\ key' = [key EXCEPT ![r] = k]
        /\ status[r] = "unknown"
    BY <1>1 DEF Submit, k
  <2> QED BY <2>1, <2>3, <2>4 DEF QueuesExact, TypeOK
<1>2. ASSUME NEW r \in Runs, NEW p \in Projects, UpdateQueuedProject(r, p) PROVE QueuesExact'
  <2> DEFINE new == EffectiveKey([spec[r] EXCEPT !.proj = p])
  <2>1. new \in Keys /\ key[r] \in Keys BY KeyTypes DEF TypeOK
  <2> HIDE DEF new
  <2>2. CASE key[r] = new
    BY <1>2, <2>2, QueuesSame DEF UpdateQueuedProject, new
  <2>3. CASE key[r] # new
    <3> DEFINE old == key[r]
    <3>1. /\ queues' = [queues EXCEPT ![old] = Without(@, r), ![new] = Requeue(@, r, spec[r])]
          /\ key' = [key EXCEPT ![r] = new] /\ status' = status /\ status[r] = "queued"
      BY <1>2, <2>3 DEF UpdateQueuedProject, new
    <3>2. /\ queues[old] \in Seq(Runs) /\ Distinct(queues[old])
          /\ queues[new] \in Seq(Runs) /\ Distinct(queues[new]) /\ ~Has(queues[new], r)
      BY <2>1, <2>3 DEF QueuesExact, TypeOK
    <3>3. /\ Distinct(Requeue(queues[new], r, spec[r]))
          /\ \A x : Has(Requeue(queues[new], r, spec[r]), x) <=> Has(queues[new], x) \/ x = r
      BY <3>2, RequeueFacts
    <3>4. /\ Distinct(Without(queues[old], r))
          /\ \A x : Has(Without(queues[old], r), x) <=> Has(queues[old], x) /\ x # r
      BY <3>2, WithoutFacts
    <3>5. \A k \in Keys : queues'[k] = CASE k = new -> Requeue(queues[new], r, spec[r])
                                         [] k = old -> Without(queues[old], r)
                                         [] OTHER -> queues[k]
      BY <2>1, <2>3, <3>1 DEF TypeOK
    <3> QED BY <2>1, <2>3, <3>1, <3>3, <3>4, <3>5 DEF QueuesExact, TypeOK
  <2> QED BY <2>2, <2>3
<1>3. ASSUME NEW r \in Runs, NEW p \in Projects, UpdateRunningProject(r, p) PROVE QueuesExact'
  BY <1>3, QueuesSame DEF UpdateRunningProject
<1>4. ASSUME NEW r \in Runs, Cancel(r) PROVE QueuesExact'
  <2>1. CASE status[r] = "queued"
    <3>1. key[r] \in Keys /\ queues[key[r]] \in Seq(Runs) /\ Distinct(queues[key[r]])
      BY DEF TypeOK, QueuesExact
    <3>2. /\ Distinct(Without(queues[key[r]], r))
          /\ \A x : Has(Without(queues[key[r]], r), x) <=> Has(queues[key[r]], x) /\ x # r
      BY <3>1, WithoutFacts
    <3>3. /\ queues' = [queues EXCEPT ![key[r]] = Without(queues[key[r]], r)]
          /\ status' = [status EXCEPT ![r] = "canceled"] /\ key' = key
      BY <1>4, <2>1 DEF Cancel
    <3> QED BY <2>1, <3>1, <3>2, <3>3 DEF QueuesExact, TypeOK
  <2>2. CASE status[r] # "queued"
    BY <1>4, <2>2, QueuesSame DEF Cancel, TypeOK
  <2> QED BY <2>1, <2>2
<1>5. ASSUME NEW k \in Keys, Dispatch(k) \/ DispatchFails(k) PROVE QueuesExact'
  <2> DEFINE r == Head(queues[k])
  <2>1. Picks(k) BY <1>5 DEF Dispatch, DispatchFails
  <2>2. queues[k] \in Seq(Runs) /\ queues[k] # <<>> BY <2>1, HeadRun DEF TypeOK
  <2>3. /\ r \in Runs /\ Has(queues[k], r)
        /\ Distinct(Tail(queues[k]))
        /\ \A x : Has(Tail(queues[k]), x) <=> Has(queues[k], x) /\ x # r
    BY <2>2, TailFacts DEF QueuesExact
  <2> HIDE DEF r
  <2>4. queues' = [queues EXCEPT ![k] = Tail(queues[k])] /\ key' = key
    BY <1>5 DEF Dispatch, DispatchFails
  <2>5. PICK s \in {"running", "failed"} : status' = [status EXCEPT ![r] = s]
    BY <1>5 DEF Dispatch, DispatchFails, r
  <2>6. \A x \in Runs : status'[x] = "queued" <=> status[x] = "queued" /\ x # r
    BY <2>3, <2>5 DEF TypeOK
  <2>7. status[r] = "queued" /\ key[r] = k BY <2>3 DEF QueuesExact
  <2> QED BY <2>3, <2>4, <2>6, <2>7 DEF QueuesExact, TypeOK
<1>6. ASSUME NEW r \in Runs, Reap(r) PROVE QueuesExact'
  BY <1>6, QueuesSame DEF Reap, TypeOK, Terminal
<1>7. ASSUME NEW r \in Runs,
             StartWorker(r) \/ EnterGuard(r) \/ BodyReturns(r) \/ ExitGuard(r) \/ FinishRun(r)
      PROVE  QueuesExact'
  BY <1>7, QueuesSame DEF StartWorker, EnterGuard, BodyReturns, ExitGuard, FinishRun
<1>8. ASSUME NEW r \in Runs, BodyCanceled(r) \/ BodyFails(r) \/ PublishSuccess(r)
      PROVE  QueuesExact'
  <2>1. PICK s \in Terminal : Publish(r, s)
    BY <1>8 DEF BodyCanceled, BodyFails, PublishSuccess, Terminal
  <2>2. status[r] = "running" BY <1>8 DEF BodyCanceled, BodyFails, PublishSuccess, PhaseAgrees
  <2> QED BY <2>1, <2>2, QueuesSame DEF Publish, TypeOK, Terminal
<1>9. ASSUME NEW r \in Runs, GuardRefused(r) PROVE QueuesExact'
  <2>1. status[r] = "running" BY <1>9 DEF GuardRefused, PhaseAgrees
  <2> QED BY <1>9, <2>1, QueuesSame DEF GuardRefused, TypeOK
<1>10. CASE Fence
  <2>1. \A k \in Keys : queues'[k] = <<>> BY <1>10 DEF Fence
  <2>2. \A r \in Runs : status'[r] # "queued" BY <1>10 DEF Fence
  <2> QED BY <2>1, <2>2 DEF QueuesExact, Distinct, Has
<1>11. CASE CancelWaiters \/ CancelActive \/ StopDispatcher \/ ShutdownPools
  BY <1>11, QueuesSame DEF CancelWaiters, CancelActive, StopDispatcher, ShutdownPools
<1>12. CASE UNCHANGED vars BY <1>12, QueuesSame DEF vars
<1> QED
  BY <1>1, <1>2, <1>3, <1>4, <1>5, <1>6, <1>7, <1>8, <1>9, <1>10, <1>11, <1>12
  DEF Next, Callers, Dispatcher, Worker, Shutdown

-----------------------------------------------------------------------------
\* The slots of a key, of a project and of a pool.
OfKey(k)     == {r \in Holders : key[r] = k}
OfProject(p) == {r \in Holders : spec[r].proj = p}
Ordinary     == {r \in Holders : ~IsSystem(key[r])}
System       == {r \in Holders : IsSystem(key[r])}

\* Every set of slots is finite.
LEMMA SlotSetsFinite ==
    ASSUME NEW S, S \subseteq Runs PROVE IsFiniteSet(S) /\ Cardinality(S) \in Nat
BY SchedulerAssumption, FS_Subset, FS_CardinalityType

\* One slot more and one slot less.
LEMMA OneMore ==
    ASSUME NEW S, NEW T, NEW r, S \subseteq Runs, r \notin S, T = S \cup {r}
    PROVE  Cardinality(T) = Cardinality(S) + 1
BY SlotSetsFinite, FS_AddElement

\* A slot that is held is counted, so that giving it back needs no clamp.
LEMMA OneLess ==
    ASSUME NEW S, NEW T, NEW r, S \subseteq Runs, r \in S, T = S \ {r}
    PROVE  Cardinality(T) = Cardinality(S) - 1 /\ Cardinality(S) > 0
<1>1. IsFiniteSet(S) /\ Cardinality(S) \in Nat BY SlotSetsFinite
<1>2. Cardinality(S) # 0 BY <1>1, FS_EmptySet
<1> QED BY <1>1, <1>2, FS_RemoveElement

\* A step that neither takes, gives back nor moves a slot.
LEMMA SlotsSame ==
    ASSUME CountersExact, UNCHANGED counterVars, Holders' = Holders,
           \A r \in Holders : key'[r] = key[r] /\ spec'[r].proj = spec[r].proj
    PROVE  CountersExact'
<1>1. \A k : OfKey(k)' = OfKey(k) BY DEF OfKey
<1>2. \A p : OfProject(p)' = OfProject(p) BY DEF OfProject
<1>3. Ordinary' = Ordinary /\ System' = System BY DEF Ordinary, System, IsSystem
<1>4. /\ \A k \in Keys : byKey[k] = Cardinality(OfKey(k))
      /\ \A p \in Projects : byProject[p] = Cardinality(OfProject(p))
      /\ normalTotal = Cardinality(Ordinary) /\ systemTotal = Cardinality(System)
  BY DEF CountersExact, OfKey, OfProject, Ordinary, System
<1>5. /\ \A k \in Keys : byKey'[k] = Cardinality(OfKey(k)')
      /\ \A p \in Projects : byProject'[p] = Cardinality(OfProject(p)')
      /\ normalTotal' = Cardinality(Ordinary') /\ systemTotal' = Cardinality(System')
  BY <1>1, <1>2, <1>3, <1>4 DEF counterVars
<1> QED BY <1>5 DEF CountersExact, OfKey, OfProject, Ordinary, System

\* The dispatcher reserves a slot.
LEMMA SlotTaken ==
    ASSUME TypeOK, CountersExact, NEW r \in Runs, r \notin Holders,
           Holders' = Holders \cup {r}, UNCHANGED <<key, spec>>, TakeSlot(r)
    PROVE  CountersExact'
<1> DEFINE k == key[r]  p == spec[r].proj
<1>1. k \in Keys /\ k # None BY SchedulerAssumption DEF TypeOK
<1>2. p \in Projects \cup {None} BY DEF TypeOK, TaskSpec
<1>3. Holders \subseteq Runs BY DEF Holders
<1>4. ASSUME NEW x \in Keys PROVE byKey'[x] = Cardinality(OfKey(x)')
  <2>1. byKey[x] = Cardinality(OfKey(x)) BY DEF CountersExact, OfKey
  <2>2. OfKey(x)' = IF x = k THEN OfKey(x) \cup {r} ELSE OfKey(x) BY DEF OfKey
  <2>3. byKey'[x] = IF x = k THEN byKey[x] + 1 ELSE byKey[x]
    BY <1>1 DEF TakeSlot, Inc, TypeOK
  <2>4. r \notin OfKey(x) /\ OfKey(x) \subseteq Runs BY <1>3 DEF OfKey
  <2> QED BY <2>1, <2>2, <2>3, <2>4, OneMore
<1>5. ASSUME NEW x \in Projects PROVE byProject'[x] = Cardinality(OfProject(x)')
  <2>1. byProject[x] = Cardinality(OfProject(x)) BY DEF CountersExact, OfProject
  <2>2. OfProject(x)' = IF x = p THEN OfProject(x) \cup {r} ELSE OfProject(x) BY DEF OfProject
  <2>3. byProject'[x] = IF x = p THEN byProject[x] + 1 ELSE byProject[x]
    BY <1>2, KeyTypes DEF TakeSlot, Inc, TypeOK
  <2>4. r \notin OfProject(x) /\ OfProject(x) \subseteq Runs BY <1>3 DEF OfProject
  <2> QED BY <2>1, <2>2, <2>3, <2>4, OneMore
<1>6. normalTotal' = Cardinality(Ordinary') /\ systemTotal' = Cardinality(System')
  <2>1. normalTotal = Cardinality(Ordinary) /\ systemTotal = Cardinality(System)
    BY DEF CountersExact, Ordinary, System
  <2>2. r \notin Ordinary /\ Ordinary \subseteq Runs /\ r \notin System /\ System \subseteq Runs
    BY <1>3 DEF Ordinary, System
  <2>3. CASE IsSystem(k)
    <3>1. Ordinary' = Ordinary /\ System' = System \cup {r} BY <2>3 DEF Ordinary, System, IsSystem
    <3> QED BY <2>1, <2>2, <2>3, <3>1, OneMore DEF TakeSlot
  <2>4. CASE ~IsSystem(k)
    <3>1. Ordinary' = Ordinary \cup {r} /\ System' = System BY <2>4 DEF Ordinary, System, IsSystem
    <3> QED BY <2>1, <2>2, <2>4, <3>1, OneMore DEF TakeSlot
  <2> QED BY <2>3, <2>4
<1> QED BY <1>4, <1>5, <1>6 DEF CountersExact, OfKey, OfProject, Ordinary, System

\* A slot is given back: no clamp is reached.
LEMMA SlotReleased ==
    ASSUME TypeOK, CountersExact, NEW r \in Runs, r \in Holders,
           Holders' = Holders \ {r}, UNCHANGED <<key, spec>>, ReleaseSlot(r)
    PROVE  CountersExact'
<1> DEFINE k == key[r]  p == spec[r].proj
<1>1. k \in Keys /\ k # None BY SchedulerAssumption DEF TypeOK
<1>2. p \in Projects \cup {None} BY DEF TypeOK, TaskSpec
<1>3. Holders \subseteq Runs BY DEF Holders
<1>4. ASSUME NEW x \in Keys PROVE byKey'[x] = Cardinality(OfKey(x)')
  <2>1. byKey[x] = Cardinality(OfKey(x)) /\ byKey[x] \in Nat
    BY DEF CountersExact, OfKey, TypeOK
  <2>2. OfKey(x)' = IF x = k THEN OfKey(x) \ {r} ELSE OfKey(x) BY DEF OfKey
  <2>3. x = k => byKey[x] > 0 /\ Cardinality(OfKey(x) \ {r}) = byKey[x] - 1
    <3>1. x = k => r \in OfKey(x) BY DEF OfKey
    <3>2. OfKey(x) \subseteq Runs BY <1>3 DEF OfKey
    <3> QED BY <2>1, <3>1, <3>2, OneLess
  <2>4. byKey'[x] = IF x = k THEN (IF byKey[x] > 0 THEN byKey[x] - 1 ELSE 0) ELSE byKey[x]
    BY <1>1 DEF ReleaseSlot, Dec, TypeOK
  <2> QED BY <2>1, <2>2, <2>3, <2>4
<1>5. ASSUME NEW x \in Projects PROVE byProject'[x] = Cardinality(OfProject(x)')
  <2>1. byProject[x] = Cardinality(OfProject(x)) /\ byProject[x] \in Nat
    BY DEF CountersExact, OfProject, TypeOK
  <2>2. OfProject(x)' = IF x = p THEN OfProject(x) \ {r} ELSE OfProject(x) BY DEF OfProject
  <2>3. x = p => byProject[x] > 0 /\ Cardinality(OfProject(x) \ {r}) = byProject[x] - 1
    <3>1. x = p => r \in OfProject(x) BY DEF OfProject
    <3>2. OfProject(x) \subseteq Runs BY <1>3 DEF OfProject
    <3> QED BY <2>1, <3>1, <3>2, OneLess
  <2>4. byProject'[x] = IF x = p THEN (IF byProject[x] > 0 THEN byProject[x] - 1 ELSE 0)
                                 ELSE byProject[x]
    BY <1>2, KeyTypes DEF ReleaseSlot, Dec, TypeOK
  <2> QED BY <2>1, <2>2, <2>3, <2>4
<1>6. normalTotal' = Cardinality(Ordinary') /\ systemTotal' = Cardinality(System')
  <2>1. normalTotal = Cardinality(Ordinary) /\ systemTotal = Cardinality(System)
    BY DEF CountersExact, Ordinary, System
  <2>2. Ordinary \subseteq Runs /\ System \subseteq Runs BY <1>3 DEF Ordinary, System
  <2>3. CASE IsSystem(k)
    <3>1. Ordinary' = Ordinary /\ System' = System \ {r} /\ r \in System
      BY <2>3 DEF Ordinary, System, IsSystem
    <3>2. Cardinality(System') = systemTotal - 1 /\ systemTotal > 0
      BY <2>1, <2>2, <3>1, OneLess
    <3> QED BY <2>1, <2>3, <3>1, <3>2 DEF ReleaseSlot
  <2>4. CASE ~IsSystem(k)
    <3>1. Ordinary' = Ordinary \ {r} /\ System' = System /\ r \in Ordinary
      BY <2>4 DEF Ordinary, System, IsSystem
    <3>2. Cardinality(Ordinary') = normalTotal - 1 /\ normalTotal > 0
      BY <2>1, <2>2, <3>1, OneLess
    <3> QED BY <2>1, <2>4, <3>1, <3>2 DEF ReleaseSlot, TypeOK
  <2> QED BY <2>3, <2>4
<1> QED BY <1>4, <1>5, <1>6 DEF CountersExact, OfKey, OfProject, Ordinary, System

\* update_project_id() of a running task moves its slot between projects.
LEMMA SlotMoved ==
    ASSUME TypeOK, CountersExact, NEW r \in Runs, NEW p \in Projects,
           UpdateRunningProject(r, p)
    PROVE  CountersExact'
<1> USE DEF queueVars, stopVars
<1> DEFINE o == spec[r].proj
<1>1. o \in Projects \cup {None} /\ o # p BY DEF TypeOK, TaskSpec, UpdateRunningProject
<1>2. /\ Holders' = Holders /\ r \in Holders /\ Holders \subseteq Runs
      /\ UNCHANGED <<key, byKey, normalTotal, systemTotal>>
  BY DEF Holders, UpdateRunningProject
<1>3. \A x \in Runs : spec'[x].proj = IF x = r THEN p ELSE spec[x].proj
  BY DEF UpdateRunningProject, Rebind, TypeOK, TaskSpec
<1>4. ASSUME NEW x \in Projects PROVE byProject'[x] = Cardinality(OfProject(x)')
  <2>1. byProject[x] = Cardinality(OfProject(x)) /\ byProject[x] \in Nat
    BY DEF CountersExact, OfProject, TypeOK
  <2>2. OfProject(x)' = IF x = p THEN OfProject(x) \cup {r}
                        ELSE IF x = o THEN OfProject(x) \ {r} ELSE OfProject(x)
    BY <1>1, <1>2, <1>3 DEF OfProject
  <2>3. byProject'[x] = IF x = p THEN byProject[x] + 1
                        ELSE IF x = o THEN (IF byProject[x] > 0 THEN byProject[x] - 1 ELSE 0)
                        ELSE byProject[x]
    BY <1>1, KeyTypes DEF UpdateRunningProject, MoveProjectSlot, Inc, Dec, TypeOK
  <2>4. OfProject(x) \subseteq Runs BY <1>2 DEF OfProject
  <2>5. CASE x = p
    <3>1. r \notin OfProject(x) BY <1>1, <2>5 DEF OfProject
    <3>2. Cardinality(OfProject(x) \cup {r}) = byProject[x] + 1
      BY <2>1, <2>4, <3>1, OneMore
    <3> QED BY <2>2, <2>3, <2>5, <3>2
  <2>6. CASE x = o
    <3>1. r \in OfProject(x) BY <1>2, <2>6 DEF OfProject
    <3>2. Cardinality(OfProject(x) \ {r}) = byProject[x] - 1 /\ byProject[x] > 0
      BY <2>1, <2>4, <3>1, OneLess
    <3> QED BY <1>1, <2>1, <2>2, <2>3, <2>6, <3>2
  <2>7. CASE x # p /\ x # o BY <2>1, <2>2, <2>3, <2>7
  <2> QED BY <2>5, <2>6, <2>7
<1>5. (\A k : OfKey(k)' = OfKey(k)) /\ Ordinary' = Ordinary /\ System' = System
  BY <1>2 DEF OfKey, Ordinary, System, IsSystem
<1> QED BY <1>2, <1>4, <1>5 DEF CountersExact, OfKey, OfProject, Ordinary, System

\* The counters are the numbers of slots held.
LEMMA CounterStep ==
    TypeOK /\ PhaseAgrees /\ QueuesExact /\ CountersExact /\ [Next]_vars => CountersExact'
<1> SUFFICES ASSUME TypeOK, PhaseAgrees, QueuesExact, CountersExact, [Next]_vars
             PROVE  CountersExact'
  OBVIOUS
<1> USE DEF stateVars, queueVars, stopVars
<1>1. ASSUME NEW r \in Runs, NEW s \in Specs, Submit(r, s) PROVE CountersExact'
  <2>1. r \notin Holders /\ Holders' = Holders BY <1>1 DEF Submit, Holders
  <2> QED BY <1>1, <2>1, SlotsSame DEF Submit, TypeOK, Holders
<1>2. ASSUME NEW r \in Runs, NEW p \in Projects, UpdateQueuedProject(r, p) PROVE CountersExact'
  <2>1. r \notin Holders
    BY <1>2 DEF UpdateQueuedProject, Holders, PhaseAgrees, TypeOK, PCs, Terminal
  <2>2. Holders' = Holders /\ UNCHANGED counterVars BY <1>2 DEF UpdateQueuedProject, Holders
  <2>3. \A x \in Holders : key'[x] = key[x] /\ spec'[x].proj = spec[x].proj
    BY <1>2, <2>1 DEF UpdateQueuedProject, Rebind, TypeOK, Holders
  <2> QED BY <2>2, <2>3, SlotsSame
<1>3. ASSUME NEW r \in Runs, NEW p \in Projects, UpdateRunningProject(r, p) PROVE CountersExact'
  BY <1>3, SlotMoved
<1>4. ASSUME NEW r \in Runs, Cancel(r) PROVE CountersExact'
  BY <1>4, SlotsSame DEF Cancel, Holders
<1>5. ASSUME NEW k \in Keys, Dispatch(k) \/ DispatchFails(k) PROVE CountersExact'
  <2> DEFINE r == Head(queues[k])
  <2>1. Picks(k) BY <1>5 DEF Dispatch, DispatchFails
  <2>2. queues[k] \in Seq(Runs) /\ queues[k] # <<>> BY <2>1, HeadRun DEF TypeOK
  <2>3. r \in Runs /\ status[r] = "queued"
    BY <2>2, TailFacts DEF QueuesExact
  <2>4. r \notin Holders
    BY <2>3 DEF Holders, PhaseAgrees, TypeOK, PCs, Terminal
  <2>5. CASE Dispatch(k)
    <3> HIDE DEF r
    <3>1. Holders' = Holders \cup {r} BY <2>3, <2>5 DEF Dispatch, Holders, TypeOK, r
    <3>2. UNCHANGED <<key, spec>> /\ TakeSlot(r) BY <2>5 DEF Dispatch, r
    <3> QED BY <2>3, <2>4, <3>1, <3>2, SlotTaken
  <2>6. CASE DispatchFails(k)
    BY <2>6, SlotsSame DEF DispatchFails, Holders
  <2> QED BY <1>5, <2>5, <2>6
<1>6. ASSUME NEW r \in Runs, Reap(r) PROVE CountersExact'
  <2>1. r \notin Holders /\ Holders' = Holders BY <1>6 DEF Reap, Holders
  <2> QED BY <1>6, <2>1, SlotsSame DEF Reap, TypeOK, Holders
<1>7. ASSUME NEW r \in Runs,
             StartWorker(r) \/ EnterGuard(r) \/ BodyReturns(r) \/ ExitGuard(r)
      PROVE  CountersExact'
  <2>1. Holders' = Holders
    BY <1>7 DEF StartWorker, EnterGuard, BodyReturns, ExitGuard, Holders, TypeOK
  <2>2. UNCHANGED <<key, spec, counterVars>>
    BY <1>7 DEF StartWorker, EnterGuard, BodyReturns, ExitGuard
  <2> QED BY <2>1, <2>2, SlotsSame
<1>8. ASSUME NEW r \in Runs, BodyCanceled(r) \/ BodyFails(r) \/ PublishSuccess(r)
      PROVE  CountersExact'
  <2>1. PICK s \in Terminal : Publish(r, s)
    BY <1>8 DEF BodyCanceled, BodyFails, PublishSuccess, Terminal
  <2>2. pc[r] \in {"body", "publish"} BY <1>8 DEF BodyCanceled, BodyFails, PublishSuccess
  <2>3. Holders' = Holders BY <2>1, <2>2 DEF Publish, Holders, TypeOK
  <2> QED BY <2>1, <2>3, SlotsSame DEF Publish
<1>9. ASSUME NEW r \in Runs, GuardRefused(r) \/ FinishRun(r) PROVE CountersExact'
  <2>1. r \in Holders /\ Holders' = Holders \ {r}
    BY <1>9 DEF GuardRefused, FinishRun, Holders, TypeOK
  <2> QED BY <1>9, <2>1, SlotReleased DEF GuardRefused, FinishRun
<1>10. CASE Fence \/ CancelWaiters \/ CancelActive \/ StopDispatcher
  BY <1>10, SlotsSame DEF Fence, CancelWaiters, CancelActive, StopDispatcher, Holders
<1>11. CASE ShutdownPools
  <2>1. Holders' = Holders BY <1>11 DEF ShutdownPools, Holders
  <2> QED BY <1>11, <2>1, SlotsSame DEF ShutdownPools
<1>12. CASE UNCHANGED vars BY <1>12, SlotsSame DEF vars, Holders
<1> QED
  BY <1>1, <1>2, <1>3, <1>4, <1>5, <1>6, <1>7, <1>8, <1>9, <1>10, <1>11, <1>12
  DEF Next, Callers, Dispatcher, Worker, Shutdown

\* Every step but a dispatch leaves the counters that are limited alone or
\* lowers them.
LEMMA ReleaseLowers ==
    ASSUME TypeOK, CounterLimits, NEW r \in Runs, ReleaseSlot(r) PROVE CounterLimits'
<1>1. key[r] \in Keys BY DEF TypeOK
<1>2. \A k \in Keys : byKey'[k] <= byKey[k] /\ byKey'[k] \in Nat /\ byKey[k] \in Nat
  BY <1>1 DEF ReleaseSlot, Dec, TypeOK
<1>3. normalTotal' <= normalTotal /\ systemTotal' <= systemTotal
      /\ normalTotal' \in Nat /\ systemTotal' \in Nat
  BY DEF ReleaseSlot, TypeOK
<1> QED BY <1>2, <1>3, SchedulerAssumption DEF CounterLimits, TypeOK

\* Only the dispatcher takes slots, and it looks at the limits.
LEMMA LimitStep ==
    TypeOK /\ QueuesExact /\ CounterLimits /\ [Next]_vars => CounterLimits'
<1> SUFFICES ASSUME TypeOK, QueuesExact, CounterLimits, [Next]_vars PROVE CounterLimits' OBVIOUS
<1> USE DEF counterVars
<1>1. ASSUME NEW r \in Runs, NEW s \in Specs, Submit(r, s) PROVE CounterLimits'
  BY <1>1 DEF Submit, CounterLimits
<1>2. ASSUME NEW r \in Runs, NEW p \in Projects,
             UpdateQueuedProject(r, p) \/ UpdateRunningProject(r, p)
      PROVE  CounterLimits'
  BY <1>2 DEF UpdateQueuedProject, UpdateRunningProject, CounterLimits
<1>3. ASSUME NEW r \in Runs, Cancel(r) \/ Reap(r) PROVE CounterLimits'
  BY <1>3 DEF Cancel, Reap, CounterLimits
<1>4. ASSUME NEW k \in Keys, Dispatch(k) PROVE CounterLimits'
  <2> DEFINE r == Head(queues[k])
  <2>1. Picks(k) /\ TakeSlot(r) BY <1>4 DEF Dispatch
  <2>2. queues[k] \in Seq(Runs) /\ queues[k] # <<>> BY <2>1, HeadRun DEF TypeOK
  <2>3. r \in Runs /\ key[r] = k BY <2>2, TailFacts DEF QueuesExact
  <2>4. Eligible(k) BY <2>1 DEF Picks
  <2> HIDE DEF r
  <2>5. k # None BY SchedulerAssumption
  <2>6. \A x \in Keys : byKey'[x] = IF x = k THEN byKey[x] + 1 ELSE byKey[x]
    BY <2>1, <2>3, <2>5 DEF TakeSlot, Inc, TypeOK
  <2>7. CASE k = SystemKey
    BY <2>1, <2>3, <2>4, <2>6, <2>7, SchedulerAssumption
    DEF TakeSlot, Eligible, IsSystem, CounterLimits, TypeOK
  <2>8. CASE k # SystemKey
    <3>1. byKey[k] < PerKey /\ normalTotal < MaxConcurrent
      BY <2>4, <2>8 DEF Eligible, IsSystem
    <3>2. normalTotal' = normalTotal + 1 /\ systemTotal' = systemTotal
      BY <2>1, <2>3, <2>8 DEF TakeSlot, IsSystem
    <3>3. byKey'[k] <= PerKey BY <2>6, <3>1, SchedulerAssumption DEF TypeOK
    <3>4. normalTotal' <= MaxConcurrent BY <3>1, <3>2, SchedulerAssumption DEF TypeOK
    <3> QED BY <2>6, <3>2, <3>3, <3>4 DEF CounterLimits
  <2> QED BY <2>7, <2>8
<1>5. ASSUME NEW k \in Keys, DispatchFails(k) PROVE CounterLimits'
  BY <1>5 DEF DispatchFails, CounterLimits
<1>6. ASSUME NEW r \in Runs,
             StartWorker(r) \/ EnterGuard(r) \/ BodyReturns(r) \/ ExitGuard(r)
             \/ BodyCanceled(r) \/ BodyFails(r) \/ PublishSuccess(r)
      PROVE  CounterLimits'
  BY <1>6 DEF StartWorker, EnterGuard, BodyReturns, ExitGuard, BodyCanceled, BodyFails,
              PublishSuccess, Publish, CounterLimits
<1>7. ASSUME NEW r \in Runs, GuardRefused(r) \/ FinishRun(r) PROVE CounterLimits'
  BY <1>7, ReleaseLowers DEF GuardRefused, FinishRun
<1>8. CASE Fence \/ CancelWaiters \/ CancelActive \/ StopDispatcher \/ ShutdownPools
  BY <1>8 DEF Fence, CancelWaiters, CancelActive, StopDispatcher, ShutdownPools, CounterLimits
<1>9. CASE UNCHANGED vars BY <1>9 DEF vars, CounterLimits
<1> QED
  BY <1>1, <1>2, <1>3, <1>4, <1>5, <1>6, <1>7, <1>8, <1>9
  DEF Next, Callers, Dispatcher, Worker, Shutdown

\* A step that leaves the index and the projects of known runs alone.
LEMMA IndexSame ==
    ASSUME IndexAgrees, projectIndex' = projectIndex, spec' = spec,
           \A r \in Runs : status'[r] = "unknown" <=> status[r] = "unknown"
    PROVE  IndexAgrees'
BY DEF IndexAgrees

\* The project index lists the known runs of each project.
LEMMA IndexStep ==
    TypeOK /\ PhaseAgrees /\ QueuesExact /\ IndexAgrees /\ [Next]_vars => IndexAgrees'
<1> SUFFICES ASSUME TypeOK, PhaseAgrees, QueuesExact, IndexAgrees, [Next]_vars
             PROVE  IndexAgrees'
  OBVIOUS
<1> USE DEF stateVars
<1>1. ASSUME NEW r \in Runs, NEW s \in Specs, Submit(r, s) PROVE IndexAgrees'
  BY <1>1 DEF Submit, IndexAgrees, TypeOK
<1>2. ASSUME NEW r \in Runs, NEW p \in Projects,
             UpdateQueuedProject(r, p) \/ UpdateRunningProject(r, p)
      PROVE  IndexAgrees'
  <2>1. Rebind(r, p) /\ status' = status /\ status[r] # "unknown"
    BY <1>2 DEF UpdateQueuedProject, UpdateRunningProject, PhaseAgrees
  <2>2. \A x \in Runs : spec'[x].proj = IF x = r THEN p ELSE spec[x].proj
    BY <2>1 DEF Rebind, TypeOK, TaskSpec
  <2>3. \A x \in Projects : projectIndex'[x] = IF x = p THEN projectIndex[x] \cup {r}
                                                        ELSE projectIndex[x] \ {r}
    BY <2>1 DEF Rebind
  <2>4. ASSUME NEW x \in Projects
        PROVE  projectIndex'[x] = {y \in Runs : status'[y] # "unknown" /\ spec'[y].proj = x}
    <3>1. projectIndex[x] = {y \in Runs : status[y] # "unknown" /\ spec[y].proj = x}
      BY DEF IndexAgrees
    <3>2. CASE x = p BY <2>1, <2>2, <2>3, <3>1, <3>2
    <3>3. CASE x # p
      <4>1. projectIndex'[x] = projectIndex[x] \ {r} BY <2>3, <3>3
      <4>2. \A y \in Runs : spec'[y].proj = x <=> y # r /\ spec[y].proj = x
        BY <2>2, <3>3
      <4> QED BY <2>1, <3>1, <4>1, <4>2
    <3> QED BY <3>2, <3>3
  <2> QED BY <2>4 DEF IndexAgrees
<1>3. ASSUME NEW r \in Runs, Cancel(r) PROVE IndexAgrees'
  BY <1>3, IndexSame DEF Cancel, TypeOK
<1>4. ASSUME NEW k \in Keys, Dispatch(k) \/ DispatchFails(k) PROVE IndexAgrees'
  <2> DEFINE r == Head(queues[k])
  <2>1. Picks(k) BY <1>4 DEF Dispatch, DispatchFails
  <2>2. queues[k] \in Seq(Runs) /\ queues[k] # <<>> BY <2>1, HeadRun DEF TypeOK
  <2>3. r \in Runs /\ status[r] = "queued"
    BY <2>2, TailFacts DEF QueuesExact
  <2> HIDE DEF r
  <2>4. PICK s \in {"running", "failed"} : status' = [status EXCEPT ![r] = s]
    BY <1>4 DEF Dispatch, DispatchFails, r
  <2>5. UNCHANGED <<projectIndex, spec>> BY <1>4 DEF Dispatch, DispatchFails
  <2> QED BY <2>3, <2>4, <2>5, IndexSame DEF TypeOK
<1>5. ASSUME NEW r \in Runs, Reap(r) PROVE IndexAgrees'
  BY <1>5 DEF Reap, IndexAgrees, TypeOK
<1>6. ASSUME NEW r \in Runs,
             StartWorker(r) \/ EnterGuard(r) \/ BodyReturns(r) \/ ExitGuard(r) \/ FinishRun(r)
      PROVE  IndexAgrees'
  BY <1>6, IndexSame DEF StartWorker, EnterGuard, BodyReturns, ExitGuard, FinishRun
<1>7. ASSUME NEW r \in Runs, BodyCanceled(r) \/ BodyFails(r) \/ PublishSuccess(r)
      PROVE  IndexAgrees'
  <2>1. PICK s \in Terminal : Publish(r, s)
    BY <1>7 DEF BodyCanceled, BodyFails, PublishSuccess, Terminal
  <2>2. status[r] = "running" BY <1>7 DEF BodyCanceled, BodyFails, PublishSuccess, PhaseAgrees
  <2> QED BY <2>1, <2>2, IndexSame DEF Publish, TypeOK, Terminal
<1>8. ASSUME NEW r \in Runs, GuardRefused(r) PROVE IndexAgrees'
  <2>1. status[r] = "running" BY <1>8 DEF GuardRefused, PhaseAgrees
  <2> QED BY <1>8, <2>1, IndexSame DEF GuardRefused, TypeOK
<1>9. CASE Fence BY <1>9, IndexSame DEF Fence
<1>10. CASE CancelWaiters \/ CancelActive \/ StopDispatcher \/ ShutdownPools
  BY <1>10, IndexSame DEF CancelWaiters, CancelActive, StopDispatcher, ShutdownPools
<1>11. CASE UNCHANGED vars BY <1>11, IndexSame DEF vars
<1> QED
  BY <1>1, <1>2, <1>3, <1>4, <1>5, <1>6, <1>7, <1>8, <1>9, <1>10, <1>11
  DEF Next, Callers, Dispatcher, Worker, Shutdown

-----------------------------------------------------------------------------
\* A scheduler that was just built satisfies the invariant.
LEMMA InitSafe == Init => SchedulerInv
<1> SUFFICES ASSUME Init PROVE SchedulerInv OBVIOUS
<1> USE DEF Init
<1>1. TypeOK
  <2>1. queues \in [Keys -> Seq(Runs)] /\ order \in Seq(Keys) OBVIOUS
  <2>2. status \in [Runs -> Statuses] /\ pc \in [Runs -> PCs] BY DEF Statuses, PCs
  <2>3. spec \in [Runs -> TaskSpec] /\ key \in [Runs -> Keys] BY KeyTypes
  <2> QED BY <2>1, <2>2, <2>3 DEF TypeOK
<1>2. PhaseAgrees BY DEF PhaseAgrees
<1>3. QueuesExact BY DEF QueuesExact, Distinct, Has
<1>4. CountersExact
  <2>1. Holders = {} BY DEF Holders
  <2> QED BY <2>1, FS_EmptySet DEF CountersExact
<1>5. CounterLimits BY SchedulerAssumption DEF CounterLimits
<1>6. IndexAgrees BY DEF IndexAgrees
<1> QED BY <1>1, <1>2, <1>3, <1>4, <1>5, <1>6 DEF SchedulerInv

\* Every step of callers, dispatcher, workers and shutdown() keeps it.
LEMMA StepSafe == SchedulerInv /\ [Next]_vars => SchedulerInv'
BY TypeStep, PhaseStep, QueueStep, CounterStep, LimitStep, IndexStep DEF SchedulerInv

\* The inductive invariant implies what the run checks.
LEMMA InvKeepsBooks == SchedulerInv => Bookkeeping
<1> SUFFICES ASSUME SchedulerInv PROVE Bookkeeping OBVIOUS
<1> USE DEF SchedulerInv
<1>1. QueuesHoldQueued
  <2>1. ASSUME NEW k \in Keys, NEW i \in DOMAIN queues[k]
        PROVE  /\ status[queues[k][i]] = "queued" /\ key[queues[k][i]] = k
               /\ queues[k][i] \notin token
    <3>1. Has(queues[k], queues[k][i]) BY DEF Has
    <3> QED BY <3>1 DEF QueuesExact, PhaseAgrees
  <2>2. \A k \in Keys : \A i, j \in DOMAIN queues[k] : queues[k][i] = queues[k][j] => i = j
    BY DEF QueuesExact, Distinct
  <2>3. ASSUME NEW r \in Runs, status[r] = "queued"
        PROVE  \E i \in DOMAIN queues[key[r]] : queues[key[r]][i] = r
    <3>1. key[r] \in Keys BY DEF TypeOK
    <3> QED BY <2>3, <3>1 DEF QueuesExact, Has
  <2> QED BY <2>1, <2>2, <2>3 DEF QueuesHoldQueued
<1>2. ConcurrencyLimits
  <2>1. /\ OfKey(SystemKey) = System /\ {r \in Holders : key[r] # SystemKey} = Ordinary
    BY DEF OfKey, System, Ordinary, IsSystem
  <2>2. \A k \in Keys : Cardinality(OfKey(k)) = byKey[k] BY DEF CountersExact, OfKey
  <2>3. Cardinality(Ordinary) = normalTotal /\ Cardinality(System) = systemTotal
    BY DEF CountersExact, Ordinary, System
  <2>4. \A k \in Keys \ {SystemKey} : Cardinality(OfKey(k)) <= PerKey
    BY <2>2 DEF CounterLimits
  <2>5. Cardinality({r \in Holders : key[r] # SystemKey}) <= MaxConcurrent
    BY <2>1, <2>3 DEF CounterLimits
  <2>6. Cardinality(OfKey(SystemKey)) <= SystemConcurrency
    BY <2>1, <2>3 DEF CounterLimits
  <2> QED BY <2>4, <2>5, <2>6 DEF ConcurrencyLimits, OfKey
<1> QED BY <1>1, <1>2 DEF Bookkeeping

\* The queues, slots, counters and the index describe the same runs.
THEOREM SchedulerKeepsBooks == Spec => []Bookkeeping
<1>1. Spec => []SchedulerInv BY InitSafe, StepSafe, PTL DEF Spec
<1> QED BY <1>1, InvKeepsBooks, PTL

\* Every way a run may come to hold a slot.
LEMMA OnlyDispatchTakes ==
    ASSUME SchedulerInv, Next, NEW r \in Runs, r \notin Holders, r \in Holders'
    PROVE  \E k \in Keys : Dispatch(k) /\ r = Head(queues[k])
<1> USE DEF SchedulerInv, Holders, stateVars, queueVars, counterVars, stopVars
<1>1. ASSUME NEW x \in Runs, NEW s \in Specs, Submit(x, s) PROVE FALSE
  BY <1>1 DEF Submit
<1>2. ASSUME NEW x \in Runs, NEW p \in Projects,
             UpdateQueuedProject(x, p) \/ UpdateRunningProject(x, p)
      PROVE  FALSE
  BY <1>2 DEF UpdateQueuedProject, UpdateRunningProject
<1>3. ASSUME NEW x \in Runs, Cancel(x) \/ Reap(x) PROVE FALSE
  BY <1>3 DEF Cancel, Reap
<1>4. ASSUME NEW k \in Keys, Dispatch(k) PROVE r = Head(queues[k])
  BY <1>4 DEF Dispatch, TypeOK
<1>5. ASSUME NEW k \in Keys, DispatchFails(k) PROVE FALSE
  BY <1>5 DEF DispatchFails
<1>6. ASSUME NEW x \in Runs, Worker(x) PROVE FALSE
  BY <1>6 DEF Worker, StartWorker, EnterGuard, GuardRefused, BodyCanceled, BodyFails, BodyReturns,
              PublishSuccess, Publish, FinishRun, ExitGuard, TypeOK
<1>7. CASE Shutdown
  BY <1>7 DEF Shutdown, Fence, CancelWaiters, CancelActive, StopDispatcher, ShutdownPools, TypeOK
<1> QED BY <1>1, <1>2, <1>3, <1>4, <1>5, <1>6, <1>7 DEF Next, Callers, Dispatcher

\* The dispatcher starts an ordinary task of a project only when it is free.
THEOREM ProjectSerial == Spec => DispatchRespectsProject
<1>1. SchedulerInv /\ [Next]_vars =>
        [\A r \in Runs :
          /\ r \notin Holders /\ r \in Holders'
          /\ ~spec[r].control /\ spec[r].proj # None
          => \A x \in Holders : spec[x].proj # spec[r].proj]_vars
  <2> SUFFICES ASSUME SchedulerInv, Next, NEW r \in Runs,
                      r \notin Holders, r \in Holders', ~spec[r].control, spec[r].proj # None,
                      NEW x \in Holders, spec[x].proj = spec[r].proj
               PROVE  FALSE
    OBVIOUS
  <2>1. PICK k \in Keys : Dispatch(k) /\ r = Head(queues[k]) BY OnlyDispatchTakes
  <2>2. ~ProjectBusy(r) BY <2>1 DEF Dispatch, Picks, Eligible
  <2>3. spec[r].proj \in Projects BY DEF SchedulerInv, TypeOK, TaskSpec
  <2>4. byProject[spec[r].proj] = Cardinality(OfProject(spec[r].proj))
        /\ byProject[spec[r].proj] \in Nat
    BY <2>3 DEF SchedulerInv, CountersExact, OfProject, TypeOK
  <2>5. byProject[spec[r].proj] = 0 BY <2>2, <2>4 DEF ProjectBusy
  <2>6. OfProject(spec[r].proj) \subseteq Runs /\ x \in OfProject(spec[r].proj)
    BY DEF OfProject, Holders
  <2>7. IsFiniteSet(OfProject(spec[r].proj)) BY <2>6, SlotSetsFinite
  <2> QED BY <2>4, <2>5, <2>6, <2>7, FS_EmptySet
<1>2. Spec => []SchedulerInv BY InitSafe, StepSafe, PTL DEF Spec
<1> QED BY <1>1, <1>2, PTL DEF Spec, DispatchRespectsProject

\* A published end is never replaced.
THEOREM EndsOnce == Spec => TerminalIsFinal
<1>1. SchedulerInv /\ [Next]_vars =>
        [\A r \in Runs : status[r] \in Terminal => status'[r] \in {status[r], "unknown"}]_vars
  <2> SUFFICES ASSUME SchedulerInv, Next, NEW r \in Runs, status[r] \in Terminal
               PROVE  status'[r] \in {status[r], "unknown"}
    OBVIOUS
  <2> USE DEF SchedulerInv, stateVars
  <2>1. status \in [Runs -> Statuses] /\ status[r] \notin {"unknown", "queued", "running"}
    BY DEF TypeOK, Terminal
  <2>2. ASSUME NEW x \in Runs, NEW s \in Specs, Submit(x, s) PROVE status'[r] = status[r]
    BY <2>1, <2>2 DEF Submit
  <2>3. ASSUME NEW x \in Runs, NEW p \in Projects,
               UpdateQueuedProject(x, p) \/ UpdateRunningProject(x, p)
        PROVE  status'[r] = status[r]
    BY <2>3 DEF UpdateQueuedProject, UpdateRunningProject
  <2>4. ASSUME NEW x \in Runs, Cancel(x) PROVE status'[r] = status[r]
    BY <2>1, <2>4 DEF Cancel
  <2>5. ASSUME NEW x \in Runs, Reap(x) PROVE status'[r] \in {status[r], "unknown"}
    BY <2>1, <2>5 DEF Reap
  <2>6. ASSUME NEW k \in Keys, Dispatch(k) \/ DispatchFails(k) PROVE status'[r] = status[r]
    <3>1. Picks(k) BY <2>6 DEF Dispatch, DispatchFails
    <3>2. queues[k] \in Seq(Runs) /\ queues[k] # <<>> BY <3>1, HeadRun DEF TypeOK
    <3>3. status[Head(queues[k])] = "queued" BY <3>2, TailFacts DEF QueuesExact
    <3>4. r # Head(queues[k]) BY <2>1, <3>3
    <3> QED BY <2>1, <2>6, <3>4 DEF Dispatch, DispatchFails
  <2>7. ASSUME NEW x \in Runs, Worker(x) PROVE status'[r] = status[r]
    <3>1. CASE status[x] = "running"
      BY <2>1, <2>7, <3>1 DEF Worker, StartWorker, EnterGuard, GuardRefused, BodyCanceled, BodyFails,
             BodyReturns, PublishSuccess, Publish, FinishRun, ExitGuard
    <3>2. CASE status[x] # "running"
      BY <2>7, <3>2 DEF Worker, StartWorker, EnterGuard, GuardRefused, BodyCanceled, BodyFails,
             BodyReturns, PublishSuccess, FinishRun, ExitGuard, PhaseAgrees
    <3> QED BY <3>1, <3>2
  <2>8. CASE Shutdown
    BY <2>1, <2>8
    DEF Shutdown, Fence, CancelWaiters, CancelActive, StopDispatcher, ShutdownPools, TypeOK
  <2> QED BY <2>2, <2>3, <2>4, <2>5, <2>6, <2>7, <2>8 DEF Next, Callers, Dispatcher
<1>2. Spec => []SchedulerInv BY InitSafe, StepSafe, PTL DEF Spec
<1> QED BY <1>1, <1>2, PTL DEF Spec, TerminalIsFinal

-----------------------------------------------------------------------------
(***************************************************************************)
(* close()                                                                 *)
(***************************************************************************)

\* close() has waited for the slots and found none.
Drained == closer \in {"quiesce", "teardown", "torn", "stopping", "closed"}

\* The inductive invariant of a service that may be closing.
CloseInv ==
    /\ SchedulerInv
    /\ (closer = "open") = ~fenced
    /\ fenced => \A r \in Runs : status[r] # "queued"
    /\ Drained => Holders = {}
    /\ NoLostRun

\* wait_for_idle() returns True only when no slot is held.
LEMMA IdleIsDrained == ASSUME SchedulerInv, Idle PROVE Holders = {}
<1>1. Cardinality(Ordinary) = 0 /\ Cardinality(System) = 0
  BY DEF SchedulerInv, CountersExact, Idle, Ordinary, System
<1>2. Ordinary \subseteq Runs /\ System \subseteq Runs /\ Holders = Ordinary \cup System
  BY DEF Ordinary, System, Holders
<1>3. Ordinary = {} /\ System = {} BY <1>1, <1>2, SlotSetsFinite, FS_EmptySet
<1> QED BY <1>2, <1>3

\* Every step of close(), and of the service until it ends, keeps CloseInv.
LEMMA CloseStepSafe == CloseInv /\ [CloseNext]_closeVars => CloseInv'
<1> SUFFICES ASSUME CloseInv, [CloseNext]_closeVars PROVE CloseInv' OBVIOUS
<1> USE DEF CloseInv, stateVars, queueVars, counterVars, stopVars
<1>1. [Next]_vars
  BY DEF CloseNext, Serve, Close, CloseFences, CloseFreesWaiters, DrainSucceeds, FirstDrainTimesOut,
         CloseCancels, SecondDrainTimesOut, Quiesce, TearDown, CloseStops, CloseFinishes,
         CloseGivesUp, closeVars, Next, Shutdown
<1>2. SchedulerInv' BY <1>1, StepSafe
<1>3. CASE Serve
  <2>1. UNCHANGED <<closer, fenced>> /\ Next
    BY <1>3 DEF Serve, Next, Callers, Dispatcher, Worker, Submit, UpdateQueuedProject,
         UpdateRunningProject, Cancel, Dispatch, DispatchFails, Reap, StartWorker, EnterGuard,
         GuardRefused, BodyCanceled, BodyFails, BodyReturns, PublishSuccess, Publish, FinishRun,
         ExitGuard
  <2>2. fenced => \A r \in Runs : status'[r] # "queued"
    <3> SUFFICES ASSUME fenced, NEW r \in Runs PROVE status'[r] # "queued" OBVIOUS
    <3>1. status \in [Runs -> Statuses] /\ status[r] # "queued" BY DEF SchedulerInv, TypeOK
    <3>2. ASSUME NEW x \in Runs, NEW s \in Specs, Submit(x, s) PROVE FALSE
      BY <3>2 DEF Submit
    <3> QED
      BY <1>3, <3>1, <3>2 DEF Serve, Callers, Dispatcher, Worker, UpdateQueuedProject,
         UpdateRunningProject, Cancel, Dispatch, DispatchFails, Reap, StartWorker, EnterGuard,
         GuardRefused, BodyCanceled, BodyFails, BodyReturns, PublishSuccess, Publish, FinishRun,
         ExitGuard
  <2>3. Drained => Holders' = {}
    <3> SUFFICES ASSUME Drained, NEW r \in Holders' PROVE FALSE OBVIOUS
    <3>1. r \in Runs /\ r \notin Holders BY DEF Holders
    <3>2. PICK k \in Keys : Dispatch(k) /\ r = Head(queues[k])
      BY <2>1, <3>1, OnlyDispatchTakes
    <3>3. queues[k] \in Seq(Runs) /\ queues[k] # <<>>
      BY <3>2, HeadRun DEF SchedulerInv, TypeOK, Dispatch
    <3>4. status[r] = "queued" BY <3>2, <3>3, TailFacts DEF SchedulerInv, QueuesExact
    <3> QED BY <3>1, <3>4 DEF Drained
  <2>4. NoLostRun'
    <3> SUFFICES ASSUME NEW r \in Runs PROVE pc'[r] # "lost" BY DEF NoLostRun
    <3>1. pc \in [Runs -> PCs] /\ pc[r] # "lost" BY DEF SchedulerInv, TypeOK, NoLostRun
    <3> QED
      BY <1>3, <3>1 DEF Serve, Callers, Dispatcher, Worker, Submit, UpdateQueuedProject,
         UpdateRunningProject, Cancel, Dispatch, DispatchFails, Reap, StartWorker, EnterGuard,
         GuardRefused, BodyCanceled, BodyFails, BodyReturns, PublishSuccess, Publish, FinishRun,
         ExitGuard
  <2> QED BY <1>2, <2>1, <2>2, <2>3, <2>4 DEF Drained
<1>4. CASE CloseFences
  BY <1>2, <1>4 DEF CloseFences, Fence, Drained, NoLostRun
<1>5. CASE CloseFreesWaiters \/ CloseCancels
  BY <1>2, <1>5 DEF CloseFreesWaiters, CancelWaiters, CloseCancels, CancelActive, Drained, NoLostRun
<1>6. CASE DrainSucceeds
  <2>1. Holders' = {} BY <1>6, IdleIsDrained DEF DrainSucceeds, vars, Holders
  <2> QED BY <1>2, <1>6, <2>1 DEF DrainSucceeds, vars, NoLostRun
<1>7. CASE FirstDrainTimesOut \/ SecondDrainTimesOut \/ Quiesce \/ TearDown
  BY <1>2, <1>7
  DEF FirstDrainTimesOut, SecondDrainTimesOut, Quiesce, TearDown, vars, Drained, Holders, NoLostRun
<1>8. CASE CloseStops \/ CloseGivesUp
  BY <1>2, <1>8 DEF CloseStops, CloseGivesUp, StopDispatcher, Drained, Holders, NoLostRun
<1>9. CASE CloseFinishes
  <2>1. \A r \in Runs : pc[r] # "pooled" BY <1>9 DEF CloseFinishes, Drained, Holders
  <2>2. pc' = pc BY <1>9, <2>1 DEF CloseFinishes, ShutdownPools, SchedulerInv, TypeOK
  <2> QED BY <1>2, <1>9, <2>2 DEF CloseFinishes, ShutdownPools, Drained, Holders, NoLostRun
<1>10. CASE UNCHANGED closeVars
  BY <1>2, <1>10 DEF closeVars, vars, Drained, Holders, NoLostRun
<1> QED BY <1>3, <1>4, <1>5, <1>6, <1>7, <1>8, <1>9, <1>10 DEF CloseNext, Close

\* CloseInv holds of a service that is not closing.
LEMMA CloseInitSafe == CloseInit => CloseInv
BY InitSafe DEF CloseInit, CloseInv, Init, Drained, NoLostRun

\* CloseInv holds whenever close() is called and however its waits time out.
LEMMA CloseInvariant == CloseSpec => []CloseInv
BY CloseInitSafe, CloseStepSafe, PTL DEF CloseSpec

\* Once close() has torn the service down no callback runs or is about to:
\* quiesce and teardown are reached only from a wait_for_idle() that saw both
\* totals at zero, the totals count the slots exactly, and the fence left
\* nothing queued that could take one again.
THEOREM TeardownAfterDrain == CloseSpec => []NoCallbackAfterTeardown
<1>1. CloseInv => NoCallbackAfterTeardown
  BY DEF CloseInv, NoCallbackAfterTeardown, TornDown, Drained, Holders
<1> QED BY <1>1, CloseInvariant, PTL

\* close() breaks nothing the scheduler counts: with whatever drain it gives up
\* on, every counter still equals the slots held.
THEOREM CloseKeepsSlots == CloseSpec => []SlotsKept
<1>1. CloseInv => SlotsKept
  BY InvKeepsBooks DEF CloseInv, SlotsKept, Bookkeeping
<1> QED BY <1>1, CloseInvariant, PTL
==============================================================================
