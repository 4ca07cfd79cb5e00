---------------------------- MODULE TaskScheduler ----------------------------
(***************************************************************************)
(* The in-process task scheduler of src/tasking/scheduler.py: per-key      *)
(* queues, one dispatcher thread, two thread pools, cooperative            *)
(* cancellation and the admission fence used on shutdown.                  *)
(*                                                                         *)
(* One action is one critical section of the scheduler's _lock / _cv, or   *)
(* one step a worker thread takes outside of it.  A worker publishes its   *)
(* terminal status in one critical section and gives its slot back in the  *)
(* next one, so the two are separate actions; likewise a callback's last   *)
(* look at its cancellation token and the publication of SUCCEEDED.        *)
(*                                                                         *)
(* Chats only prefix queue keys and project keys, so one chat is modelled: *)
(* a member of Projects stands for "chat:project", the only queue that     *)
(* ends in ":SYSTEM" is SystemKey.  Run ids are fresh UUIDs: an id is used *)
(* again only after nothing in the scheduler refers to its last use.       *)
(* Progress texts, listeners and the human-readable task ids are data that *)
(* no decision of the scheduler reads; they are left out.                  *)
(***************************************************************************)
EXTENDS Integers, Sequences, FiniteSets, SequencesExt

CONSTANTS
    Runs,               \* run ids
    Projects,           \* project serial keys, "chat:project"
    ExplicitKeys,       \* queue keys given by the caller (TaskSpec.queue_key)
    SystemKey,          \* "chat:SYSTEM"
    DefaultKey,         \* "chat:DEFAULT"
    None,               \* absent project or queue key
    Specs,              \* the task specs callers may submit
    MaxConcurrent,      \* max_concurrent
    PerKey,             \* per_key_concurrency
    SystemConcurrency   \* system_concurrency

Keys == Projects \cup ExplicitKeys \cup {SystemKey, DefaultKey}

\* TaskSpec: the fields that route and schedule a task.  "control" is a
\* task_type of system_help or system_exit, "high" is TaskPriority.HIGH.
TaskSpec == [proj : Projects \cup {None}, key : ExplicitKeys \cup {None},
             system : BOOLEAN, control : BOOLEAN, high : BOOLEAN]

ASSUME SchedulerAssumption ==
    /\ IsFiniteSet(Runs)
    /\ Specs \subseteq TaskSpec
    /\ None \notin Keys
    /\ SystemKey # DefaultKey
    /\ {SystemKey, DefaultKey} \cap (Projects \cup ExplicitKeys) = {}
    /\ MaxConcurrent \in Nat \ {0}
    /\ PerKey \in Nat \ {0}
    /\ SystemConcurrency \in Nat \ {0}

VARIABLES
    status,           \* TaskRunState.status, "unknown" when not in _states
    spec,             \* TaskRunState.spec
    key,              \* TaskRunState.assigned_queue_key
    token,            \* the runs whose CancellationToken is set
    queues,           \* _queues: key -> queued runs
    order,            \* the keys of _queues in dict (first insertion) order
    byKey,            \* _running_by_key
    byProject,        \* _running_by_project
    normalTotal,      \* _running_total_normal
    systemTotal,      \* _running_total_system
    projectIndex,     \* _by_project
    pc,               \* where the run's worker is
    fenced,           \* _admission_fenced
    waitersCanceled,  \* the run guard's cancel_waiters() was called
    stopped,          \* _stopped: the dispatcher returns
    poolsDown         \* both executors were shut down

stateVars   == <<status, spec, key, token>>
queueVars   == <<queues, order>>
counterVars == <<byKey, byProject, normalTotal, systemTotal>>
stopVars    == <<fenced, waitersCanceled, stopped, poolsDown>>
vars        == <<stateVars, queueVars, counterVars, projectIndex, pc, stopVars>>

Terminal == {"succeeded", "failed", "canceled"}
Statuses == {"unknown", "queued", "running"} \cup Terminal

\* none: no worker; pooled: handed to the executor; guard: entering the run
\* guard; body: in the callback; publish: callback returned and its token
\* was clear; ending: terminal status published, slot still held; exit:
\* leaving the run guard; lost: the executor dropped the work item.
PCs == {"none", "pooled", "guard", "body", "publish", "ending", "exit", "lost"}

NoSpec == [proj |-> None, key |-> None, system |-> FALSE,
           control |-> FALSE, high |-> FALSE]

Init ==
    /\ status = [r \in Runs |-> "unknown"]
    /\ spec = [r \in Runs |-> NoSpec]
    /\ key = [r \in Runs |-> DefaultKey]
    /\ token = {}
    /\ queues = [k \in Keys |-> <<>>]
    /\ order = <<>>
    /\ byKey = [k \in Keys |-> 0]
    /\ byProject = [p \in Projects |-> 0]
    /\ normalTotal = 0
    /\ systemTotal = 0
    /\ projectIndex = [p \in Projects |-> {}]
    /\ pc = [r \in Runs |-> "none"]
    /\ fenced = FALSE
    /\ waitersCanceled = FALSE
    /\ stopped = FALSE
    /\ poolsDown = FALSE

-----------------------------------------------------------------------------
(***************************************************************************)
(* Queues, keys and counters                                               *)
(***************************************************************************)

\* TaskSpec.get_effective_queue_key()
EffectiveKey(s) ==
    CASE s.key # None  -> s.key
      [] s.key = None /\ s.system -> SystemKey
      [] s.key = None /\ ~s.system /\ s.proj # None -> s.proj
      [] OTHER -> DefaultKey

IsSystem(k) == k = SystemKey

\* _requeue_item_unlocked()
Requeue(q, r, s) == IF s.high THEN <<r>> \o q ELSE Append(q, r)

\* _pop_queued_item_unlocked(): the queue without the run.
Without(q, r) ==
    IF \E i \in DOMAIN q : q[i] = r
    THEN RemoveAt(q, CHOOSE i \in DOMAIN q : q[i] = r)
    ELSE q

\* Keys enter the defaultdict at the end and never leave it.
KnownKeys(k) == IF \E i \in DOMAIN order : order[i] = k
                THEN order
                ELSE Append(order, k)

\* f[k] += 1 and f[k] = max(0, f[k] - 1), for a key that may be absent.
Inc(f, k) == IF k = None THEN f ELSE [f EXCEPT ![k] = @ + 1]
Dec(f, k) == IF k = None THEN f ELSE [f EXCEPT ![k] = IF @ > 0 THEN @ - 1 ELSE 0]

\* The dispatcher reserves a slot for run r.
TakeSlot(r) ==
    /\ byKey' = Inc(byKey, key[r])
    /\ byProject' = Inc(byProject, spec[r].proj)
    /\ normalTotal' = IF IsSystem(key[r]) THEN normalTotal ELSE normalTotal + 1
    /\ systemTotal' = IF IsSystem(key[r]) THEN systemTotal + 1 ELSE systemTotal

\* Mutant of ReleaseSlot: the project's slot is not given back.
ReleaseSlotForgetsProject(r) ==
    /\ byKey' = Dec(byKey, key[r])
    /\ UNCHANGED byProject
    /\ normalTotal' = IF IsSystem(key[r]) \/ normalTotal = 0
                      THEN normalTotal ELSE normalTotal - 1
    /\ systemTotal' = IF IsSystem(key[r]) /\ systemTotal > 0
                      THEN systemTotal - 1 ELSE systemTotal

\* _release_running_slot_unlocked()
ReleaseSlot(r) ==
    /\ byKey' = Dec(byKey, key[r])
    /\ byProject' = Dec(byProject, spec[r].proj)
    /\ normalTotal' = IF IsSystem(key[r]) \/ normalTotal = 0
                      THEN normalTotal ELSE normalTotal - 1
    /\ systemTotal' = IF IsSystem(key[r]) /\ systemTotal > 0
                      THEN systemTotal - 1 ELSE systemTotal

-----------------------------------------------------------------------------
(***************************************************************************)
(* Callers                                                                 *)
(***************************************************************************)

\* submit(): the rate limiter and the circuit breaker may refuse the task
\* before this critical section; the fence refuses it in it.
Submit(r, s) ==
    /\ ~stopped /\ ~fenced
    /\ status[r] = "unknown" /\ pc[r] = "none"
    /\ status' = [status EXCEPT ![r] = "queued"]
    /\ spec' = [spec EXCEPT ![r] = s]
    /\ key' = [key EXCEPT ![r] = EffectiveKey(s)]
    /\ queues' = [queues EXCEPT ![EffectiveKey(s)] = Requeue(@, r, s)]
    /\ order' = KnownKeys(EffectiveKey(s))
    /\ projectIndex' = [p \in Projects |->
                          IF p = s.proj THEN projectIndex[p] \cup {r} ELSE projectIndex[p]]
    /\ UNCHANGED <<token, counterVars, pc, stopVars>>

\* What update_project_id() always does with the spec and the index.
Rebind(r, p) ==
    /\ spec' = [spec EXCEPT ![r].proj = p]
    /\ projectIndex' = [x \in Projects |->
                          IF x = p THEN projectIndex[x] \cup {r}
                                   ELSE projectIndex[x] \ {r}]

\* update_project_id() of a queued run moves it to the queue its new spec
\* names.
UpdateQueuedProject(r, p) ==
    LET new == EffectiveKey([spec[r] EXCEPT !.proj = p])
    IN  /\ status[r] = "queued"
        /\ spec[r].proj # p
        /\ Rebind(r, p)
        /\ \/ /\ key[r] = new
              /\ UNCHANGED <<queues, order, key>>
           \/ /\ key[r] # new
              /\ queues' = [queues EXCEPT ![key[r]] = Without(@, r),
                                          ![new] = Requeue(@, r, spec[r])]
              /\ order' = KnownKeys(new)
              /\ key' = [key EXCEPT ![r] = new]
        /\ UNCHANGED <<status, token, counterVars, pc, stopVars>>

\* Mutant of MoveProjectSlot: the old project keeps the run's slot.
MoveProjectSlotOnlyAdds(r, p) == byProject' = Inc(byProject, p)

\* The part of update_project_id() that moves a running run's project slot.
MoveProjectSlot(r, p) == byProject' = Inc(Dec(byProject, spec[r].proj), p)

\* update_project_id() of a running run, called by its own callback once it
\* has resolved the project.  The run keeps its queue key.
UpdateRunningProject(r, p) ==
    /\ pc[r] = "body"
    /\ spec[r].proj # p
    /\ Rebind(r, p)
    /\ MoveProjectSlot(r, p)
    /\ UNCHANGED <<status, key, token, queueVars, byKey, normalTotal,
                   systemTotal, pc, stopVars>>

\* Mutant of Cancel: a run that has already ended is marked canceled.
CancelEndedToo(r) ==
    /\ status[r] # "unknown"
    /\ token' = token \cup {r}
    /\ status' = [status EXCEPT ![r] = IF @ = "running" THEN @ ELSE "canceled"]
    /\ queues' = [queues EXCEPT ![key[r]] = Without(@, r)]
    /\ UNCHANGED <<spec, key, order, counterVars, projectIndex, pc, stopVars>>

\* cancel(): a queued run leaves its queue and is CANCELED, a running one
\* only has its token set, an ended one is left alone.
Cancel(r) ==
    /\ status[r] \in {"queued", "running"}
    /\ token' = token \cup {r}
    /\ status' = [status EXCEPT ![r] = IF @ = "queued" THEN "canceled" ELSE @]
    /\ queues' = IF status[r] = "queued"
                 THEN [queues EXCEPT ![key[r]] = Without(@, r)]
                 ELSE queues
    /\ UNCHANGED <<spec, key, order, counterVars, projectIndex, pc, stopVars>>

-----------------------------------------------------------------------------
(***************************************************************************)
(* The dispatcher thread                                                   *)
(***************************************************************************)

\* A control-plane task may run beside the other tasks of its project.
ProjectBusy(r) ==
    /\ spec[r].proj # None
    /\ byProject[spec[r].proj] >= 1
    /\ ~spec[r].control

\* Mutant of Eligible: the project is not consulted.
EligibleIgnoresProject(k) ==
    /\ queues[k] # <<>>
    /\ IF IsSystem(k) THEN systemTotal < SystemConcurrency
                      ELSE normalTotal < MaxConcurrent
    /\ byKey[k] < IF IsSystem(k) THEN SystemConcurrency ELSE PerKey

\* The conditions _pick_next_task_unlocked() puts on a queue and its head.
\* Its loop over canceled heads finds none: cancel() removes a queued run
\* from its queue when it sets the token (QueuesHoldQueued).
Eligible(k) ==
    /\ queues[k] # <<>>
    /\ IF IsSystem(k) THEN systemTotal < SystemConcurrency
                      ELSE normalTotal < MaxConcurrent
    /\ byKey[k] < IF IsSystem(k) THEN SystemConcurrency ELSE PerKey
    /\ ~ProjectBusy(Head(queues[k]))

\* _pick_next_task_unlocked() scans the queues in dict order.
Picks(k) ==
    \E i \in DOMAIN order :
        /\ order[i] = k
        /\ Eligible(k)
        /\ \A j \in 1..(i - 1) : ~Eligible(order[j])

\* One round of _dispatch_loop() that finds a task and hands it over.
Dispatch(k) ==
    LET r == Head(queues[k])
    IN  /\ ~stopped
        /\ Picks(k)
        /\ queues' = [queues EXCEPT ![k] = Tail(@)]
        /\ TakeSlot(r)
        /\ status' = [status EXCEPT ![r] = "running"]
        /\ pc' = [pc EXCEPT ![r] = "pooled"]
        /\ UNCHANGED <<spec, key, token, order, projectIndex, stopVars>>

\* The same round when executor.submit() raises: the reservation is rolled
\* back and the run is FAILED.
DispatchFails(k) ==
    LET r == Head(queues[k])
    IN  /\ ~stopped
        /\ Picks(k)
        /\ queues' = [queues EXCEPT ![k] = Tail(@)]
        /\ status' = [status EXCEPT ![r] = "failed"]
        /\ UNCHANGED <<spec, key, token, order, counterVars, projectIndex, pc, stopVars>>

\* _reap_completed_states(), on a round that finds no task: the state of a
\* run that ended 300 seconds ago is evicted.  A worker's critical sections
\* are far closer together than that, so its worker is gone by then.
Reap(r) ==
    /\ ~stopped
    /\ \A k \in Keys : ~Picks(k)
    /\ status[r] \in Terminal
    /\ pc[r] = "none"
    /\ status' = [status EXCEPT ![r] = "unknown"]
    /\ spec' = [spec EXCEPT ![r] = NoSpec]
    /\ key' = [key EXCEPT ![r] = DefaultKey]
    /\ token' = token \ {r}
    /\ projectIndex' = [p \in Projects |-> projectIndex[p] \ {r}]
    /\ UNCHANGED <<queueVars, counterVars, pc, stopVars>>

-----------------------------------------------------------------------------
(***************************************************************************)
(* Worker threads                                                          *)
(***************************************************************************)

OnThread == {"guard", "body", "publish", "ending", "exit"}

\* ThreadPoolExecutor: a thread of the run's pool is free.
ThreadFree(r) ==
    Cardinality({x \in Runs : pc[x] \in OnThread /\ IsSystem(key[x]) = IsSystem(key[r])})
        < IF IsSystem(key[r]) THEN SystemConcurrency ELSE MaxConcurrent

\* A pool thread takes the work item and calls _run_with_guard().
StartWorker(r) ==
    /\ pc[r] = "pooled"
    /\ ThreadFree(r)
    /\ pc' = [pc EXCEPT ![r] = "guard"]
    /\ UNCHANGED <<stateVars, queueVars, counterVars, projectIndex, stopVars>>

\* The run guard admits the worker.  RestartGate.task_guard() looks at the
\* cancel event last, after both of its locks are held.
EnterGuard(r) ==
    /\ pc[r] = "guard"
    /\ ~waitersCanceled
    /\ pc' = [pc EXCEPT ![r] = "body"]
    /\ UNCHANGED <<stateVars, queueVars, counterVars, projectIndex, stopVars>>

\* Mutant of GuardRefused: the reserved slot is not given back.
GuardRefusedKeepsSlot(r) ==
    /\ pc[r] = "guard"
    /\ status' = [status EXCEPT ![r] =
                    IF fenced \/ r \in token THEN "canceled" ELSE "failed"]
    /\ pc' = [pc EXCEPT ![r] = "none"]
    /\ UNCHANGED <<spec, key, token, queueVars, counterVars, projectIndex, stopVars>>

\* Mutant of GuardRefused: a waiter does not hear cancel_waiters().
GuardRefusedDeaf(r) ==
    /\ pc[r] = "guard"
    /\ ~waitersCanceled
    /\ status' = [status EXCEPT ![r] =
                    IF fenced \/ r \in token THEN "canceled" ELSE "failed"]
    /\ ReleaseSlot(r)
    /\ pc' = [pc EXCEPT ![r] = "none"]
    /\ UNCHANGED <<spec, key, token, queueVars, projectIndex, stopVars>>

\* The guard raises, because its waiters were canceled or for a reason of
\* its own: the run ends and its slot is released in one critical section.
GuardRefused(r) ==
    /\ pc[r] = "guard"
    /\ status' = [status EXCEPT ![r] =
                    IF fenced \/ r \in token THEN "canceled" ELSE "failed"]
    /\ ReleaseSlot(r)
    /\ pc' = [pc EXCEPT ![r] = "none"]
    /\ UNCHANGED <<spec, key, token, queueVars, projectIndex, stopVars>>

\* _do_run(): a terminal status is published under _cv.
Publish(r, s) ==
    /\ status' = [status EXCEPT ![r] = s]
    /\ pc' = [pc EXCEPT ![r] = "ending"]
    /\ UNCHANGED <<spec, key, token, queueVars, counterVars, projectIndex, stopVars>>

\* The token is set before the callback, during it (check_canceled) or
\* after it returns: TaskCanceledError.
BodyCanceled(r) == pc[r] = "body" /\ r \in token /\ Publish(r, "canceled")

\* The callback or the circuit breaker around it raises.
BodyFails(r) == pc[r] = "body" /\ Publish(r, "failed")

\* The callback returned and token.raise_if_canceled() let it pass.
BodyReturns(r) ==
    /\ pc[r] = "body"
    /\ r \notin token
    /\ pc' = [pc EXCEPT ![r] = "publish"]
    /\ UNCHANGED <<stateVars, queueVars, counterVars, projectIndex, stopVars>>

PublishSuccess(r) == pc[r] = "publish" /\ Publish(r, "succeeded")

\* The finally clause of _do_run().
FinishRun(r) ==
    /\ pc[r] = "ending"
    /\ ReleaseSlot(r)
    /\ pc' = [pc EXCEPT ![r] = "exit"]
    /\ UNCHANGED <<stateVars, queueVars, projectIndex, stopVars>>

\* guard.__exit__(); the thread returns to its pool.
ExitGuard(r) ==
    /\ pc[r] = "exit"
    /\ pc' = [pc EXCEPT ![r] = "none"]
    /\ UNCHANGED <<stateVars, queueVars, counterVars, projectIndex, stopVars>>

-----------------------------------------------------------------------------
(***************************************************************************)
(* Shutdown                                                                *)
(***************************************************************************)

\* fence_admission(), first critical section: refuse new work and cancel
\* what is queued (_drain_queued_tasks_unlocked).
Fence ==
    /\ ~fenced
    /\ fenced' = TRUE
    /\ status' = [r \in Runs |-> IF status[r] = "queued" THEN "canceled" ELSE status[r]]
    /\ queues' = [k \in Keys |-> <<>>]
    /\ UNCHANGED <<spec, key, token, order, counterVars, projectIndex, pc,
                   waitersCanceled, stopped, poolsDown>>

\* fence_admission(), after the lock: the run guard's cancel_waiters().
CancelWaiters ==
    /\ fenced /\ ~waitersCanceled
    /\ waitersCanceled' = TRUE
    /\ UNCHANGED <<stateVars, queueVars, counterVars, projectIndex, pc,
                   fenced, stopped, poolsDown>>

\* cancel_active(): set the token of every RUNNING run.
CancelActive ==
    /\ token' = token \cup {r \in Runs : status[r] = "running"}
    /\ UNCHANGED <<status, spec, key, queueVars, counterVars, projectIndex, pc, stopVars>>

\* stop(), after its call of fence_admission(): the dispatcher ends.
StopDispatcher ==
    /\ waitersCanceled /\ ~stopped
    /\ stopped' = TRUE
    /\ UNCHANGED <<stateVars, queueVars, counterVars, projectIndex, pc,
                   fenced, waitersCanceled, poolsDown>>

\* stop(shutdown_executor=True): both pools are shut down with
\* cancel_futures=True, which drops the items no thread has taken yet.
ShutdownPools ==
    /\ stopped /\ ~poolsDown
    /\ poolsDown' = TRUE
    /\ pc' = [r \in Runs |-> IF pc[r] = "pooled" THEN "lost" ELSE pc[r]]
    /\ UNCHANGED <<stateVars, queueVars, counterVars, projectIndex,
                   fenced, waitersCanceled, stopped>>

\* wait_for_idle(): its condition for returning True.
Idle == normalTotal = 0 /\ systemTotal = 0

-----------------------------------------------------------------------------

Callers ==
    \E r \in Runs :
        \/ \E s \in Specs : Submit(r, s)
        \/ \E p \in Projects : UpdateQueuedProject(r, p) \/ UpdateRunningProject(r, p)
        \/ Cancel(r)

Dispatcher ==
    \/ \E k \in Keys : Dispatch(k) \/ DispatchFails(k)
    \/ \E r \in Runs : Reap(r)

Worker(r) ==
    \/ StartWorker(r)
    \/ EnterGuard(r)
    \/ GuardRefused(r)
    \/ BodyCanceled(r)
    \/ BodyFails(r)
    \/ BodyReturns(r)
    \/ PublishSuccess(r)
    \/ FinishRun(r)
    \/ ExitGuard(r)

Shutdown ==
    \/ Fence
    \/ CancelWaiters
    \/ CancelActive
    \/ StopDispatcher
    \/ ShutdownPools

Next ==
    \/ Callers
    \/ Dispatcher
    \/ \E r \in Runs : Worker(r)
    \/ Shutdown

Spec == Init /\ [][Next]_vars

(***************************************************************************)
(* The dispatcher thread runs forever and a started worker runs to its     *)
(* end.  Nothing obliges a caller to submit or cancel, executor.submit()   *)
(* to raise, or the run guard to admit: a restart in another process may   *)
(* hold its locks, and only cancel_waiters() is sure to end the wait.      *)
(***************************************************************************)
Fairness ==
    /\ \A k \in Keys : WF_vars(Dispatch(k))
    /\ \A r \in Runs :
          /\ WF_vars(StartWorker(r))
          /\ WF_vars(waitersCanceled /\ GuardRefused(r))
          /\ WF_vars(PublishSuccess(r))
          /\ WF_vars(FinishRun(r))
          /\ WF_vars(ExitGuard(r))
    /\ WF_vars(CancelWaiters)

FairSpec == Spec /\ Fairness

-----------------------------------------------------------------------------
(***************************************************************************)
(* Properties                                                              *)
(***************************************************************************)

\* The fields of the scheduler keep their types.
TypeOK ==
    /\ status \in [Runs -> Statuses]
    /\ spec \in [Runs -> TaskSpec]
    /\ key \in [Runs -> Keys]
    /\ token \subseteq Runs
    /\ queues \in [Keys -> Seq(Runs)]
    /\ order \in Seq(Keys)
    /\ byKey \in [Keys -> Nat]
    /\ byProject \in [Projects -> Nat]
    /\ normalTotal \in Nat
    /\ systemTotal \in Nat
    /\ projectIndex \in [Projects -> SUBSET Runs]
    /\ pc \in [Runs -> PCs]
    /\ fenced \in BOOLEAN
    /\ waitersCanceled \in BOOLEAN
    /\ stopped \in BOOLEAN
    /\ poolsDown \in BOOLEAN

\* Runs that hold a slot: dispatched, and not yet through
\* _release_running_slot_unlocked().
Holders == {r \in Runs : pc[r] \notin {"none", "exit"}}

\* The queues and the run states describe the same work: a run waits in
\* exactly the queue it is assigned to, once, iff it is QUEUED, and no
\* queued run has its token set (what the dispatcher's scan relies on).
QueuesHoldQueued ==
    /\ \A k \in Keys :
          /\ \A i \in DOMAIN queues[k] :
                /\ status[queues[k][i]] = "queued"
                /\ key[queues[k][i]] = k
                /\ queues[k][i] \notin token
          /\ \A i, j \in DOMAIN queues[k] : queues[k][i] = queues[k][j] => i = j
    /\ \A r \in Runs :
          status[r] = "queued" => \E i \in DOMAIN queues[key[r]] : queues[key[r]][i] = r

\* The running counters are the numbers of slots really held, by key, by
\* project and in total, at every point between two critical sections:
\* nothing leaks when a run is rebound, canceled, refused by the guard or
\* fails to start, and the max(0, ...) clamps never hide a double release.
CountersExact ==
    /\ \A k \in Keys : byKey[k] = Cardinality({r \in Holders : key[r] = k})
    /\ \A p \in Projects : byProject[p] = Cardinality({r \in Holders : spec[r].proj = p})
    /\ normalTotal = Cardinality({r \in Holders : ~IsSystem(key[r])})
    /\ systemTotal = Cardinality({r \in Holders : IsSystem(key[r])})

\* Never more than per_key_concurrency runs of one ordinary queue, nor more
\* than max_concurrent ordinary runs in all, are anywhere between dispatch
\* and the release of their slot.
ConcurrencyLimits ==
    /\ \A k \in Keys \ {SystemKey} :
          Cardinality({r \in Holders : key[r] = k}) <= PerKey
    /\ Cardinality({r \in Holders : key[r] # SystemKey}) <= MaxConcurrent
    /\ Cardinality({r \in Holders : key[r] = SystemKey}) <= SystemConcurrency

\* The dispatcher starts an ordinary task of a project only when no other
\* run of that project holds a slot, whichever queue it came through and
\* however it came to belong to the project.
DispatchRespectsProject ==
    [][\A r \in Runs :
          /\ r \notin Holders /\ r \in Holders'
          /\ ~spec[r].control /\ spec[r].proj # None
          => \A x \in Holders : spec[x].proj # spec[r].proj]_vars

\* A run ends once: whatever the callback, the guard, cancel() and the fence
\* do in whatever order, a published terminal status is never replaced (the
\* state may only be evicted), so listeners see one terminal event.
TerminalIsFinal ==
    [][\A r \in Runs : status[r] \in Terminal => status'[r] \in {status[r], "unknown"}]_vars

\* _by_project lists exactly the known runs of the project.
IndexAgrees ==
    \A p \in Projects :
        projectIndex[p] = {r \in Runs : status[r] # "unknown" /\ spec[r].proj = p}

\* Between any two critical sections of submit(), cancel(), update_project_id(),
\* the dispatcher, the workers, eviction and the fence, the queues, the slots,
\* the counters and the project index all describe the same runs, within the
\* limits.
Bookkeeping ==
    /\ TypeOK
    /\ QueuesHoldQueued
    /\ CountersExact
    /\ ConcurrencyLimits
    /\ IndexAgrees

\* Once admission is fenced, a run that is not yet in its callback stops
\* being RUNNING: the fence's docstring says the reserved slots converge.
FencedWorkConverges ==
    \A r \in Runs :
        (fenced /\ pc[r] \in {"pooled", "guard"}) ~> (pc[r] \notin {"pooled", "guard", "lost"})
=============================================================================
