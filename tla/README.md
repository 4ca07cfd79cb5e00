# GhostAP in TLA+

GhostAP is a Feishu/Lark gateway that runs coding agents for chats: messages become tasks, tasks
run agents in repositories, cards show what happens, and an "autonomous department" of employee Bots
is hired, accepts work durably, reports it on cards and is retired. This directory holds a TLA+ model
of the parts of `src/src/` whose correctness depends on the order of events: threads, processes,
crashes, timeouts and retries. Paths below are relative to `src/src/`.

## 1. Inventory

| Part | State | Operations | Hard because | Modelled |
|---|---|---|---|---|
| Task scheduler (`tasking/scheduler.py`) | queues by key, running counters, run states, indexes, fence | `submit`, `cancel`, `update_project_id`, `_dispatch_loop`, `_run_with_guard`, `_do_run`, `fence_admission`, `stop` | dispatcher, two pools and callers interleave; a slot is given back on five paths | `TaskScheduler` |
| Service shutdown (`feishu/ws_client.py: close`) | where `close()` is | fence, drain, cancel, drain, quiesce, tear down | deadlines race with callbacks that use what is torn down | `ServiceShutdown` |
| Restart gate (`utils/restart_gate.py`, `src/restart.sh`) | admission and drain flocks, generation and participation files | `task_guard`, `_exclusive_guard`, `run_if_current`, `publish_participation`, `mark_ready` | several processes, one deadline, workers that are killed over their script | `RestartGate` |
| Circuit breaker (`utils/circuit_breaker.py`) | state, failure times | `call`, `async_call`, `on_failure`, `reset`, `state` | calls end long after they were admitted | `CircuitBreaker` |
| Repository lock (`repo_lock.py`, `feishu/handlers/lock_helper.py`, `lock_commands.py`) | entry with owner, refcount and lease, blocked chats | `acquire`, `release`, `touch`, `force_release`, `_cleanup_idle`, confirmation card | leases expire under a running task; late releases; reentrance by run, not by chat | `RepoLock` |
| Card session and delivery (`card/session/`, `card/delivery/`, `card/timers/`) | card state, delivery gate, binding, timers | `dispatch`, `_submit_delivery`, `_deliver_and_track`, `deliver`, `on_ttl_expired`, terminal retry, `close` | rendering outside the lock; calls that time out and land later; timers against engine threads | `CardSession` |
| Journal (`autonomous/journal/writer.py`, `anchor.py`) | append-only file, anchor file, writer memory, flock | open with recovery, `commit`, `replay`, `close`, `compare_and_swap` | kill or power loss between four durable steps; two processes | `Journal`, `DurableLog` |
| Projections and blobs (`autonomous/data/service.py`, `outbox/service.py`, `journal/blob_store.py`) | frames reduced into memory, blobs beside the journal | `rebuild_projection`, `_synchronize_projection_unlocked`, publish and quarantine of a blob | the anchor is read outside the writer's mutex; blob and frame fail separately | `JournalProjections` |
| Employee Outbox (`autonomous/outbox/`) | snapshots, effects, bindings, publications | `append_snapshot`, `prepare_delivery`, `mark_effect_executing`, `commit_delivery`, `gc_superseded_snapshots`, `deliver` | three kinds of threads deliver one card without a lock; sends time out after they took effect | `EmployeeOutbox` |
| Dispatch coordinator, gateway, actor, supervisor (`autonomous/gateway/`, `runtime/`) | router records, attempts, permits, mailboxes, sessions, terminal facts | select, bind, permit, claim, prompt, finalize, cancel, fence, recover | result, cancellation, timeout and crash meet | `EmployeeExecution`; its results on cards in `EmployeeOutbox` |
| Hiring (`autonomous/provisioning/hire_service.py`, `composition.py`) | hire phases, effects, principal, credential, Channel, Slash command | provisioning, configuration, activation retries, monitor, recovery | external calls that cannot be repeated or undone | `EmployeeHire` |
| Firing and membership (`autonomous/provisioning/fire_*.py`, `membership/service.py`) | retirement request and its effects, groups | admission, the saga's effects, recovery, second `/fire`, archive | may come between any two steps of the hire | `EmployeeLifecycle` |
| Channel supervisor, composition (`autonomous/supervisor/`, `provisioning/composition.py`) | readiness, generations, loops | start, `send`, `update_card`, drain loop, recovery order | they drive the parts above | where those parts meet them |
| Ingress (`autonomous/ingress/`) | accepted envelopes, claims, dispositions | `accept`, `record_disposition` | blobs and journal fail separately | claims in `EmployeeExecution`; acceptance planned |
| Dispatch gate, budget, kill switch (`autonomous/broker/`, `policy/`) | epochs, prepared effects, ledgers | `prepare`, `execute`, `close_gate`, `reserve`, `settle` | awaits between check and effect | planned; only tests construct them |
| Team coordinator (`autonomous/team/`) | team runs and assignments | plan, assign, publish | depends on Outbox publications | its cancellations, in `EmployeeExecution` |
| Slock engine (`slock_engine/`), workflow engine (`workflow_engine/`) | task queue, board, chain; bridge requests, progress | `enqueue`, `dequeue`, `wait_for_idle`; bridge calls, progress delivery | lost wake-ups; late progress after the end | planned |
| Chat lock (`chat_lock.py`) | locked chats | lock, unlock | one mutex | planned |
| ACP and agent sessions, Deep and Spec engines, handlers, layout, configuration, trust, projects, knowledge, migration | | | subprocess and network I/O, parsing, prompts, registries under one lock | no, see section 8 |

How they interact: a handler of `ws_client` submits a task to the scheduler; the worker enters the
restart gate (`_run_guard`), runs the callback, which takes the repository lock with the run id
as owner and runs an agent session through a circuit breaker, while a card session shows its events.
The autonomous department does not use the scheduler: a Channel child process of an employee hands
an envelope to Ingress, the dispatch thread claims it, an actor runs it, the coordinator commits the
result to the journal, and the Outbox delivers the card through the Channel again. Hiring makes the
App, credential, Channel and Slash command that this needs, firing removes them. Every one of those
domains commits to one journal and rebuilds its state from it after a restart.

What makes each part correct is stated in its module under "Properties"; what is hard to test is in
`PROJECT.json` under "hazards", with the properties that would notice.

## 2. Modules

**`CircuitBreaker`** has one action per critical section of the breaker's lock. `Admit` is the first
half of `call()` or `async_call()`; `Succeed`, `Fail` and `Escape` (an exception that is not
expected) are the second half, any number of other calls later. `Tick` is the clock.

**`TaskScheduler`** has one action per critical section of `_cv`. A dispatched run goes through
`pc`: `pooled` (its future is in a pool), `guard`, `body`, `publish`, `ending`, `exit`; `lost` is a future
that a pool shut down dropped. Publication of the terminal state and the release of the slot are two
critical sections in the code and two actions here. `Picks` is `_pick_next_task_unlocked`: the first
eligible queue in first-use order. One chat is modelled, because chats only prefix keys.

**`ServiceShutdown`** extends it with `closer`, the position of `FeishuWSClient.close()`. Callers,
dispatcher and workers take every step they have in `TaskScheduler` meanwhile.

**`RestartGate`** has the scheduler's threads as they enter and leave `task_guard()`, the detached
restart workers step by step through `run_if_current()`, the restart script they run, and the service
processes it stops and starts. The holders of a flock are read off the program counters, because the
end of a process releases it. The two files are read and replaced one after the other, as in the code.
`born` is a ghost: the generation each service process became ready with.
A start of the script has two forms: with a child whose PID the script knows and stops when it gives up,
and through launchctl (`restart.sh:385-395`), where it has none and leaves the child running (`left`), which
may still become ready. A worker may be killed (its script goes on) and a service may crash. Nobody starts
a service by hand while a script is under way: the gate takes no lock that would notice.

**`CardSession`** has engine threads that dispatch, one thread of the delivery pool at a time (the
gate admits no more), the timer thread and `close()`. A version is the `version` of a `CardState`; what
it looks like is left out. Reduction, submission and every stage of a delivery are steps; a reducer that
raises, alone or with its fallback, is a fault (`ReduceSafe`); the page of a card is a message that may be
deleted, and a call may fail, or time out and land later. One handler of
the idle timeout runs at a time, be it that of the timer or of a `dispatch()` that found the card idle.

**`Journal`** keeps the file and the anchor twice, as processes see them and as a power loss leaves
them. A commit is `Write`, `Sync`, `Swap`, `Confirm`, each with a failing twin; `Kill` and
`PowerLoss` may come between any two. `Opened` and `Refused` are `JournalWriter.__init__`: recovery
truncates a torn tail, and an anchor that does not match the last frame refuses the open. A frame
is its sequence number, its predecessor and its transaction id.

**`DurableLog`** is what the journal promises: a list of transactions that only grows at its end,
whatever crashes, and acknowledgements only for what is in it. `Journal` instantiates it with the
transactions under the durable anchor as `log`; `DurableSpec` is the refinement.

**`JournalProjections`** adds the two ways in which services follow the journal, up to the anchor
(Outbox, Ingress) and up to the writer's last frame (employee data), and the blob of an Outbox
snapshot: published before its commit, quarantined when the commit raises, checked by the replay.

**`EmployeeOutbox`** has one step per call of `EmployeeOutboxService`, which holds a mutex and ends
in one commit. `deliver()` holds no lock and is six steps (`Enter`, `Prepare`, `Mark`, `Read`,
`Call`, `CommitDelivery`) of the dispatch thread, of threads that handle control commands and of
team threads. A control thread drains once per command it handled; a read may succeed or be denied. The
Channel answers, refuses, times out or reconnects. A crash loses all but what was committed; `Boot` is the
recovery in `composition.py`.

**`EmployeeExecution`** follows a work from the router's queue to its terminal. `Dispatch` is the one
dispatch thread (bind, permit, claim, submit, wait, settle, finalize), `Mailbox` the thread of an
actor, `Cancel` a thread that handles `/stop` or a team's cancellation, and dismissal, close, crash and
recovery come beside them. Every frame changes the router, the attempt and its history together, so
`work` is one variable. A commit anchors, raises without effect, or raises although it is anchored;
after the last two the writer takes nothing until the restart. An employee serves one chat.

**`EmployeeHire`** is the provisioning activity (App, credential, binding), the configuration after it
(principal, Channel, Slash command, verification), its retries, the monitor of a Channel that went
down, and the reconciliation of a hire at start. Every effect is PREPARED, EXECUTING and COMMITTED or
disposed, each a commit. A frame that the hire projection will refuse to replay poisons the journal.

**`EmployeeLifecycle`** extends it with the retirement: the admission of a request at any moment, the
effects of the saga in order, `/fire` again, the confirmation by an administrator, work and groups,
and restarts between any two commits, after which recovery resumes.

**`RepoLock`** models one repository (paths share nothing). A request is one run of the scheduler and
may hold the lock several times; `lost` records the runs whose entry was taken away while they
worked. Times are ages that `Tick` advances; no heartbeat is late by more than `Slack`.

`MC*` modules give the sets of an instance. `*Proofs` modules hold the theorems.

## 3. Runs that pass

Where one property is a conjunction, its parts have names and comments of their own in the module.

| Run | Instance | Shows |
|---|---|---|
| `breaker` | 2 callers, threshold 2, recovery 2, window 3, 8 ticks: two full rounds | only `reset()` closes an OPEN breaker; nobody is admitted within the recovery time of the last failure |
| `scheduler` | 2 runs, 2 projects, system and default queue, limits 2/1/1 | `Bookkeeping`: queues hold exactly the queued runs, counters are exact, limits hold, indexes agree; a project is free when a run of it is dispatched; a run ends once |
| `service_shutdown` | 2 runs on either lane, one thread per pool, per-queue limit 2 | no callback runs or will run once dependencies are torn down; `SlotsKept`: no dispatched run is dropped, counters and limits hold; fenced slots converge; `close()` returns |
| `restart_gate` | 2 runs, 2 requests, 2 service processes, 1 kill or crash (281,059 states) | `RestartsSafely`: no callback runs during the operation, nothing is killed by force, one request of a generation restarts; a service that became ready since is spared; a ready service is the one the files name, or one that a launchctl start left; `GateServes`: requests and waiting runs end |
| `card_session` | 2 engine threads, 2 events, 2 faults (469,833 states) | the end of a card reaches its user; no message steps back; nothing is written after the close; a closed session gives everything up. Ends that could not be reduced are exempt (section 5) |
| `journal` | `JournalProjections` with 2 processes, 5 transactions of which 2 with blobs (210,598 states) | what was acknowledged survives; nothing is built on an unanchored frame; refinement of `DurableLog`; `ProjectionsSound`: the Outbox shows anchored frames only, the data view has no gaps, an acknowledged snapshot is readable, an unreadable one closes its employee |
| `outbox` | 1 attempt, 1 read command that succeeds or is denied, all 3 kinds of threads in `deliver()`, 1 fault (1,162,414 states) | one message per card, which a binding always has; one active effect record; `SnapshotsSound`: nothing shown before it is anchored, no live snapshot collected, the card agrees with the committed result; a committed result is delivered and bound, unless the journal was poisoned or a command cannot be answered (section 5) |
| `execution` | 2 works of one employee, one a team step, 1 thread that cancels, 1 fault (483,935 states) | `AttemptsSound`: one live attempt, owned by somebody, COMPLETED only as anchored; `PromptsSound`: a prompt is sent once, never after its permit was revoked, and only its own cancellation stops it; an anchored cancellation wins; ends are final; `WorkEnds` |
| `lifecycle` | 1 employee, 2 restarts, 1 failed or unanswered call, 1 retry (449,918 states) | a retired employee never comes back while the journal can be replayed (the frame that brings it back poisons it: `Dead`); no external call is made twice; `WorldMatches`: active is equipped, the credential goes last, archived leaves nothing nobody knows of; retirements end and show what failed; hires end or are reported |
| `repo_lock` | 2 runs of one chat, nested holds, 1 hangs, room for one blocked chat | mutual exclusion but for runs that lost the lock; exact refcount; a beating run keeps its lease; a hung one without a heartbeat loses the lock |

*Why the bounds suffice.* Races in this code are between two or three parties (two callers, a
dispatcher and a worker, a holder that lost the lock and its successor), and each instance has
them, with one more where a bystander could be hurt. Limits are set so that they are reached (one
slot per queue, room for one blocked chat, the lease equal to the heartbeat period). Counters that
the code leaves unbounded are capped in guards: `MaxTime`, `MaxFailures`, `MaxFaults`, `MaxDepth`,
`MaxHung`, `MaxEvents`, `MaxCrashes`, `Instances`, the number of transaction ids. What has a proof
(section 6) does not depend on them. Larger instances were run once: `RestartGate` with three workers and
three service processes (6,979,849 states), and `EmployeeOutbox` with two commands and two faults for the
dispatch and a team thread (760,024 states). What one chat hides
in `repo_lock` (a confirmation card for a holder of another chat) is in the proof, which has any number
of chats and runs.

Deadlock is not checked where the system may really stop: a service that is closed, a card that is
closed, an archived employee, a process whose journal writer has failed or cannot be replayed.

## 4. Fairness

Fairness is assumed only of threads that run in a loop and whose steps have a deadline or no wait:

- the dispatcher, the pool threads once a run is theirs, the canceled guard waiters, and `close()` after
  it began (both drains have a timeout);
- restart workers and their script (one deadline covers all of it), a service process that was told to
  stop or that starts, threads that wait at the gate;
- the pool and timer threads of a card session (every call has a hard deadline in `_call_api()`), and the
  retry timer; not the idle timer, not a late write;
- the dispatch thread of the department (it catches every exception and waits at most 5 s; a read that
  succeeds each time is never denied), the mailbox
  threads, a thread that cancels, recovery; a prompt ends, because it has a timeout;
- the runtime's loop, the monitor, the saga's thread and the start of the process;
- the Channel answering or timing out, the heartbeat and cleanup daemons and the clock. A Channel that is
  not READY becomes so again (the supervisor restarts its child); what happens without that is in section 5.

No fairness is assumed of callers, of callbacks (they may run for ever), of faults, of users or of an admin.

## 5. Where the code and its text differ

Two runs end in a counterexample; the quotations are in `PROJECT.json`. `lifecycle_recovery` checks the
sentence of the code that recovery must not keep hiring closed because one employee cannot be reconciled: a
retirement admitted around the binding of
the principal, or interrupted after the credential was destroyed, leaves a journal from which the hire
service is never constructed again. `outbox_replay` checks the sentence that recovery replays the Outbox,
on the instance of `outbox`: the dispatch thread reads version 1 of a card, a control thread answers,
delivers and binds version 2, and then the dispatch thread prepares and commits version 1. The frame is
anchored before the reducer refuses it (`outbox/service.py:387`, `projection.py:343`: "Outbox patch changed
stable binding"), and no later replay gets past it, so no restart boots. At most one delivery was to be in
flight per employee; nothing in `deliver()` sees to it.

Differences met while modelling, without a run of their own. The passing runs exclude or exempt
exactly these, and say so where they do:

*Scheduler, locks, gate*
- `update_project_id()` of a running task does not look whether the project is busy, so two tasks of a
  project may run at once (`tasking/scheduler.py:447`, docstring at 251);
- the queues are scanned in first-use order, so a busy early queue starves later ones and the SYSTEM queue
  does not always go first (`tasking/scheduler.py:745`, `810`);
- SUCCEEDED is published before the executor stores the result, so `wait()` may return SUCCEEDED without a
  value (`tasking/scheduler.py:607`, `975`);
- the forced release compares only the chat, and in another critical section than the release
  (`feishu/handlers/lock_commands.py:365-381`, against its comment at 368);
- a start through launchctl that gives up leaves its child, which may become ready while the worker writes
  FAILED over its generation (`restart.sh:124-138`, `385-395`, `465-470`, `utils/restart_gate.py:1110-1120`):
  `ReadyIsNamed` says that it is the only case;
- a worker re-reads the generation and publishes its result without a lock that a service started by hand
  would take (`utils/restart_gate.py:1110-1120`); a timeout in the middle of a stop leaves the generation
  READY while the service stops; a request pinned before the restart that overtook it ends with
  `RestartGateError` instead of COALESCED.

*Cards*
- the idle timer delivers its warning and its end past the gate that fences stale renders, so a warning may
  replace the terminal card of a session (`card/session/core.py:562-569` says that the gate prevents it;
  `_ttl_mixin.py:273-279`): versions in `direct` are exempt from `NoStepBack`;
- a create that timed out and is repeated under the same key is answered with the first message, whose
  content is older, while the binding takes the new signature: exempt from `EndReported` as `deduped`;
- `close()` right after a terminal event may drop its card, since a delivery on a closed session counts as
  success (`delivery/engine.py:170`): exempt as `byClose`;
- an event whose reduction and fallback both raise is dropped; when it was to end the card the session is
  closed and its hooks are fired, but neither delivery nor timers are closed, and a later `close()` returns at
  once, so binding and timers stay (`card/session/core.py:533-538`, `756-758`): exempt from `Settled` as
  `leaked` and from `EndReported` as `missed`;
- an end whose fallback is reduced is delivered as terminal while the card goes on, so the real end may be
  refused by the gate, and the retry of the first may step back: `missed` and `direct`;
- a terminal card that fails twice fires no hooks, and the retry of a rejected card reports again.

*Journal and Outbox*
- the data projection shows frames that are durable but not anchored, even ones whose fsync failed
  (`autonomous/data/service.py:654`, against `docs/2026-07-12-autonomous-data-plan.md:290`);
- an append whose anchor swap raised in its last fsync leaves an anchored snapshot without its blob, and the
  employee closed after the restart (`outbox/service.py:205`);
- `command_response()` appends QUEUED and then COMPLETED, which is not a legal transition, and so does
  `read_response()` of a read that succeeds (`outbox/lifecycle.py:90`, `outbox/models.py:447-464`). The exception
  leaves `_handle_control_ingress()` and with it the pass of the dispatch thread
  (`provisioning/composition.py:2468`); the command has no disposition, so every later pass raises at the same
  place, before it dispatches or drains (2517), against `docs/2026-07-14-autonomous-membership-stop-plan.md:111`.
  After one `/stop` the department stands still: `Held`, which `FinalCardDelivered` exempts;
- a late update of an older version may overwrite the newer card (`outbox/delivery.py:71`), which is why
  `FinalCardDelivered` is about the version that is bound and not about the one on the screen; a team
  contribution may be recorded before its terminal card is delivered (`outbox/service.py:235`); the drain takes
  the oldest card first, so an employee whose Channel never gets READY holds up the others
  (`provisioning/composition.py:4256`).

*Execution*
- a cancellation between the look at the canceled set and `send_prompt()` still sends the prompt
  (`runtime/employee_actor.py:239`, against `docs/2026-07-14-autonomous-membership-stop-plan.md:104`);
- an exception after the bind frame leaves the attempt dispatching, and the employee without work, until the
  restart (`abandoned`); a failed commit in `actor.cancel()` raises before the session is told, and a repeated
  `/stop` does not tell it;
- when `wait_terminal()` times out the prompt goes on, and the next assignment waits behind it; a terminal
  sink that raises ends the mailbox thread (`employee_actor.py:348`).

*Hiring and firing*
- a refused admission is a `RuntimeError`, so a disposed Channel effect triggers a second launch for a retiring
  employee; Channel, Slash command or membership may be made after their cleanup and stay (ghost `late`;
  `docs/2026-07-14-autonomous-fire-plan.md:18-19`);
- a retirement of an unknown outcome that is interrupted before its report stays RETIRING for good;
- the monitor's resubmission is dropped while the last activity still notifies (`lost`); after a disposed
  effect later failures are not retried (`disposed`); two restarts in a row while an active employee is
  revalidated end in ACTION_REQUIRED unless its Channel was being fenced (`quiet`).

## 6. Proofs

TLAPS checks eight modules, for every value of the constants that satisfies the `ASSUME`s: any number of
threads, processes, runs, cards, works and frames, and any bound on faults, retries and crashes. Every
safety invariant and every action property of a passing run is proved, but for the two of `CardSession`.
Hardly any is inductive as it stands. Each inductive invariant was checked with TLC before it was proved, on
the instance of the run or a larger one; the argument per module is this.

**`CircuitBreakerProofs`**, from `BreakerAssumption`: `TypeCorrect`, `BreakerSafe` (a CLOSED
breaker is below its threshold, a HALF_OPEN one has waited), `AdmissionSafe` and `OpenStaysOpen`. The
invariant relates the failure times, which never lie in the future, to `lastFail`; without it the
recovery time could be counted from a failure that is not the last.

**`TaskSchedulerProofs`**, from `SchedulerAssumption` (finitely many runs, the SYSTEM and default queue are
no project's, limits at least 1): `SchedulerKeepsBooks` (`Bookkeeping`), `ProjectSerial`
(`DispatchRespectsProject`), `EndsOnce` (`TerminalIsFinal`); and of `ServiceShutdown`, `TeardownAfterDrain` and
`CloseKeepsSlots`. The code counts slots up and down, so the counters are right only if a run takes its
slot once and gives it back once. `SchedulerInv` therefore adds `PhaseAgrees` (the step of a worker and the
published status agree, so that each of the five release paths is taken by a run that holds a slot) and
`QueuesExact` (a run is in the queue of its key exactly while it is queued, and once; the lemmas on
requeue, removal and `popleft()` keep that). A counter is then the cardinality of the runs that hold a
slot, and the clamp at zero never acts. For `close()`, `CloseInv` adds that nothing is queued behind the
fence and that no slot is held past a successful drain: the drain reads two totals, which are exact.

**`RestartGateProofs`**, from `RestartGateAssumption` (one service process at least): `RestartIsSafe`
(`RestartsSafely`), `ReadyServiceIsNamed` (`ReadyIsNamed`) and `NewerServiceSpared` (`NewServiceSpared`).
`GateInv` says who may hold which flock at which step (`LocksExclude`), that a script at work belongs to a worker that
waits for it or was killed (`ScriptsOwned`), that generations are handed out once and only get newer
(`GenerationsOrdered`), that a name in a file or in a worker's memory is that of a process that was started
(`NamesStarted`, so that the child of a script is a new one: `ChildIsNew`), and that while no worker was
killed there is one service at a time that no launchctl start left behind (`OneService`, `DownOrLeft`) and the
files name it
(`Undisturbed`). The attempt
corrected the property: the run had stated that the service a script stops is always the one the
request was made to, which three processes and a killed worker refute (its script goes on and starts
another service). What holds, and is now stated with the ghost `born`, is that no service of a newer
generation is stopped, and that it is the one requested while no worker was killed.

**`RepoLockProofs`**, from `RepoLockAssumption` (the lease covers a heartbeat and its delay): `TypeCorrect`,
`MutualExclusion`, `RefcountSafe`, `NoticeSafe` (a blocked chat has a holder to wait for) and `LeaseSafe` (a
beating run is never reclaimed). `RefcountExact` is inductive and implies `Exclusive`: a run inside a hold is
the holder or has lost the lock, and there is one holder. `RenewedNotReclaimed` needs `BeatsCover`: the
lease is never older than the last beat.

**`JournalProofs`**, from `JournalAssumption` (the genesis hash is no transaction, `None` no process):
`TypeCorrect`; `AnchorSafe`, the anchor never names a frame that is not synced; `ChainSafe`;
`WriterSafe`, a process that may write has the whole file in memory; `AcknowledgedSafe`, what `commit()`
acknowledged survives; `NothingOnUnanchored`; and `Refinement` of `DurableLog`. What commits rely on is
spread over the steps of a commit, so the inductive invariant `IndInv` adds to them: the whole file is
chained, not only what was replayed; at most one process holds the lock and the others are idle; a
writer that failed stays disabled; and `Phases`, which says of a process between two steps of its commit
what is already in the file, synced and named by the anchor. The argument per step: `Write` appends a
frame that continues the chain and leaves the anchor alone; `Sync` only raises the synced length; `Swap`
names a frame that `Phases` says is synced; `Confirm` copies the visible anchor to the durable one;
`PowerLoss` cuts the file back to at least the synced length, which `AnchorNeverAhead` puts at or after
both anchors; recovery truncates only an incomplete record behind the last complete frame.
With `BlobsAssumption` (blobs belong to transactions) the module goes on to `JournalProjections`:
`ViewsKeepJournal`, every step of a view or of the blob store is a step of the journal or a stutter, so
the theorems above hold beside them; and `ProjectionsAreSound` (`ProjectionsSound`). `ViewInv` adds to `IndInv`
what an append relies on between blob, frame and acknowledgement (`AppendHeld`, `LastFrame`) and that
the anchor a rebuild has read, though old, covers every acknowledged snapshot (`RebuildCovers`).

**`EmployeeOutboxProofs`**, from `OutboxAssumption` (a card belongs to an attempt or to a control command, and
team threads are neither the dispatch thread nor control threads): `OutboxInvariant`, `OneEffectAtATime`
(`OneActiveEffect`), `OneMessagePerCard` (`OneMessage`) and `SnapshotsAreSound` (`SnapshotsSound`). `deliver()`
holds no lock, so what a thread read of a record may be old.
`ThreadsSound` says what stays true of it: the effect a thread works on was prepared, and no step takes it
back; `RequestsSound` says the same of a request in the pipe of a Channel child, which outlives its
thread's timeout; `Story` and `Collected` say which versions a card can have and which of them may be gone.
That the journal stays replayable is not among them: it does not (section 5).

**`EmployeeExecutionProofs`**, from `ExecutionAssumption`: `AttemptsAreSound`, `PromptsAreSound`, `StopAlwaysWins`
and `EndStays` (`AttemptsSound`, `PromptsSound`, `StopWins`, `EndIsFinal`). `ExecInv` says which attempt the dispatch
thread has at which step (`AttemptOwned`), that an assignment is in one mailbox once and what an actor at each step has
done (`SubmittedOnce`, `ActorsSound`, `ReportsFollow`), that the live attempt of an employee is the last
one its actor was given (`LiveIsLast`), what a permit and a revocation mean for a prompt (`PermitsSound`,
`RevokedStopped`), and that a canceling thread holds a live attempt and, when it calls the session
without the actor's lock, that the actor has nothing else to do (`StopsLive`): this is why it can only
stop the prompt it means. `Quiet` makes recovery a fresh start.

**`EmployeeLifecycleProofs`**, from `HireAssumption` and `LifecycleAssumption` (bounds are natural numbers):
`LifeInvariant`, `RetirementIsFinal` (`RetiredStaysRetired`), `NoCallTwice` (`CalledOnce`) and `RecordsMatchWorld`
(`WorldMatches`). `LifeInv` ties the threads to the records: the registrar is reached only from a
registration that was just marked EXECUTING (`Registered`); before a retirement is admitted nothing that was
made is removed, and Channel, commands and groups are made for a bound principal only (`Equipped`); the
saga is at the first effect that is not committed, has begun no later one and calls each once
(`FireAt`, `EffectsOrdered`); what a committed effect removed is gone unless it was made again behind its
back (`Cleaned`). There is one lemma per action of the hire and of the retirement; a hire step that makes
nothing is covered by `KeptSafe`. The attempt found that `CleanupMode` was a CASE with
overlapping guards, which TLA+ does not order; it now is the code's chain of early returns.

*Only model-checked:* every liveness property (`FencedWorkConverges`, `CloseReturns`, `HungFreed`, `FinalCardDelivered`,
`GateServes`, `WorkEnds`, `FireReported`, `HireSettles`, `EndReported`, `Settled`), because liveness under
fairness and ENABLED are beyond
the prover; the two action properties of `CardSession` (`NoStepBack`, `NothingAfterClose`), whose
invariant over the delivery gate, the pool thread and the timer is not written yet; and the
counterexamples of `lifecycle_recovery` and `outbox_replay`.

## 7. Plan

1. Proofs: `NothingAfterClose` and `NoStepBack` of `CardSession`.
2. Slock task queue, board and chain (a notification just before `wait_for_idle()` waits is lost,
   `slock_engine/task_queue.py:154`); workflow bridge and progress (the daemon may deliver a snapshot it took
   before `stop()` delivered a newer one, `workflow_engine/progress_coalescer.py:177`).
3. Team coordinator over `EmployeeExecution` and the Outbox publications; Ingress acceptance, composed with
   `EmployeeOutbox` into the promise that accepted work is reported once.
4. `DispatchGate` with budget and kill switch (the lock is released before the adapter is called and the effect
   stays prepared, `broker/dispatch_gate.py:204`), once the composition constructs it.
5. `RestartGate` in the place of the abstract guard of `TaskScheduler`; several pages and streamed elements in
   `CardSession`.

Abstract specifications worth stating: an exactly-once card (for `EmployeeOutbox`), an atomic bounded
pool (for `TaskScheduler`), at-most-once execution (for `EmployeeExecution`), readers and one writer with a
deadline (for `RestartGate`).

## 8. Not modelled

Agent sessions, ACP and the sandbox are subprocess I/O; the Deep and Spec engines are loops around
prompts whose decisions are model output; handlers, routing and card builders parse and format; trust,
access control, projects, threads and modes are registries under one lock; knowledge, migration and
acceptance process documents. `autonomous/domain/state_machine.py` is a set of tables that tests
enumerate. `utils/lock_order.py` is a debug assertion.

Within modelled parts, texts, listeners, metrics, encodings and encryption are left out. In detail:

- scheduler and shutdown: a running task is moved to another project by its own callback only, which is how it
  is called; `close()` also waits for the executor of the Team service without a time limit
  (`autonomous/team/service.py:441`), so `CloseReturns` is about its drains;
- the root path that a confirmation of a forced release may carry beside its token (`lock_commands.py:271-272`);
  private chats bypass the repository lock and do so here by not appearing; `idle_timeout` of the lock applies
  to entries without references, of which `RefcountExact` shows there are none;
- journal: `SwapFails` covers an exception of any class; the last one is caught as `Exception` only
  (`writer.py:390`), so an interrupt there is taken to end the process, which `Kill` has;
- cards: a user who is told of a failed card is assumed to be reached; the forced end after three reductions
  that failed in the idle handler; the second idle handler that `dispatch()` may run beside the timer's;
  several pages, streamed elements, banners, the stop escalation, failed renders, contention for the
  session lock with the forced termination that follows it, eviction of session locks, the rotator;
- hiring and firing: a failed commit is a crash at that point; a crash inside recovery's own commits, inside
  `begin_activation_verification()` or `mark_recovery_action_required()` is one step; what a poisoned process
  still commits (the fire saga goes on in it, and CONFIGURING may follow RETIRING); a Channel effect in
  ACTION_REQUIRED, from which the code starts the next generation (`composition.py:5111-5134`), is a failed launch,
  and what it would start is exempt as `late`; manual activation by `/status`, renewal of challenges,
  reauthorization of manifests,
  notifications and their replies, several groups;
- execution: context assembly, the reads that answer `/status` and `/list`, several chats of one employee; the
  peek ends work
  whose authority is stale (`ingress/router.py:1194-1201`), here the step after it does (`Discard`); a
  cancellation of an actor that is closing still calls the session (`employee_actor.py:165-177`), which changes
  nothing here, because a prompt may return at any time and as anything;
- gate: file modes, ownership and symbolic link checks, the log of the script; launchd is taken to start a
  submitted job once, its own respawn of one is left out.

## 9. How to run

`tlc -workers 2 -config X.cfg M` for a run of `PROJECT.json`; `tlapm M.tla` for a proofs module.
