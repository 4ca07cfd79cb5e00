------------------------------ MODULE RestartGate ------------------------------
(***************************************************************************)
(* The safe restart of the service: RestartGate of utils/restart_gate.py,  *)
(* the scheduler threads that enter it with task_guard(), the detached     *)
(* restart workers, the script they run and the service processes it stops *)
(* and starts.                                                             *)
(*                                                                         *)
(* Processes share two flocks and two files.  The holders of a flock are   *)
(* read off the program counters: close() and the end of a process release *)
(* it.  The proof of participation and the generation are two files, read  *)
(* and replaced one after the other and by no common lock.                 *)
(*                                                                         *)
(* A process identity is never reused (the proof pins the start time of    *)
(* its PID), so a service process is a number.  Polls are waits.           *)
(***************************************************************************)
EXTENDS Integers, FiniteSets

CONSTANTS
    Tasks,      \* scheduler runs
    Workers,    \* restart requests, each with its detached worker
    Instances,  \* bound on the service processes ever started: 1..Instances
    MaxFaults   \* bound on workers killed and service processes crashed

ASSUME RestartGateAssumption ==
    /\ Instances \in Nat \ {0}
    /\ MaxFaults \in Nat

VARIABLES
    srv,       \* service processes: the phase each is in
    canceled,  \* processes whose _task_waiters_canceled is set
    task,      \* scheduler runs: where each is in task_guard()
    home,      \* the process it belongs to
    proof,     \* the participation file: a process, 0 before the first
    gen,       \* the generation file
    issued,    \* generations published
    born,      \* the generation with which each process became ready, or 0
    pc,        \* workers
    job,       \* what each has read: see NoJob
    late,      \* workers whose deadline has passed
    script,    \* the restart script of each worker
    child,     \* the process it started, 0 before
    forced,    \* scripts that had to kill -9
    left,      \* processes that a failed start has left running
    settled,   \* generations whose restart returned RESTARTED or FAILED
    killed,    \* workers killed
    crashes

srvVars == <<srv, canceled, crashes>>
taskVars == <<task, home>>
fileVars == <<proof, gen, issued, born>>
workerVars == <<pc, job, late, settled, killed>>
scriptVars == <<script, child, forced, left>>
vars == <<srvVars, taskVars, fileVars, workerVars, scriptVars>>

Procs == 1 .. Instances

Ended == {"error", "killed", "TIMED_OUT", "COALESCED", "FAILED", "RESTARTED"}

\* The generation a worker was asked to restart and the process it was of,
\* the process of the proof it read last, _pinned_participation_id (or 0).
NoJob == [expected |-> 0, target |-> 0, seen |-> 0, pinned |-> 0]

\* A process that kill -0 finds.
Live(p) == p \in Procs /\ srv[p] \notin {"none", "gone"}

\* The flocks: admission and drain, shared by tasks, exclusive to a worker.
AdmissionReaders == {t \in Tasks : task[t] = "drain"}
DrainReaders == {t \in Tasks : task[t] = "body"}
\* Mutant of AdmissionWriters: a timeout leaves the admission lock taken.
AdmissionWritersLeak ==
    {w \in Workers : pc[w] \in {"drain", "held", "checked", "op", "publish", "TIMED_OUT"}}

AdmissionWriters == {w \in Workers : pc[w] \in {"drain", "held", "checked", "op", "publish"}}
DrainWriters == {w \in Workers : pc[w] \in {"held", "checked", "op", "publish"}}

Waiting(t) == task[t] \in {"admission", "drain"}
Unfinished(p) == {t \in Tasks : home[t] = p /\ (Waiting(t) \/ task[t] = "body")}
AtWork(w) == script[w] \notin {"none", "ok", "fail"}

Init ==
    /\ srv = [p \in Procs |-> IF p = 1 THEN "boot" ELSE "none"]
    /\ canceled = {} /\ crashes = 0
    /\ task = [t \in Tasks |-> "new"] /\ home = [t \in Tasks |-> 0]
    /\ proof = 0 /\ gen = [id |-> 0, owner |-> 0, status |-> "NONE"] /\ issued = 0
    /\ born = [p \in Procs |-> 0]
    /\ pc = [w \in Workers |-> "idle"]
    /\ job = [w \in Workers |-> NoJob]
    /\ late = {} /\ settled = {} /\ killed = {}
    /\ script = [w \in Workers |-> "none"]
    /\ child = [w \in Workers |-> 0] /\ forced = {} /\ left = {}

-----------------------------------------------------------------------------
(***************************************************************************)
(* The service                                                             *)
(***************************************************************************)

\* _publish_generation_state() under a new token.
PublishNew(owner, status) ==
    /\ issued' = issued + 1
    /\ gen' = [id |-> issued + 1, owner |-> owner, status |-> status]

\* publish_participation(): the proof file first ...
PublishProof(p) ==
    /\ srv[p] = "boot"
    /\ srv' = [srv EXCEPT ![p] = "proof"]
    /\ proof' = p
    /\ UNCHANGED <<canceled, crashes, taskVars, gen, issued, born, workerVars, scriptVars>>

\* ... then a generation that no restart may use yet.
PublishParticipating(p) ==
    /\ srv[p] = "proof"
    /\ srv' = [srv EXCEPT ![p] = "up"]
    /\ PublishNew(p, "PARTICIPATING")
    /\ UNCHANGED <<canceled, crashes, taskVars, proof, born, workerVars, scriptVars>>

\* mark_ready(), called when the connection is up.
MarkReady(p) ==
    /\ srv[p] = "up"
    /\ proof = p /\ gen.owner = p /\ gen.status = "PARTICIPATING"
    /\ srv' = [srv EXCEPT ![p] = "ready"]
    /\ PublishNew(p, "READY")
    /\ born' = [born EXCEPT ![p] = issued + 1]
    /\ UNCHANGED <<canceled, crashes, taskVars, proof, workerVars, scriptVars>>

\* close() of a service with a SIGTERM: fence_admission(), cancel_waiters().
Fence(p) ==
    /\ srv[p] = "stopping"
    /\ srv' = [srv EXCEPT ![p] = "closing"]
    /\ canceled' = canceled \cup {p}
    /\ UNCHANGED <<crashes, taskVars, fileVars, workerVars, scriptVars>>

\* The interpreter ends once it has joined its executor threads.
Exit(p) ==
    /\ srv[p] = "closing" /\ Unfinished(p) = {}
    /\ srv' = [srv EXCEPT ![p] = "gone"]
    /\ UNCHANGED <<canceled, crashes, taskVars, fileVars, workerVars, scriptVars>>

\* The runs of a set are over.
Over(T) ==
    /\ task' = [t \in Tasks |-> IF t \in T THEN "over" ELSE task[t]]
    /\ home' = [t \in Tasks |-> IF t \in T THEN 0 ELSE home[t]]

\* A process that ends takes its threads and their locks with it.
Die(P) ==
    /\ srv' = [p \in Procs |-> IF p \in P THEN "gone" ELSE srv[p]]
    /\ Over(UNION {Unfinished(p) : p \in P})

Crash(p) ==
    /\ Live(p) /\ Cardinality(killed) + crashes < MaxFaults
    /\ crashes' = crashes + 1
    /\ Die({p})
    /\ UNCHANGED <<canceled, fileVars, workerVars, scriptVars>>

Idle == {p \in Procs : srv[p] = "none" /\ \A q \in Procs : srv[q] = "none" => p <= q}

\* restart.sh start, by hand, for a service that is gone.  Nobody starts one
\* under a restart that is under way.
OperatorStart(p) ==
    /\ p \in Idle /\ \A q \in Procs : ~Live(q)
    /\ \A w \in Workers : ~AtWork(w) /\ pc[w] \notin {"op", "publish"}
    /\ srv' = [srv EXCEPT ![p] = "boot"]
    /\ UNCHANGED <<canceled, crashes, taskVars, fileVars, workerVars, scriptVars>>

-----------------------------------------------------------------------------
(***************************************************************************)
(* task_guard() of a scheduler run                                         *)
(***************************************************************************)

Submit(t, p) ==
    /\ task[t] = "new" /\ srv[p] \in {"up", "ready", "stopping"}
    /\ task' = [task EXCEPT ![t] = "admission"]
    /\ home' = [home EXCEPT ![t] = p]
    /\ UNCHANGED <<srvVars, fileVars, workerVars, scriptVars>>

Step(t, to) ==
    /\ task' = [task EXCEPT ![t] = to]
    /\ UNCHANGED <<srvVars, home, fileVars, workerVars, scriptVars>>

\* The shared admission lock.
Admit(t) ==
    /\ task[t] = "admission" /\ home[t] \notin canceled
    /\ AdmissionWriters = {}
    /\ Step(t, "drain")

\* The shared drain lock, for which the admission lock is given back.
Begin(t) ==
    /\ task[t] = "drain" /\ home[t] \notin canceled
    /\ DrainWriters = {}
    /\ Step(t, "body")

\* A waiter of a canceled gate raises: the run ends without its callback.
Refuse(t) ==
    /\ Waiting(t) /\ home[t] \in canceled
    /\ Over({t})
    /\ UNCHANGED <<srvVars, fileVars, workerVars, scriptVars>>

\* The callback and the accounting of its end are over.
Finish(t) ==
    /\ task[t] = "body"
    /\ Over({t})
    /\ UNCHANGED <<srvVars, fileVars, workerVars, scriptVars>>

-----------------------------------------------------------------------------
(***************************************************************************)
(* A restart request and its worker                                        *)
(***************************************************************************)

\* A worker goes on to l knowing j.
Go(w, l, j) ==
    /\ pc' = [pc EXCEPT ![w] = l]
    /\ job' = [job EXCEPT ![w] = IF l \in Ended THEN NoJob ELSE j]
    /\ late' = IF l \in Ended THEN late \ {w} ELSE late

Elsewhere == UNCHANGED <<srvVars, taskVars, killed>>

\* _validate_participation(): the proof is of a running process, and of the
\* one the gate is pinned to.
Valid(w) == Live(proof) /\ job[w].pinned \in {0, proof}

Check(w, l) ==
    /\ IF Valid(w) THEN Go(w, l, [job[w] EXCEPT !.seen = proof])
                   ELSE Go(w, "error", NoJob)
    /\ Elsewhere /\ UNCHANGED <<fileVars, settled, scriptVars>>

\* restart.sh remote-restart: snapshot() reads the proof ...
SnapshotProof(w) == pc[w] = "idle" /\ Live(proof) /\ Check(w, "snapshot")

\* ... and then the generation, of which the detached worker is told.
Snapshot(w) ==
    /\ pc[w] = "snapshot"
    /\ IF gen.owner = job[w].seen /\ gen.status = "READY"
       THEN Go(w, "spawned", [NoJob EXCEPT !.expected = gen.id, !.target = job[w].seen])
       ELSE Go(w, "error", NoJob)
    /\ Elsewhere /\ UNCHANGED <<fileVars, settled, scriptVars>>

\* for_worker(): the proof, then the generation, which pins the instance.
PinProof(w) == pc[w] = "spawned" /\ Check(w, "pin")

\* Mutant of Current: any ready generation.
CurrentReady(w) == gen.status = "READY"

Current(w) == gen.id = job[w].expected /\ gen.status = "READY"

Pin(w) ==
    /\ pc[w] = "pin"
    /\ Go(w, "begin", [job[w] EXCEPT !.pinned = IF Current(w) THEN job[w].seen ELSE 0])
    /\ Elsewhere /\ UNCHANGED <<fileVars, settled, scriptVars>>

\* run_if_current(), before the locks.
Validate(w) == pc[w] = "begin" /\ Check(w, "admission")

\* The one deadline of the delay, both locks and the operation, where it is
\* looked at.
Expire(w) ==
    /\ pc[w] \in {"admission", "drain", "checked", "op"} /\ w \notin late
    /\ late' = late \cup {w}
    /\ Elsewhere /\ UNCHANGED <<pc, job, fileVars, settled, scriptVars>>

Move(w, l) == Go(w, l, job[w]) /\ Elsewhere /\ UNCHANGED <<fileVars, settled, scriptVars>>

CanAdmit(w) == AdmissionReaders = {} /\ AdmissionWriters = {}

\* _exclusive_guard(): the admission lock fences new tasks ...
TakeAdmission(w) == pc[w] = "admission" /\ CanAdmit(w) /\ Move(w, "drain")

\* Mutant of CanDrain: other workers only.
CanDrainAny(w) == DrainWriters = {}

\* ... and the drain lock waits for those that run.
CanDrain(w) == DrainReaders = {} /\ DrainWriters = {}

TakeDrain(w) == pc[w] = "drain" /\ CanDrain(w) /\ Move(w, "held")

\* A lock that is not free when the deadline has passed.
LockTimeout(w) ==
    /\ w \in late
    /\ \/ pc[w] = "admission" /\ ~CanAdmit(w)
       \/ pc[w] = "drain" /\ ~CanDrain(w)
    /\ Move(w, "TIMED_OUT")

Revalidate(w) == pc[w] = "held" /\ Check(w, "checked")

\* Under both locks: the generation decides whether the script is run.
Decide(w) ==
    /\ pc[w] = "checked"
    /\ \/ gen.owner # job[w].seen /\ Move(w, "error")
       \/ gen.owner = job[w].seen /\ ~Current(w) /\ Move(w, "COALESCED")
       \/ gen.owner = job[w].seen /\ Current(w) /\ w \in late /\ Move(w, "TIMED_OUT")
       \/ /\ gen.owner = job[w].seen /\ Current(w) /\ w \notin late
          /\ Go(w, "op", job[w])
          /\ script' = [script EXCEPT ![w] = "stop"]
          /\ Elsewhere /\ UNCHANGED <<fileVars, settled, child, forced, left>>

\* The deadline ends the script and its process group, not the service it
\* has started, which has a session of its own.
OpTimeout(w) ==
    /\ pc[w] = "op" /\ w \in late /\ AtWork(w)
    /\ Go(w, "TIMED_OUT", NoJob)
    /\ script' = [script EXCEPT ![w] = "none"] /\ child' = [child EXCEPT ![w] = 0]
    /\ Elsewhere /\ UNCHANGED <<fileVars, settled, forced, left>>

\* run_if_current() returns what the script did.
Return(w) ==
    /\ Go(w, IF script[w] = "ok" THEN "RESTARTED" ELSE "FAILED", NoJob)
    /\ settled' = settled \cup {job[w].expected}

\* Mutant of OpDone: the generation is not read again.
OpDoneBlind(w) ==
    /\ pc[w] = "op" /\ ~AtWork(w)
    /\ Go(w, "publish", job[w])
    /\ Elsewhere /\ UNCHANGED <<fileVars, settled, scriptVars>>

\* The script has ended: the generation is read again ...
OpDone(w) ==
    /\ pc[w] = "op" /\ ~AtWork(w)
    /\ \/ Current(w) /\ Go(w, "publish", job[w]) /\ UNCHANGED settled
       \/ ~Current(w) /\ Return(w)
    /\ Elsewhere /\ UNCHANGED <<fileVars, scriptVars>>

\* ... and, when the service has not replaced it, consumed.
Publish(w) ==
    /\ pc[w] = "publish"
    /\ Return(w)
    /\ \/ script[w] = "ok" /\ PublishNew(job[w].seen, "READY")
       \/ /\ script[w] = "fail"
          /\ gen' = [id |-> job[w].expected, owner |-> job[w].seen, status |-> "FAILED"]
          /\ UNCHANGED issued
    /\ Elsewhere /\ UNCHANGED <<proof, born, scriptVars>>

\* A worker that is killed gives up its locks; its script goes on.
Kill(w) ==
    /\ pc[w] \notin Ended \cup {"idle", "snapshot"}
    /\ Cardinality(killed) + crashes < MaxFaults
    /\ Go(w, "killed", NoJob)
    /\ killed' = killed \cup {w}
    /\ UNCHANGED <<srvVars, taskVars, fileVars, settled, scriptVars>>

-----------------------------------------------------------------------------
(***************************************************************************)
(* restart.sh restart                                                      *)
(***************************************************************************)

Run(w, l, p) ==
    /\ script' = [script EXCEPT ![w] = l]
    /\ child' = [child EXCEPT ![w] = p]

\* SIGTERM to every process of a set.
Terminate(P) ==
    srv' = [p \in Procs |-> IF p \in P /\ srv[p] \in {"boot", "proof", "up", "ready"}
                            THEN "stopping" ELSE srv[p]]

\* stop_service(): the process of the PID file and all that remain.
Stop(w) ==
    /\ script[w] = "stop"
    /\ Run(w, "stopping", 0)
    /\ Terminate({p \in Procs : Live(p)})
    /\ UNCHANGED <<canceled, crashes, taskVars, fileVars, workerVars, forced, left>>

\* A closing process whose threads are all in a callback, or wait for a lock
\* of this restart, outlives the grace of its SIGTERM.
Stuck(p) ==
    /\ srv[p] = "closing" /\ Unfinished(p) # {}
    /\ \A t \in Unfinished(p) :
          \/ task[t] = "body"
          \/ /\ p \notin canceled
             /\ task[t] = "admission" /\ AdmissionWriters # {}

\* kill -9 after the grace.
ForceStop(w) ==
    /\ script[w] \in {"stopping", "cleanup"}
    /\ LET P == {p \in Procs : Stuck(p) /\ (script[w] = "stopping" \/ p = child[w])} IN
         /\ P # {}
         /\ Die(P)
    /\ forced' = forced \cup {w}
    /\ UNCHANGED <<canceled, crashes, fileVars, workerVars, script, child, left>>

Stopped(w) ==
    /\ script[w] = "stopping"
    /\ \A p \in Procs : ~Live(p)
    /\ Run(w, "start", 0)
    /\ UNCHANGED <<srvVars, taskVars, fileVars, workerVars, forced, left>>

\* start_service(): a new process, or dependencies that cannot be prepared.
\* The script waits for the PID it knows or, when launchctl has started the
\* service, watches whatever runs.
Start(w) ==
    /\ script[w] = "start"
    /\ \/ \E p \in Idle :
            /\ srv' = [srv EXCEPT ![p] = "boot"]
            /\ Run(w, "wait", p) \/ Run(w, "watch", p)
       \/ Run(w, "fail", 0) /\ UNCHANGED srv
    /\ UNCHANGED <<canceled, crashes, taskVars, fileVars, workerVars, forced, left>>

Candidates(w) == IF script[w] = "wait" THEN {child[w]} ELSE Procs

\* ready_generation() of the new process.  A stop by force is an exit code.
Ready(w) ==
    /\ script[w] \in {"wait", "watch"}
    /\ \E p \in Candidates(w) :
          Live(p) /\ proof = p /\ gen.owner = p /\ gen.status = "READY"
    /\ Run(w, IF w \in forced THEN "fail" ELSE "ok", 0)
    /\ UNCHANGED <<srvVars, taskVars, fileVars, workerVars, forced, left>>

\* READINESS_TIMEOUT, or a process that is gone: cleanup_failed_start(), which
\* returns at once when there is no PID, and the process is left to itself.
NotReady(w) ==
    /\ \/ /\ script[w] = "wait"
          /\ Run(w, "cleanup", child[w])
          /\ Terminate({child[w]}) /\ UNCHANGED left
       \/ /\ script[w] = "watch"
          /\ Run(w, "fail", 0)
          /\ left' = left \cup {child[w]} /\ UNCHANGED srv
    /\ UNCHANGED <<canceled, crashes, taskVars, fileVars, workerVars, forced>>

CleanedUp(w) ==
    /\ script[w] = "cleanup" /\ ~Live(child[w])
    /\ Run(w, "fail", 0)
    /\ UNCHANGED <<srvVars, taskVars, fileVars, workerVars, forced, left>>

-----------------------------------------------------------------------------
ServiceStep(p) ==
    \/ PublishProof(p) \/ PublishParticipating(p) \/ MarkReady(p)
    \/ Fence(p) \/ Exit(p)

GuardStep(t) == Admit(t) \/ Begin(t) \/ Refuse(t)

WorkerStep(w) ==
    \/ Snapshot(w) \/ PinProof(w) \/ Pin(w) \/ Validate(w)
    \/ TakeAdmission(w) \/ TakeDrain(w) \/ LockTimeout(w)
    \/ Revalidate(w) \/ Decide(w) \/ OpTimeout(w) \/ OpDone(w) \/ Publish(w)

ScriptStep(w) ==
    \/ Stop(w) \/ ForceStop(w) \/ Stopped(w) \/ Start(w)
    \/ Ready(w) \/ NotReady(w) \/ CleanedUp(w)

Next ==
    \/ \E p \in Procs : ServiceStep(p) \/ Crash(p) \/ OperatorStart(p)
    \/ \E t \in Tasks : GuardStep(t) \/ Finish(t) \/ (\E p \in Procs : Submit(t, p))
    \/ \E w \in Workers : SnapshotProof(w) \/ WorkerStep(w) \/ Expire(w) \/ Kill(w) \/ ScriptStep(w)

\* Threads and processes run, and time passes.  No callback has to end, no
\* request has to be made and no fault has to happen.
Fairness ==
    /\ \A p \in Procs : WF_vars(ServiceStep(p))
    /\ \A t \in Tasks : WF_vars(GuardStep(t))
    /\ \A w \in Workers : /\ WF_vars(WorkerStep(w)) /\ WF_vars(ScriptStep(w))
                          /\ WF_vars(Expire(w))

Spec == Init /\ [][Next]_vars /\ Fairness

-----------------------------------------------------------------------------
(***************************************************************************)
(* Properties                                                              *)
(***************************************************************************)

Phases == {"none", "boot", "proof", "up", "ready", "stopping", "closing", "gone"}

\* Every variable has its type.
TypeOK ==
    /\ srv \in [Procs -> Phases] /\ canceled \subseteq Procs /\ crashes \in Nat
    /\ task \in [Tasks -> {"new", "admission", "drain", "body", "over"}]
    /\ home \in [Tasks -> 0 .. Instances]
    /\ proof \in 0 .. Instances /\ issued \in Nat /\ born \in [Procs -> Nat]
    /\ gen \in [id : Nat, owner : 0 .. Instances,
                status : {"NONE", "PARTICIPATING", "READY", "FAILED"}]
    /\ pc \in [Workers -> Ended \cup {"idle", "snapshot", "spawned", "pin", "begin",
                  "admission", "drain", "held", "checked", "op", "publish"}]
    /\ job \in [Workers -> [expected : Nat, target : 0 .. Instances,
                             seen : 0 .. Instances, pinned : 0 .. Instances]]
    /\ child \in [Workers -> 0 .. Instances]
    /\ script \in [Workers -> {"none", "stop", "stopping", "start", "wait", "watch",
                               "cleanup", "ok", "fail"}]
    /\ left \subseteq 0 .. Instances
    /\ late \cup forced \cup killed \subseteq Workers
    /\ settled \subseteq Nat

\* No callback runs, in the old service or in the new one, while a worker
\* stops and starts the service: the two locks of _exclusive_guard() keep
\* every task_guard() out for the whole operation.
Drained == \A w \in Workers : pc[w] \in {"op", "publish"} => DrainReaders = {}

\* A restart does not have to kill -9: a service with a SIGTERM is never kept
\* alive by a callback, or by a thread that waits for the lock of the worker
\* that waits for the service.  A worker that was killed, or ran out of time
\* during an earlier stop, has given up its locks and protects nothing.
NoForcedStop == killed = {} /\ (\A w \in Workers : pc[w] # "TIMED_OUT") => forced = {}

\* Of the requests for one generation one restarts the service: once a
\* restart of it has returned RESTARTED or FAILED no worker starts another.
OncePerGeneration ==
    \A w \in Workers : pc[w] = "op" => job[w].expected \notin settled

\* A request never stops a service that became ready after it was made: when
\* the worker decides to run the script, no service is ready with a generation
\* newer than the one of the request.  This holds of workers that come second,
\* and of one whose predecessor was killed over its script.  While none was
\* killed there is one service, and it is the one the request was made to.
NewServiceSpared ==
    [][\A w \in Workers, p \in Procs :
          script[w] = "none" /\ script'[w] = "stop" /\ srv[p] = "ready"
          => /\ born[p] <= job[w].expected
             /\ killed = {} => p = job[w].target]_vars

\* A service that is ready can be restarted: the files name it, whatever a
\* worker of an earlier one writes in the end.  The one exception is a service
\* that launchctl has started and that came up after its script had given up:
\* the worker may consume the old generation over the new one.  The file then
\* says FAILED, which no later restart acts on, and never that another service
\* is ready.
ReadyIsNamed ==
    killed = {} =>
        \A p \in Procs : srv[p] = "ready" =>
            /\ proof = p
            /\ gen.owner = p \/ (p \in left /\ gen.status = "FAILED")

\* Every request comes to an end: it waits for callbacks, for other workers
\* and for the script no longer than its deadline.
WorkerEnds == \A w \in Workers : pc[w] = "spawned" ~> pc[w] \in Ended

\* A run that waits at the gate gets in, is refused or dies with its process,
\* also when a callback that never ends blocks a worker that fences it.
TaskServed == \A t \in Tasks : task[t] = "admission" ~> ~Waiting(t)

\* What an operator may rely on when a restart goes through: it disturbs no
\* callback, kills nothing by force and happens once.
RestartsSafely == TypeOK /\ Drained /\ NoForcedStop /\ OncePerGeneration

\* Nobody waits at the gate for ever, neither a request nor a run.
GateServes == WorkerEnds /\ TaskServed
================================================================================
