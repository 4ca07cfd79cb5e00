--------------------------- MODULE EmployeeExecution ---------------------------
(***************************************************************************)
(* The execution of employee work: the dispatch coordinator and its        *)
(* gateway (src/autonomous/gateway/), the runtime supervisor and the actor *)
(* of each employee (src/autonomous/runtime/), the threads that stop work, *)
(* and recovery after a restart (src/autonomous/provisioning/).            *)
(*                                                                         *)
(* One thread dispatches.  Each employee has a mailbox thread.  Threads    *)
(* that handle /stop, a team cancellation or a dismissal run beside them.  *)
(* A step is one critical section or one commit; every frame changes the   *)
(* router, the attempt and its history together, so they are one variable. *)
(* An employee serves one chat here: /stop addresses its live attempt.     *)
(*                                                                         *)
(* A commit anchors, or raises without effect, or raises although the      *)
(* frame is anchored; after the last two the writer accepts nothing until  *)
(* the process is restarted.                                               *)
(***************************************************************************)
EXTENDS Integers, Sequences, FiniteSets, SequencesExt

CONSTANTS
    Works,      \* accepted ingress records that the router queued
    Agents,     \* employees
    AgentOf,    \* the employee a work is routed to
    TeamWorks,  \* works that are team assignments
    Stoppers,   \* threads that cancel
    None,
    MaxFaults   \* bound on failed commits and crashes

Results   == {"COMPLETED", "FAILED", "TIMEOUT", "CANCELED", "ACTION_REQUIRED"}
Terminals == {"completed", "timeout", "canceled", "action_required"}

ASSUME ExecutionAssumption ==
    /\ AgentOf \in [Works -> Agents]
    /\ TeamWorks \subseteq Works
    /\ None \notin Works \cup Results \cup Terminals
    /\ MaxFaults \in Nat

VARIABLES
    work,       \* router and attempt of each work
    stopReq,    \* attempts with a cancel request
    alog,       \* what the journal says of an actor assignment
    employed,   \* employees that are ACTIVE
    mode,       \* "run", "closing", the phases of recovery, or "blocked"
    disabled,   \* the journal writer has failed
    d,          \* the dispatch thread
    permit,     \* the gateway's permits
    latch,      \* _pre_canceled
    flagged,    \* _cancel_requested
    term,       \* the supervisor's _terminals
    stopper,    \* the threads that cancel
    actor,      \* the actor of each employee
    retired,    \* employees whose actor is fenced
    prompts,    \* how often the prompt of a work was sent
    revoked,    \* works canceled before their permit was claimed
    abandoned,  \* attempts the dispatch thread left after an exception
    faults

durable == <<work, stopReq, alog, employed>>
gateway == <<permit, latch, flagged>>
ghosts  == <<prompts, revoked>>
vars    == <<durable, mode, disabled, d, gateway, term, stopper, actor, retired,
             ghosts, abandoned, faults>>

\* GatewayExecutionStatus of an actor terminal.
StatusOf ==
    [completed |-> "COMPLETED", timeout |-> "TIMEOUT",
     canceled |-> "CANCELED", action_required |-> "ACTION_REQUIRED"]

IdleThread == [pc |-> "idle", work |-> None, result |-> None]
IdleStop   == [pc |-> "idle", work |-> None]
\* _queue, the assignment of _execute(), _canceled without what has ended, and
\* whether _session is open.
NewActor   == [box |-> <<>>, cur |-> None, pc |-> "idle", result |-> None,
               canceled |-> {}, session |-> FALSE]

Init ==
    /\ work = [w \in Works |-> "queued"]
    /\ stopReq = {}
    /\ alog = [w \in Works |-> "none"]
    /\ employed = Agents
    /\ mode = "run" /\ disabled = FALSE
    /\ d = IdleThread
    /\ permit = [w \in Works |-> "none"]
    /\ latch = {} /\ flagged = {}
    /\ term = [w \in Works |-> None]
    /\ stopper = [s \in Stoppers |-> IdleStop]
    /\ actor = [a \in Agents |-> NewActor]
    /\ retired = {}
    /\ prompts = [w \in Works |-> 0]
    /\ revoked = {} /\ abandoned = {}
    /\ faults = 0

-----------------------------------------------------------------------------
(***************************************************************************)
(* Commits                                                                 *)
(***************************************************************************)

Anchors == ~disabled /\ UNCHANGED <<disabled, faults>>

Breaks  == ~disabled /\ faults < MaxFaults /\ disabled' = TRUE /\ faults' = faults + 1

\* The commit raises and the frame is lost.
Fails == Breaks \/ (disabled /\ UNCHANGED <<disabled, faults>>)

\* The commit raises although the frame is anchored: only the fsync of the
\* anchor's directory failed.
Keeps == Breaks

\* The head moved in each of the three tries.
Unstable ==
    /\ ~disabled /\ faults < MaxFaults
    /\ faults' = faults + 1 /\ UNCHANGED disabled

-----------------------------------------------------------------------------
(***************************************************************************)
(* The dispatch thread                                                     *)
(***************************************************************************)

Live(a) == {w \in Works : AgentOf[w] = a /\ work[w] = "dispatched"}

\* The checks of peek_dispatch_candidate(), which prepare_next() repeats under
\* all guards: queued, nothing dispatching for the employee, who is ACTIVE.
Eligible(w) == work[w] = "queued" /\ Live(AgentOf[w]) = {} /\ AgentOf[w] \in employed

At(pc) == d.pc = pc

\* The thread goes on, leaves the work, or leaves an attempt unfinished.
Goto(pc)      == d' = [d EXCEPT !.pc = pc] /\ UNCHANGED abandoned
Settled(pc, r) == d' = [d EXCEPT !.pc = pc, !.result = r] /\ UNCHANGED abandoned
Leave         == d' = IdleThread /\ UNCHANGED abandoned
Abandon       == d' = IdleThread /\ abandoned' = abandoned \cup {d.work}

\* peek_dispatch_candidate(); eligibility after a deferral goes by the clock,
\* so any queued work may be next.
Peek(w) ==
    /\ mode = "run" /\ At("idle")
    /\ Eligible(w)
    /\ d' = [IdleThread EXCEPT !.pc = "peeked", !.work = w]
    /\ UNCHANGED <<durable, mode, disabled, gateway, term, stopper, actor, retired,
                   ghosts, abandoned, faults>>

\* The authority, the context, the team step or the Slock engine is not there:
\* the work is rejected, deferred, or left by an exception.
Discard ==
    /\ At("peeked")
    /\ \/ /\ work[d.work] = "queued" /\ Anchors
          /\ work' = [work EXCEPT ![d.work] = "rejected"]
       \/ UNCHANGED <<work, disabled, faults>>
    /\ Leave
    /\ UNCHANGED <<stopReq, alog, employed, mode, gateway, term, stopper, actor, retired,
                   ghosts>>

\* Mutant of Bind: what was read at the peek is not looked at again.
BindStale ==
    /\ At("peeked") /\ Anchors
    /\ work' = [work EXCEPT ![d.work] = "dispatched"]
    /\ Goto("bound")
    /\ UNCHANGED <<stopReq, alog, employed, mode, gateway, term, stopper, actor, retired,
                   ghosts>>

\* _prepare_next_once(): the frame with the router's dispatch, the binding and
\* the dispatch of the attempt, if nothing has changed since the peek.
Bind ==
    LET bound == [work EXCEPT ![d.work] = "dispatched"] IN
    /\ At("peeked")
    /\ \/ Eligible(d.work) /\ Anchors /\ work' = bound /\ Goto("bound")
       \/ Eligible(d.work) /\ Keeps /\ work' = bound /\ Abandon
       \/ ~Eligible(d.work) /\ Leave /\ UNCHANGED <<work, disabled, faults>>
       \/ (Fails \/ Unstable) /\ Leave /\ UNCHANGED work
    /\ UNCHANGED <<stopReq, alog, employed, mode, gateway, term, stopper, actor, retired,
                   ghosts>>

\* The deadline of the team step has passed: TIMEOUT without a permit.
Expire ==
    /\ At("bound") /\ d.work \in TeamWorks
    /\ Settled("finalize", "TIMEOUT")
    /\ UNCHANGED <<durable, mode, disabled, gateway, term, stopper, actor, retired,
                   ghosts, faults>>

\* issue_permit().
Issue ==
    /\ At("bound")
    /\ IF d.work \in latch
       THEN /\ latch' = latch \ {d.work}
            /\ permit' = [permit EXCEPT ![d.work] = "canceled"]
            /\ flagged' = flagged \cup {d.work}
       ELSE /\ permit' = [permit EXCEPT ![d.work] = "issued"]
            /\ UNCHANGED <<latch, flagged>>
    /\ Goto("issued")
    /\ UNCHANGED <<durable, mode, disabled, term, stopper, actor, retired, ghosts, faults>>

\* The lifecycle reports the attempt queued, then running (two commits of the
\* Outbox); an exception leaves the attempt as it is.
Announce ==
    /\ At("issued")
    /\ \/ Anchors /\ Goto("announced")
       \/ Fails /\ Abandon
    /\ UNCHANGED <<durable, mode, gateway, term, stopper, actor, retired, ghosts>>

\* execute_permit(): the permit is claimed, or found canceled.
Claim ==
    /\ At("announced")
    /\ IF permit[d.work] = "canceled"
       THEN /\ permit' = [permit EXCEPT ![d.work] = "none"]
            /\ flagged' = flagged \ {d.work}
            /\ Settled("finalize", "CANCELED")
       ELSE /\ permit' = [permit EXCEPT ![d.work] = "running"]
            /\ Goto("running") /\ UNCHANGED flagged
    /\ UNCHANGED <<durable, mode, disabled, latch, term, stopper, actor, retired,
                   ghosts, faults>>

\* EmployeeRuntimeSupervisor.submit() and EmployeeActor.submit(): the queued
\* event, then the mailbox.  A fenced actor or a failed commit raises.
Submit ==
    LET w == d.work  a == AgentOf[w]  queued == [alog EXCEPT ![w] = "queued"] IN
    /\ At("running")
    /\ \/ /\ a \notin retired /\ Anchors
          /\ alog' = queued
          /\ actor' = [actor EXCEPT ![a].box = Append(@, w)]
          /\ Goto("wait")
       \/ /\ a \notin retired /\ Keeps
          /\ alog' = queued
          /\ Settled("settle", "FAILED") /\ UNCHANGED actor
       \/ /\ IF a \in retired THEN UNCHANGED <<disabled, faults>> ELSE Fails
          /\ Settled("settle", "FAILED") /\ UNCHANGED <<alog, actor>>
    /\ UNCHANGED <<work, stopReq, employed, mode, gateway, term, stopper, retired, ghosts>>

\* wait_terminal() returns, or times out while the assignment is still in the
\* mailbox or with its backend.
Wait ==
    /\ At("wait")
    /\ \/ term[d.work] # None /\ Settled("settle", StatusOf[term[d.work]])
       \/ term[d.work] = None /\ Settled("settle", "TIMEOUT")
    /\ UNCHANGED <<durable, mode, disabled, gateway, term, stopper, actor, retired,
                   ghosts, faults>>

\* The permit ends; a cancellation that came meanwhile wins.
Settle ==
    /\ At("settle")
    /\ permit' = [permit EXCEPT ![d.work] = "none"]
    /\ flagged' = flagged \ {d.work}
    /\ Settled("finalize", IF d.work \in flagged THEN "CANCELED" ELSE d.result)
    /\ UNCHANGED <<durable, mode, disabled, latch, term, stopper, actor, retired,
                   ghosts, faults>>

\* _terminal_lock: a thread that cancels holds it from its commit to the end.
TerminalLockFree == \A s \in Stoppers : stopper[s].pc = "idle"

\* Mutant of Outcome: a cancel request that came after the gateway is lost.
OutcomeOfGateway(w, r) == r

\* A cancel request that is in the journal decides.
Outcome(w, r) == IF w \in stopReq THEN "CANCELED" ELSE r

\* Mutant of Finalize: without the lock that cancellations hold.
FinalizeUnlocked ==
    LET ended == [work EXCEPT ![d.work] = Outcome(d.work, d.result)] IN
    /\ At("finalize")
    /\ \/ Anchors /\ work' = ended /\ Leave
       \/ Keeps /\ work' = ended /\ Leave
       \/ (Fails \/ Unstable) /\ UNCHANGED work /\ Abandon
    /\ UNCHANGED <<stopReq, alog, employed, mode, gateway, term, stopper, actor, retired,
                   ghosts>>

\* finalize_attempt(): one frame ends the attempt and the router's record.
Finalize ==
    LET ended == [work EXCEPT ![d.work] = Outcome(d.work, d.result)] IN
    /\ At("finalize") /\ TerminalLockFree
    /\ \/ Anchors /\ work' = ended /\ Leave
       \/ Keeps /\ work' = ended /\ Leave
       \/ (Fails \/ Unstable) /\ UNCHANGED work /\ Abandon
    /\ UNCHANGED <<stopReq, alog, employed, mode, gateway, term, stopper, actor, retired,
                   ghosts>>

Dispatch ==
    \/ Discard \/ Bind \/ Expire \/ Issue \/ Announce \/ Claim
    \/ Submit \/ Wait \/ Settle \/ Finalize

-----------------------------------------------------------------------------
(***************************************************************************)
(* Cancellation: /stop, a team run, a dismissal                            *)
(***************************************************************************)

StopEnds(s)     == stopper' = [stopper EXCEPT ![s] = IdleStop]
StopGoto(s, pc) == stopper' = [stopper EXCEPT ![s].pc = pc]

\* request_cancel() and request_team_cancel() of an attempt: the request is
\* anchored before the gateway is touched.
Stop(s, w) ==
    LET requested == stopReq \cup {w} IN
    /\ mode = "run" /\ TerminalLockFree
    /\ Live(AgentOf[w]) = {w} /\ w \notin stopReq
    /\ \/ /\ Anchors /\ stopReq' = requested
          /\ stopper' = [stopper EXCEPT ![s] = [pc |-> "permit", work |-> w]]
       \/ Keeps /\ stopReq' = requested /\ UNCHANGED stopper
    /\ UNCHANGED <<work, alog, employed, mode, d, gateway, term, actor, retired,
                   ghosts, abandoned>>

\* request_team_cancel() of a step that is still queued.
StopQueued(w) ==
    /\ mode = "run" /\ TerminalLockFree
    /\ w \in TeamWorks /\ work[w] = "queued"
    /\ Anchors
    /\ work' = [work EXCEPT ![w] = "rejected"]
    /\ UNCHANGED <<stopReq, alog, employed, mode, d, gateway, term, stopper, actor, retired,
                   ghosts, abandoned>>

\* cancel_attempt(): an issued permit is revoked, a running one goes on to the
\* runtime, any other leaves a latch for issue_permit().
StopPermit(s) ==
    LET w == stopper[s].work IN
    /\ stopper[s].pc = "permit"
    /\ flagged' = flagged \cup {w}
    /\ permit' = [permit EXCEPT ![w] = IF @ = "issued" THEN "canceled" ELSE @]
    /\ latch' = IF permit[w] \in {"issued", "running"} THEN latch ELSE latch \cup {w}
    /\ revoked' = IF permit[w] = "issued" \/ (d.work = w /\ At("bound"))
                  THEN revoked \cup {w} ELSE revoked
    /\ IF permit[w] = "running" THEN StopGoto(s, "actor") ELSE StopEnds(s)
    /\ UNCHANGED <<durable, mode, disabled, d, term, actor, retired, prompts, abandoned, faults>>

\* The assignments an actor knows and has not ended.
Pending(a) ==
    ToSet(actor[a].box) \cup (IF actor[a].pc \in {"idle", "sink"} THEN {} ELSE {actor[a].cur})

\* supervisor.cancel() and the critical section of actor.cancel(): nothing if
\* the assignment has ended, is not submitted yet, or its actor is fenced.  A
\* failed commit raises before the session is told.
StopActor(s) ==
    LET w == stopper[s].work  a == AgentOf[w]  A == actor[a] IN
    /\ stopper[s].pc = "actor"
    /\ IF w \in Pending(a) \ A.canceled /\ a \notin retired
       THEN /\ actor' = [actor EXCEPT ![a].canceled = @ \cup {w}]
            /\ \/ /\ Anchors
                  /\ IF A.cur = w /\ A.session THEN StopGoto(s, "session") ELSE StopEnds(s)
               \/ Fails /\ StopEnds(s)
       ELSE StopEnds(s) /\ UNCHANGED <<actor, disabled, faults>>
    /\ UNCHANGED <<durable, mode, d, gateway, term, retired, prompts, revoked, abandoned>>

\* session.cancel(), outside the lock.  A prompt that is with the backend may
\* return at any time and as anything (Prompted), so nothing else changes.
StopSession(s) ==
    /\ stopper[s].pc = "session"
    /\ StopEnds(s)
    /\ UNCHANGED <<durable, mode, disabled, d, gateway, term, actor, retired, prompts, revoked,
                   abandoned, faults>>

-----------------------------------------------------------------------------
(***************************************************************************)
(* The mailbox thread of an employee                                       *)
(***************************************************************************)

Become(a, pc, r, open) ==
    actor' = [actor EXCEPT ![a].pc = pc, ![a].result = r, ![a].session = open]

\* The next assignment becomes active; a canceled one is not executed.
Take(a) ==
    LET A == actor[a]  w == Head(A.box) IN
    /\ A.pc = "idle" /\ A.box # <<>>
    /\ actor' = [actor EXCEPT ![a] = [A EXCEPT !.box = Tail(@), !.cur = w,
                    !.pc = IF w \in A.canceled THEN "finish" ELSE "effects",
                    !.result = IF w \in A.canceled THEN "canceled" ELSE None]]
    /\ UNCHANGED <<durable, mode, disabled, d, gateway, term, stopper, retired,
                   ghosts, abandoned, faults>>

\* The effect is committed PREPARED, then EXECUTING.
Effects(a) ==
    LET A == actor[a] IN
    /\ A.pc = "effects"
    /\ \/ Anchors /\ Become(a, "open", None, A.session)
       \/ Fails /\ Become(a, "finish", "action_required", FALSE)
    /\ UNCHANGED <<durable, mode, d, gateway, term, stopper, retired, ghosts, abandoned>>

\* Under the lock, a healthy session of the same key is kept, any other is
\* closed and a new one is opened, or cannot be.
Open(a) ==
    /\ actor[a].pc = "open"
    /\ \/ Become(a, "send", None, TRUE)
       \/ Become(a, "finish", "action_required", FALSE)
    /\ UNCHANGED <<durable, mode, disabled, d, gateway, term, stopper, retired,
                   ghosts, abandoned, faults>>

\* send_prompt(), outside the lock.
Send(a) ==
    LET A == actor[a] IN
    /\ A.pc = "send"
    /\ Become(a, "prompt", None, A.session)
    /\ prompts' = [prompts EXCEPT ![A.cur] = @ + 1]
    /\ UNCHANGED <<durable, mode, disabled, d, gateway, term, stopper, retired,
                   revoked, abandoned, faults>>

\* It returns, times out, is canceled or fails.
Prompted(a) ==
    LET A == actor[a] IN
    /\ A.pc = "prompt"
    /\ \/ Become(a, "finish", IF A.cur \in A.canceled THEN "canceled" ELSE "completed", TRUE)
       \/ \E r \in {"timeout", "canceled", "action_required"} : Become(a, "finish", r, FALSE)
    /\ UNCHANGED <<durable, mode, disabled, d, gateway, term, stopper, retired,
                   ghosts, abandoned, faults>>

\* _finish(): the terminal is committed; if that raises the result is not used.
Finish(a) ==
    LET A == actor[a]  w == A.cur
        Ended(r) == actor' = [actor EXCEPT ![a] =
                       [A EXCEPT !.pc = "sink", !.result = r, !.canceled = @ \ {w}]] IN
    /\ A.pc = "finish"
    /\ \/ Anchors /\ alog' = [alog EXCEPT ![w] = A.result] /\ Ended(A.result)
       \/ Keeps /\ alog' = [alog EXCEPT ![w] = A.result] /\ Ended("action_required")
       \/ Fails /\ Ended("action_required") /\ UNCHANGED alog
    /\ UNCHANGED <<work, stopReq, employed, mode, d, gateway, term, stopper, retired,
                   ghosts, abandoned>>

\* _record_terminal() wakes the waiting dispatch thread.
Sink(a) ==
    LET A == actor[a] IN
    /\ A.pc = "sink"
    /\ term' = [term EXCEPT ![A.cur] = A.result]
    /\ actor' = [actor EXCEPT ![a] = [A EXCEPT !.pc = "idle", !.cur = None, !.result = None]]
    /\ UNCHANGED <<durable, mode, disabled, d, gateway, stopper, retired,
                   ghosts, abandoned, faults>>

\* reap_idle(), by sweep_idle() of the dispatch loop.
Reap(a) ==
    /\ mode = "run" /\ At("idle")
    /\ actor[a].pc = "idle" /\ actor[a].session
    /\ actor' = [actor EXCEPT ![a].session = FALSE]
    /\ UNCHANGED <<durable, mode, disabled, d, gateway, term, stopper, retired,
                   ghosts, abandoned, faults>>

Mailbox(a) == Take(a) \/ Effects(a) \/ Open(a) \/ Send(a) \/ Prompted(a) \/ Finish(a) \/ Sink(a)

-----------------------------------------------------------------------------
(***************************************************************************)
(* Dismissal, close, crash and recovery                                    *)
(***************************************************************************)

\* The employee is no longer ACTIVE.
Dismiss(a) ==
    /\ mode = "run" /\ a \in employed /\ Anchors
    /\ employed' = employed \ {a}
    /\ UNCHANGED <<work, stopReq, alog, mode, d, gateway, term, stopper, actor, retired,
                   ghosts, abandoned>>

\* EmployeeActor.close(): what is not ended counts as canceled.
Closed(a) == [actor[a] EXCEPT !.canceled = @ \cup Pending(a)]

\* The last step of the drain effect: retire_employee(), after the grace time.
Retire(a) ==
    /\ mode = "run" /\ a \notin employed \cup retired
    /\ retired' = retired \cup {a}
    /\ actor' = [actor EXCEPT ![a] = Closed(a)]
    /\ UNCHANGED <<durable, mode, disabled, d, gateway, term, stopper, ghosts, abandoned, faults>>

\* close() of the runtime joins the dispatch thread, then closes the actors.
Close ==
    /\ mode = "run" /\ At("idle")
    /\ mode' = "closing"
    /\ actor' = [a \in Agents |-> Closed(a)]
    /\ retired' = Agents
    /\ UNCHANGED <<durable, disabled, d, gateway, term, stopper, ghosts, abandoned, faults>>

\* The process ends and starts again.  It is killed, or it was closed, could
\* not recover or write, and is started anew.
Restart ==
    /\ \/ faults < MaxFaults /\ faults' = faults + 1
       \/ (mode \in {"closing", "blocked"} \/ disabled) /\ UNCHANGED faults
    /\ mode' = "actors" /\ disabled' = FALSE
    /\ d' = IdleThread
    /\ permit' = [w \in Works |-> "none"]
    /\ latch' = {} /\ flagged' = {}
    /\ term' = [w \in Works |-> None]
    /\ stopper' = [s \in Stoppers |-> IdleStop]
    /\ actor' = [a \in Agents |-> NewActor]
    /\ retired' = {} /\ abandoned' = {}
    /\ UNCHANGED <<durable, ghosts>>

\* employee_runtime.recover(): an assignment without a terminal has no payload
\* to run again and gets one.
RecoverActor(w) ==
    /\ mode = "actors" /\ alog[w] = "queued"
    /\ \/ /\ Anchors /\ alog' = [alog EXCEPT ![w] = "action_required"]
          /\ UNCHANGED mode
       \/ Fails /\ mode' = "blocked" /\ UNCHANGED alog
    /\ UNCHANGED <<work, stopReq, employed, d, gateway, term, stopper, actor, retired,
                   ghosts, abandoned>>

\* The terminals that were replayed are restored, without the output.
RecoverActors ==
    /\ mode = "actors" /\ \A w \in Works : alog[w] # "queued"
    /\ term' = [w \in Works |-> IF alog[w] = "none" THEN None ELSE alog[w]]
    /\ mode' = "attempts"
    /\ UNCHANGED <<durable, disabled, d, gateway, stopper, actor, retired,
                   ghosts, abandoned, faults>>

\* Mutant of Recovered: what has no terminal is taken for done.
RecoveredOptimistic(w) == IF term[w] = None THEN "COMPLETED" ELSE StatusOf[term[w]]

\* _recovered_execution_result(): unknown, or completed without its output, is
\* ACTION_REQUIRED.
Recovered(w) ==
    IF term[w] \in {None, "completed"} THEN "ACTION_REQUIRED" ELSE StatusOf[term[w]]

\* Mutant of RecoverAttempt: canceled attempts are taken for finished.
RecoverAttemptUncanceled(w) ==
    /\ mode = "attempts" /\ work[w] = "dispatched" /\ w \notin stopReq
    /\ Anchors /\ work' = [work EXCEPT ![w] = Recovered(w)]
    /\ UNCHANGED <<stopReq, alog, employed, mode, d, gateway, term, stopper, actor, retired,
                   ghosts, abandoned>>

\* recover_incomplete_attempts().
RecoverAttempt(w) ==
    /\ mode = "attempts" /\ work[w] = "dispatched"
    /\ \/ /\ Anchors /\ work' = [work EXCEPT ![w] = Outcome(w, Recovered(w))]
          /\ UNCHANGED mode
       \/ (Fails \/ Unstable) /\ mode' = "blocked" /\ UNCHANGED work
    /\ UNCHANGED <<stopReq, alog, employed, d, gateway, term, stopper, actor, retired,
                   ghosts, abandoned>>

\* The dispatch thread starts when every attempt has its result.
Recover ==
    /\ mode = "attempts" /\ \A w \in Works : work[w] # "dispatched"
    /\ mode' = "run"
    /\ UNCHANGED <<durable, disabled, d, gateway, term, stopper, actor, retired,
                   ghosts, abandoned, faults>>

Recovery ==
    \/ \E w \in Works : RecoverActor(w) \/ RecoverAttempt(w)
    \/ RecoverActors \/ Recover

-----------------------------------------------------------------------------
Cancel(s) == StopPermit(s) \/ StopActor(s) \/ StopSession(s)

Next ==
    \/ \E w \in Works : Peek(w) \/ StopQueued(w)
    \/ Dispatch
    \/ \E s \in Stoppers : Cancel(s) \/ \E w \in Works : Stop(s, w)
    \/ \E a \in Agents : Mailbox(a) \/ Reap(a) \/ Dismiss(a) \/ Retire(a)
    \/ Close \/ Restart \/ Recovery

\* The dispatch thread, once it has taken a work, and a thread that cancels
\* only wait with a time limit; a prompt has one too; recovery runs to its end.
Fairness ==
    /\ WF_vars(Dispatch) /\ WF_vars(Recovery)
    /\ \A s \in Stoppers : WF_vars(Cancel(s))
    /\ \A a \in Agents : WF_vars(Mailbox(a))

Spec == Init /\ [][Next]_vars /\ Fairness

-----------------------------------------------------------------------------
(***************************************************************************)
(* Properties                                                              *)
(***************************************************************************)

\* The variables keep their types.
TypeOK ==
    /\ work \in [Works -> {"queued", "rejected", "dispatched"} \cup Results]
    /\ stopReq \subseteq Works
    /\ alog \in [Works -> {"none", "queued"} \cup Terminals]
    /\ employed \subseteq Agents /\ retired \subseteq Agents
    /\ mode \in {"run", "closing", "actors", "attempts", "blocked"}
    /\ disabled \in BOOLEAN
    /\ d.work \in Works \cup {None} /\ d.result \in Results \cup {None}
    /\ permit \in [Works -> {"none", "issued", "running", "canceled"}]
    /\ latch \subseteq Works /\ flagged \subseteq Works
    /\ term \in [Works -> Terminals \cup {None}]
    /\ \A s \in Stoppers : stopper[s].pc \in {"idle", "permit", "actor", "session"}
    /\ \A a \in Agents : /\ actor[a].cur \in Works \cup {None}
                         /\ actor[a].result \in Terminals \cup {None}
                         /\ actor[a].session \in BOOLEAN
    /\ faults \in 0 .. MaxFaults

\* An employee has at most one unfinished attempt, also when the dispatch
\* thread left one behind after an exception.
OneLiveAttempt == \A a \in Agents : Cardinality(Live(a)) <= 1

\* No prompt is sent twice, whatever crashed or raised in between: an attempt
\* whose outcome is unknown is never run again.
PromptOnce == \A w \in Works : prompts[w] <= 1

\* If the cancel request is anchored first the attempt ends CANCELED, even if
\* a late result says otherwise or the process dies in between.
StopWins == \A w \in stopReq : work[w] \in Results => work[w] = "CANCELED"

\* A permit that was canceled before it was claimed never reaches a backend,
\* also when the cancellation came before the permit existed.
RevokedNeverRuns == \A w \in revoked : prompts[w] = 0

\* session.cancel() is called without the actor's lock on a session that later
\* assignments share: the prompt it ends is the one that was to be stopped.
StopsOwnPrompt ==
    \A s \in Stoppers : stopper[s].pc = "session" =>
        LET A == actor[AgentOf[stopper[s].work]] IN
        A.pc = "prompt" => A.cur = stopper[s].work

\* COMPLETED is only reported of a prompt that was sent and whose result the
\* actor anchored.
CompletedIsAnchored ==
    \A w \in Works : work[w] = "COMPLETED" => alog[w] = "completed" /\ prompts[w] = 1

\* While the service runs, an unfinished attempt is the one the dispatch thread
\* is at, or one it left after an exception.
AttemptsAccounted ==
    mode \in {"run", "closing"} =>
        \A w \in Works : work[w] = "dispatched" => d.work = w \/ w \in abandoned

\* What the router or the coordinator ended stays as it is: a late result, a
\* repeated cancellation or a dispatch that was prepared before cannot change it.
EndIsFinal ==
    [][\A w \in Works : work[w] \in Results \cup {"rejected"} => work'[w] = work[w]]_vars

\* A dispatched attempt gets its result, whatever its backend does, unless an
\* exception left it for the next restart or recovery itself is blocked.
AttemptEnds ==
    \A w \in Works : work[w] = "dispatched" ~>
        work[w] \in Results \/ w \in abandoned \/ mode = "blocked"

\* An assignment that is in a mailbox gets a terminal, also after its waiter
\* has left, unless the journal cannot take it.
AssignmentEnds ==
    \A w \in Works : alog[w] = "queued" ~>
        alog[w] # "queued" \/ disabled \/ mode = "blocked"

\* Attempts, the dispatch thread and the actors' facts agree: an employee has
\* one attempt, somebody is at it, and COMPLETED is never a guess.
AttemptsSound ==
    TypeOK /\ OneLiveAttempt /\ AttemptsAccounted /\ CompletedIsAnchored

\* A prompt is sent at most once, never after its permit was revoked, and only
\* its own cancellation stops it.
PromptsSound == PromptOnce /\ RevokedNeverRuns /\ StopsOwnPrompt

\* Attempts and assignments both come to an end.
WorkEnds == AttemptEnds /\ AssignmentEnds
================================================================================
