---------------------------- MODULE EmployeeOutbox ----------------------------
(***************************************************************************)
(* The employee Outbox: the status cards of work attempts and of employee  *)
(* control commands (src/autonomous/outbox/), the threads that deliver     *)
(* them through each employee's Channel child, and the parts of the        *)
(* gateway and of the dispatch worker that append to them.                 *)
(*                                                                         *)
(* Every call of EmployeeOutboxService runs under its mutex and ends in at *)
(* most one journal commit, so it is one step here.  deliver() is not      *)
(* under any lock: it is six steps, and the dispatch thread, the threads   *)
(* that handle control commands and the team threads interleave in it.     *)
(* The process may die between any two steps; what was committed stays.    *)
(*                                                                         *)
(* A snapshot is its version and its state.  A record has at most one      *)
(* effect per snapshot version, because no effect ever fails, and its kind *)
(* is CREATE exactly while the record has no binding, because the next     *)
(* effect waits for the active one.                                        *)
(***************************************************************************)
EXTENDS Integers, Sequences, FiniteSets, SequencesExt

CONSTANTS
    Attempts,    \* cards of work attempts
    Answers,     \* cards of commands that can succeed: /stop and reads
    Denials,     \* cards of commands that can be denied or fail: reads
    Employees,
    EmployeeOf,  \* the employee whose Bot owns a card
    Dispatcher,  \* the dispatch thread
    Drainers,    \* threads of control commands, which drain the Outbox
    Publishers,  \* team threads, which deliver one finished card
    None,
    Results,     \* results of attempts that are explored
    MaxFaults    \* bound on crashes, reconnects, timeouts and failed calls

Controls == Answers \cup Denials
Cards    == Attempts \cup Controls
Threads  == {Dispatcher} \cup Drainers \cup Publishers
Versions == 1..3

\* The terminal card states, _terminal_view() of an attempt's result.
Done       == {"COMPLETED", "FAILED", "CANCELED", "ACTION_REQUIRED"}
CardStates == {"QUEUED", "RUNNING"} \cup Done

ASSUME OutboxAssumption ==
    /\ EmployeeOf \in [Cards -> Employees]
    /\ Attempts \cap Controls = {}
    /\ Publishers \cap (Drainers \cup {Dispatcher}) = {}
    /\ None \notin Threads \cup Cards \cup Done
    /\ Results \subseteq Done
    /\ MaxFaults \in Nat

VARIABLES
    snaps,      \* the state of each version of each card
    effect,     \* the delivery effect of each version
    binding,    \* the version each card's binding names, 0 without one
    tombs,      \* tombstoned versions
    order,      \* cards by created_at
    fact,       \* the terminal status of an attempt in the journal
    disposed,   \* control commands with a disposition
    published,  \* cards recorded as a team contribution
    poisoned,   \* the journal holds an event the projection refuses
    booted,     \* recovery is over
    phase,      \* where the dispatch thread is in its loop
    current,    \* the attempt it executes
    thread,     \* where each thread is in deliver()
    up,         \* employees whose Channel child is READY
    queue,      \* requests in the control pipe of each child
    posts,      \* uuids of the messages Feishu created for a card
    shown,      \* the version the user sees
    faults

durable == <<snaps, effect, binding, tombs, order, fact, disposed, published, poisoned>>
worker  == <<booted, phase, current>>
channel == <<up, queue, posts, shown>>
vars    == <<durable, worker, thread, channel, faults>>

\* Where a thread is: the step, the card, the version it took of the card and
\* the version that was bound when it read the record.
Place(pc, c, v) == [pc |-> pc, card |-> c, ver |-> v, bound |-> 0]
Idle == Place("idle", None, 0)

Init ==
    /\ snaps = [c \in Cards |-> <<>>]
    /\ effect = [c \in Cards |-> [v \in Versions |-> "none"]]
    /\ binding = [c \in Cards |-> 0]
    /\ tombs = [c \in Cards |-> {}]
    /\ order = <<>>
    /\ fact = [c \in Attempts |-> None]
    /\ disposed = {} /\ published = {} /\ poisoned = FALSE
    /\ booted = TRUE /\ phase = "controls" /\ current = None
    /\ thread = [t \in Threads |-> Idle]
    /\ up = Employees
    /\ queue = [e \in Employees |-> <<>>]
    /\ posts = [c \in Cards |-> {}]
    /\ shown = [c \in Cards |-> 0]
    /\ faults = 0

-----------------------------------------------------------------------------
(***************************************************************************)
(* Snapshots                                                               *)
(***************************************************************************)

Latest(c)   == snaps[c][Len(snaps[c])]
Terminal(c) == snaps[c] # <<>> /\ Latest(c) \in Done

\* The transitions advance_snapshot() and the reducer allow.
Allowed(from, to) ==
    \/ from = "QUEUED" /\ to \in CardStates \ {"COMPLETED"}
    \/ from = "RUNNING" /\ to \in CardStates \ {"QUEUED"}

\* append_snapshot(): version 1 is QUEUED, and a later one continues the
\* latest.  An exception changes nothing.
AppendSnapshot(c, s) ==
    /\ ~poisoned
    /\ IF snaps[c] = <<>> THEN s = "QUEUED" ELSE Allowed(Latest(c), s)
    /\ snaps' = [snaps EXCEPT ![c] = Append(@, s)]

\* The card state and the order of states EmployeeOutboxLifecycle.terminal()
\* goes through: QUEUED, then RUNNING unless the result is ACTION_REQUIRED,
\* then the result.
NextCard(c) ==
    IF snaps[c] = <<>> THEN "QUEUED"
    ELSE IF Latest(c) = "QUEUED" /\ fact[c] # "ACTION_REQUIRED" THEN "RUNNING"
    ELSE fact[c]

-----------------------------------------------------------------------------
(***************************************************************************)
(* The dispatch thread: attempts                                           *)
(***************************************************************************)

\* dispatch_next() commits the dispatch of an attempt.
Dispatch(a) ==
    /\ booted /\ phase = "dispatch" /\ current = None
    /\ a \notin ToSet(order)
    /\ current' = a
    /\ order' = Append(order, a)
    /\ UNCHANGED <<snaps, effect, binding, tombs, fact, disposed, published, poisoned,
                   booted, phase, thread, channel, faults>>

\* prepare_next() queues the card, execute_prepared() marks it running.
Progress(a) ==
    /\ current = a /\ fact[a] = None
    /\ \/ snaps[a] = <<>> /\ AppendSnapshot(a, "QUEUED")
       \/ snaps[a] = <<"QUEUED">> /\ AppendSnapshot(a, "RUNNING")
    /\ UNCHANGED <<effect, binding, tombs, order, fact, disposed, published, poisoned,
                   worker, thread, channel, faults>>

\* finalize_attempt() commits the result: of the execution, of a deadline
\* that expired before it was queued, or, after a restart, of an attempt
\* that had no result yet (recover_incomplete_attempts()).
Finalize(a) ==
    /\ fact[a] = None
    /\ \/ current = a /\ snaps[a] # <<"QUEUED">>
       \/ ~booted /\ a \in ToSet(order)
    /\ \E s \in Results :
          /\ booted /\ snaps[a] = <<>> => s = "FAILED"
          /\ fact' = [fact EXCEPT ![a] = s]
    /\ UNCHANGED <<snaps, effect, binding, tombs, order, disposed, published, poisoned,
                   worker, thread, channel, faults>>

\* finalize_attempt(), and reconcile_terminal_snapshots() after a restart,
\* bring the card to the committed result, one snapshot at a time.
Report(a) ==
    /\ fact[a] # None /\ ~Terminal(a)
    /\ current = a \/ ~booted
    /\ AppendSnapshot(a, NextCard(a))
    /\ current' = IF NextCard(a) \in Done THEN None ELSE current
    /\ phase' = IF booted /\ NextCard(a) \in Done THEN "drain" ELSE phase
    /\ UNCHANGED <<effect, binding, tombs, order, fact, disposed, published, poisoned,
                   booted, thread, channel, faults>>

\* The execution raises: the worker logs it and starts its loop again.
Abandon ==
    /\ current # None /\ fact[current] = None /\ faults < MaxFaults
    /\ current' = None /\ phase' = "controls"
    /\ faults' = faults + 1
    /\ UNCHANGED <<durable, booted, thread, channel>>

\* The loop goes on once every control command seen has a disposition, and
\* when nothing is there to dispatch.
Loop ==
    /\ booted /\ current = None /\ thread[Dispatcher].pc = "idle"
    /\ \/ phase = "controls" /\ Controls \cap ToSet(order) \subseteq disposed
          /\ phase' = "dispatch"
       \/ phase = "dispatch" /\ phase' = "drain"
    /\ UNCHANGED <<durable, booted, current, thread, channel, faults>>

-----------------------------------------------------------------------------
(***************************************************************************)
(* Control commands                                                        *)
(***************************************************************************)

\* command_response() and read_response() append QUEUED ...
Receive(c) ==
    /\ booted
    /\ snaps[c] = <<>>
    /\ AppendSnapshot(c, "QUEUED")
    /\ order' = Append(order, c)
    /\ UNCHANGED <<effect, binding, tombs, fact, disposed, published, poisoned,
                   worker, thread, channel, faults>>

\* The answer: COMPLETED to /stop and to a read that succeeds,
\* ACTION_REQUIRED to a read that is denied or fails.
Replies(c) == (IF c \in Answers THEN {"COMPLETED"} ELSE {})
              \cup (IF c \in Denials THEN {"ACTION_REQUIRED"} ELSE {})

\* ... and then the answer.  A queued card cannot go to COMPLETED: the append
\* raises, out of the pass of the dispatch thread too, the command gets no
\* disposition, and the next pass tries it again before anything else.
Respond(c) ==
    /\ booted
    /\ snaps[c] # <<>> /\ ~Terminal(c)
    /\ \E s \in Replies(c) : AppendSnapshot(c, s)
    /\ UNCHANGED <<effect, binding, tombs, order, fact, disposed, published, poisoned,
                   worker, thread, channel, faults>>

\* record_disposition(), once the response has returned.  The threads that
\* handle the command drain the Outbox next: the dispatch thread, one of the
\* channel event, or both.
Dispose(c) ==
    /\ booted
    /\ Terminal(c) /\ c \notin disposed
    /\ disposed' = disposed \cup {c}
    /\ phase' \in {phase} \cup (IF phase = "controls" THEN {"drain"} ELSE {})
    /\ \E D \in SUBSET {t \in Drainers : thread[t].pc = "idle"} :
          thread' = [t \in Threads |-> IF t \in D THEN Place("drain", None, 0) ELSE thread[t]]
    /\ UNCHANGED <<snaps, effect, binding, tombs, order, fact, published, poisoned,
                   booted, current, channel, faults>>

-----------------------------------------------------------------------------
(***************************************************************************)
(* deliver()                                                               *)
(***************************************************************************)

Active(c) == {v \in Versions : effect[c][v] \in {"prepared", "executing"}}

Goto(t, pc) == thread' = [thread EXCEPT ![t].pc = pc]

\* deliver() returns or raises.  A team thread that got a binding goes on to
\* record it; the dispatch thread starts its loop again.
Leave(t, returned) ==
    /\ thread' = [thread EXCEPT ![t] =
                     IF t \in Publishers /\ returned
                     THEN Place("record", thread[t].card, 0)
                     ELSE Idle]
    /\ phase' = IF t = Dispatcher THEN "controls" ELSE phase
    /\ UNCHANGED <<booted, current>>

\* Where in the order the cards are whose latest version is not bound.
\* _drain_employee_outbox_once() takes the oldest of them.
Undelivered == {i \in DOMAIN order : binding[order[i]] < Len(snaps[order[i]])}

\* deliver() reads the record and takes its latest version.
Enter(t, c) ==
    thread' = [thread EXCEPT ![t] = Place("prepare", c, Len(snaps[c]))]

Drain(t) ==
    /\ booted
    /\ IF t = Dispatcher THEN thread[t].pc = "idle" /\ phase = "drain"
       ELSE thread[t].pc = "drain"
    /\ IF poisoned \/ Undelivered = {}
       THEN Leave(t, FALSE)
       ELSE /\ \E i \in Undelivered :
                  (\A j \in Undelivered : i <= j) /\ Enter(t, order[i])
            /\ UNCHANGED worker
    /\ UNCHANGED <<durable, channel, faults>>

\* publish_collaboration() delivers a card that is terminal.
Publish(t, a) ==
    /\ booted /\ ~poisoned /\ thread[t].pc = "idle"
    /\ Terminal(a) /\ a \notin published
    /\ IF binding[a] < Len(snaps[a])
       THEN Enter(t, a)
       ELSE thread' = [thread EXCEPT ![t] = Place("record", a, 0)]
    /\ UNCHANGED <<durable, worker, channel, faults>>

\* Mutant of Prepare: an active effect does not stand in the way.
PrepareAnother(t) ==
    LET c == thread[t].card  v == thread[t].ver IN
    /\ ~poisoned /\ thread[t].pc = "prepare"
    /\ IF effect[c][v] = "none"
       THEN effect' = [effect EXCEPT ![c][v] = "prepared"]
       ELSE UNCHANGED effect
    /\ Goto(t, "mark") /\ UNCHANGED worker
    /\ UNCHANGED <<snaps, binding, tombs, order, fact, disposed, published, poisoned,
                   channel, faults>>

\* prepare_delivery(): the active effect, whatever version it is for; the
\* committed one of this version; or a new one.
Prepare(t) ==
    LET c == thread[t].card  v == thread[t].ver IN
    /\ ~poisoned /\ thread[t].pc = "prepare"
    /\ \/ \E a \in Active(c) :
             /\ thread' = [thread EXCEPT ![t].pc = "mark", ![t].ver = a]
             /\ UNCHANGED <<effect, worker>>
       \/ /\ Active(c) = {} /\ (effect[c][v] = "committed" \/ v \in tombs[c])
          /\ Leave(t, v \notin tombs[c])
          /\ UNCHANGED effect
       \/ /\ Active(c) = {} /\ effect[c][v] = "none" /\ v \notin tombs[c]
          /\ effect' = [effect EXCEPT ![c][v] = "prepared"]
          /\ Goto(t, "mark") /\ UNCHANGED worker
    /\ UNCHANGED <<snaps, binding, tombs, order, fact, disposed, published, poisoned,
                   channel, faults>>

\* mark_effect_executing(), and the check of the effect it returns.
Mark(t) ==
    LET c == thread[t].card  v == thread[t].ver IN
    /\ ~poisoned /\ thread[t].pc = "mark"
    /\ IF effect[c][v] = "committed"
       THEN Leave(t, FALSE) /\ UNCHANGED effect
       ELSE /\ effect' = [effect EXCEPT ![c][v] = "executing"]
            /\ Goto(t, "read") /\ UNCHANGED worker
    /\ UNCHANGED <<snaps, binding, tombs, order, fact, disposed, published, poisoned,
                   channel, faults>>

\* The snapshot, the record and the authority of the employee's Channel are
\* read.  A tombstoned snapshot or a Channel that is not READY raises.
Read(t) ==
    LET c == thread[t].card IN
    /\ ~poisoned /\ thread[t].pc = "read"
    /\ IF thread[t].ver \in tombs[c] \/ EmployeeOf[c] \notin up
       THEN Leave(t, FALSE)
       ELSE thread' = [thread EXCEPT ![t].pc = "call", ![t].bound = binding[c]] /\ UNCHANGED worker
    /\ UNCHANGED <<durable, channel, faults>>

\* send() or update_card() writes the request into the child's pipe.
Call(t) ==
    LET c == thread[t].card  e == EmployeeOf[c] IN
    /\ thread[t].pc = "call"
    /\ IF e \in up
       THEN /\ queue' = [queue EXCEPT ![e] = Append(@,
                            [waiter |-> t, card |-> c, ver |-> thread[t].ver,
                             create |-> thread[t].bound = 0])]
            /\ Goto(t, "wait") /\ UNCHANGED worker
       ELSE Leave(t, FALSE) /\ UNCHANGED queue
    /\ UNCHANGED <<durable, up, posts, shown, faults>>

\* commit_delivery(): a second thread finds the effect committed.  The frame
\* is anchored before the reducer sees it, and the reducer refuses a binding
\* that does not move forward: from then on no replay gets past the frame.
CommitDelivery(t) ==
    LET c == thread[t].card  v == thread[t].ver IN
    /\ ~poisoned /\ thread[t].pc = "commit"
    /\ IF effect[c][v] = "committed"
       THEN Leave(t, TRUE) /\ UNCHANGED <<effect, binding, poisoned>>
       ELSE IF v > binding[c]
       THEN /\ effect' = [effect EXCEPT ![c][v] = "committed"]
            /\ binding' = [binding EXCEPT ![c] = v]
            /\ Leave(t, TRUE) /\ UNCHANGED poisoned
       ELSE poisoned' = TRUE /\ Leave(t, FALSE) /\ UNCHANGED <<effect, binding>>
    /\ UNCHANGED <<snaps, tombs, order, fact, disposed, published, channel, faults>>

\* After such a frame every call of the service raises while it rebuilds the
\* projection.
Raise(t) ==
    /\ poisoned /\ thread[t].pc \in {"prepare", "mark", "read", "commit"}
    /\ Leave(t, FALSE)
    /\ UNCHANGED <<durable, channel, faults>>

\* record_collaboration_publication().
Record(t) ==
    LET c == thread[t].card IN
    /\ thread[t].pc = "record"
    /\ published' = IF ~poisoned /\ binding[c] # 0 THEN published \cup {c} ELSE published
    /\ thread' = [thread EXCEPT ![t] = Idle]
    /\ UNCHANGED <<snaps, effect, binding, tombs, order, fact, disposed, poisoned,
                   worker, channel, faults>>

\* Mutant of Collect: a card is collected before its last version is bound.
CollectEarly(c, v) ==
    /\ booted /\ ~poisoned /\ phase = "controls"
    /\ Terminal(c) /\ binding[c] # 0
    /\ v < Len(snaps[c]) /\ v \notin tombs[c]
    /\ tombs' = [tombs EXCEPT ![c] = @ \cup {v}]
    /\ UNCHANGED <<snaps, effect, binding, order, fact, disposed, published, poisoned,
                   worker, thread, channel, faults>>

\* gc_superseded_snapshots(), by the dispatch thread after a pass.
Collect(c, v) ==
    /\ booted /\ ~poisoned /\ phase = "controls"
    /\ Terminal(c) /\ binding[c] = Len(snaps[c]) /\ Active(c) = {}
    /\ v < Len(snaps[c]) /\ v \notin tombs[c]
    /\ tombs' = [tombs EXCEPT ![c] = @ \cup {v}]
    /\ UNCHANGED <<snaps, effect, binding, order, fact, disposed, published, poisoned,
                   worker, thread, channel, faults>>

-----------------------------------------------------------------------------
(***************************************************************************)
(* The Channel child and Feishu                                            *)
(***************************************************************************)

\* Mutant of Uuid: the request names a new message each time.
UuidFresh(c) == Cardinality(posts[c]) + 1

\* employee_outbox_uuid(): every request to create a card's message carries
\* the same uuid, whichever snapshot it shows.
Uuid(c) == 1

\* The child takes one request at a time.  Feishu creates one message per
\* uuid and answers a repeated uuid with the message it has.  The receipt
\* reaches the thread that still waits, if the connection is the same.
Answer(e) ==
    LET r == Head(queue[e])  fresh == Uuid(r.card) \notin posts[r.card] IN
    /\ queue[e] # <<>>
    /\ queue' = [queue EXCEPT ![e] = Tail(@)]
    /\ posts' = IF r.create THEN [posts EXCEPT ![r.card] = @ \cup {Uuid(r.card)}] ELSE posts
    /\ shown' = IF ~r.create \/ fresh THEN [shown EXCEPT ![r.card] = r.ver] ELSE shown
    /\ IF r.waiter = None THEN UNCHANGED <<thread, worker>>
       ELSE IF e \in up THEN Goto(r.waiter, "commit") /\ UNCHANGED worker
       ELSE Leave(r.waiter, FALSE)
    /\ UNCHANGED <<durable, up, faults>>

\* The waiting thread gives up; its request stays in the pipe.
Timeout(t) ==
    /\ thread[t].pc = "wait" /\ faults < MaxFaults
    /\ queue' = [e \in Employees |-> [i \in DOMAIN queue[e] |->
                    IF queue[e][i].waiter = t THEN [queue[e][i] EXCEPT !.waiter = None]
                    ELSE queue[e][i]]]
    /\ Leave(t, FALSE)
    /\ faults' = faults + 1
    /\ UNCHANGED <<durable, up, posts, shown>>

\* Feishu or the SDK fails the request.
Refuse(e) ==
    LET r == Head(queue[e]) IN
    /\ queue[e] # <<>> /\ faults < MaxFaults
    /\ queue' = [queue EXCEPT ![e] = Tail(@)]
    /\ IF r.waiter = None THEN UNCHANGED <<thread, worker>> ELSE Leave(r.waiter, FALSE)
    /\ faults' = faults + 1
    /\ UNCHANGED <<durable, up, posts, shown>>

Reconnecting(e) ==
    /\ e \in up /\ faults < MaxFaults
    /\ up' = up \ {e}
    /\ faults' = faults + 1
    /\ UNCHANGED <<durable, worker, thread, queue, posts, shown>>

Ready(e) ==
    /\ e \notin up
    /\ up' = up \cup {e}
    /\ UNCHANGED <<durable, worker, thread, queue, posts, shown, faults>>

-----------------------------------------------------------------------------
(***************************************************************************)
(* Crash and restart                                                       *)
(***************************************************************************)

\* The process dies, and with it the children (--die-with-parent).
Crash ==
    /\ faults < MaxFaults
    /\ booted' = FALSE /\ phase' = "controls" /\ current' = None
    /\ thread' = [t \in Threads |-> Idle]
    /\ queue' = [e \in Employees |-> <<>>]
    /\ faults' = faults + 1
    /\ UNCHANGED <<durable, up, posts, shown>>

\* Mutant of Boot: the worker starts without reconciling.
BootUnreconciled ==
    /\ ~booted /\ ~poisoned
    /\ \A a \in Attempts \cap ToSet(order) : fact[a] # None
    /\ booted' = TRUE
    /\ UNCHANGED <<durable, phase, current, thread, channel, faults>>

\* The dispatch worker starts after every dispatched attempt has its result
\* and its terminal card.
Boot ==
    /\ ~booted /\ ~poisoned
    /\ \A a \in Attempts \cap ToSet(order) : Terminal(a)
    /\ booted' = TRUE
    /\ UNCHANGED <<durable, phase, current, thread, channel, faults>>

Deliver(t) == Prepare(t) \/ Mark(t) \/ Read(t) \/ Call(t) \/ CommitDelivery(t) \/ Raise(t)

Work(a) == Dispatch(a) \/ Progress(a) \/ Finalize(a) \/ Report(a)

Next ==
    \/ \E a \in Attempts : Work(a)
    \/ \E c \in Controls : Receive(c) \/ Respond(c) \/ Dispose(c)
    \/ \E t \in Drainers \cup {Dispatcher} : Drain(t)
    \/ \E t \in Publishers, a \in Attempts : Publish(t, a)
    \/ \E t \in Publishers : Record(t)
    \/ \E t \in Threads : Deliver(t) \/ Timeout(t)
    \/ \E c \in Cards, v \in Versions : Collect(c, v)
    \/ \E e \in Employees : Answer(e) \/ Refuse(e) \/ Reconnecting(e) \/ Ready(e)
    \/ Loop \/ Abandon \/ Crash \/ Boot

\* The dispatch worker keeps looping with a bounded back-off, recovery runs
\* to its end, control commands are handled again until they have a
\* disposition, the child reads its pipe, and a Channel gets READY again.
\* A read that succeeds each time is never denied.
Fairness ==
    /\ WF_vars(Loop) /\ WF_vars(Boot)
    /\ WF_vars(Drain(Dispatcher)) /\ WF_vars(Deliver(Dispatcher))
    /\ \A a \in Attempts : WF_vars(Progress(a)) /\ WF_vars(Finalize(a)) /\ WF_vars(Report(a))
    /\ \A c \in Controls \ Answers : WF_vars(Respond(c))
    /\ \A c \in Controls : WF_vars(Dispose(c))
    /\ \A e \in Employees : WF_vars(Answer(e)) /\ WF_vars(Ready(e))

Spec     == Init /\ [][Next]_vars
FairSpec == Spec /\ Fairness

-----------------------------------------------------------------------------
(***************************************************************************)
(* Properties                                                              *)
(***************************************************************************)

\* The variables keep their types; a card has at most three snapshots and is
\* created once.
TypeOK ==
    /\ snaps \in [Cards -> UNION {[1..n -> CardStates] : n \in 0..3}]
    /\ effect \in [Cards -> [Versions -> {"none", "prepared", "executing", "committed"}]]
    /\ binding \in [Cards -> 0..3]
    /\ tombs \in [Cards -> SUBSET Versions]
    /\ order \in Seq(Cards) /\ IsInjective(order)
    /\ fact \in [Attempts -> Done \cup {None}]
    /\ disposed \subseteq Controls /\ published \subseteq Attempts
    /\ current \in Attempts \cup {None}
    /\ \A t \in Threads : thread[t].ver \in 0..3 /\ thread[t].card \in Cards \cup {None}
    /\ up \subseteq Employees
    /\ shown \in [Cards -> 0..3]
    /\ faults \in 0..MaxFaults

\* A card that is terminal says what the journal says of the attempt, at
\* every crash between the committed result and the snapshots, and however
\* often recovery reports it again.
CardMatchesFact ==
    \A a \in Attempts : Terminal(a) => Latest(a) = fact[a]

\* At most one effect of a card is prepared or executing, and a binding only
\* names a version whose effect is committed, whichever threads were in
\* deliver() together.  It is about the records: the calls themselves overlap.
OneActiveEffect ==
    \A c \in Cards :
        /\ Cardinality(Active(c)) <= 1
        /\ binding[c] # 0 => effect[c][binding[c]] = "committed"

\* Whatever the user sees was anchored first: the effect of the version
\* shown has at least been marked executing.
AnchoredBeforeShown ==
    \A c \in Cards : shown[c] # 0 => effect[c][shown[c]] \in {"executing", "committed"}

\* A card is one message, however often it is created again after a crash, a
\* timeout or by two threads, and nothing is bound on a lost or late receipt.
OneMessage ==
    \A c \in Cards :
        /\ Cardinality(posts[c]) <= 1
        /\ binding[c] # 0 => posts[c] # {}

\* What is left to deliver is still there: the version of an active effect
\* and the latest version are never collected.
LiveSnapshotsKept ==
    \A c \in Cards : tombs[c] \cap (Active(c) \cup {Len(snaps[c])}) = {}

\* The snapshots of a card tell one story: a terminal one is what the journal
\* says of the attempt, what the user sees was anchored before, and what is
\* still to be delivered has not been collected.
SnapshotsSound ==
    /\ TypeOK
    /\ CardMatchesFact
    /\ AnchoredBeforeShown
    /\ LiveSnapshotsKept

\* Recovery can replay the Outbox: no frame is anchored that the projection
\* refuses.
ReplaySafe == ~poisoned

\* A command whose answer is refused holds the dispatch thread in front of its
\* drain: it has a card and no disposition.
Held == ~(Answers \cap ToSet(order) \subseteq disposed)

\* A result that is in the journal is delivered: its card is terminal and the
\* receipt of that version is bound, across crashes, timeouts, refused calls,
\* reconnects and other threads in deliver().  Only a journal that cannot be
\* replayed and a command that cannot be answered keep the worker from it.
FinalCardDelivered ==
    \A a \in Attempts :
        fact[a] # None ~> \/ Terminal(a) /\ binding[a] = Len(snaps[a])
                          \/ poisoned
                          \/ Held
===============================================================================
