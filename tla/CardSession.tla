---------------------------- MODULE CardSession ----------------------------
(***************************************************************************)
(* One card session: the path of an event from dispatch() to the message   *)
(* the user sees (src/card/session, src/card/delivery, src/card/timers).   *)
(*                                                                         *)
(* Engine threads dispatch events: the reducer gives every state a version *)
(* under the session lock, the card is rendered outside of it, and the     *)
(* delivery gate hands at most one rendered version at a time to a thread  *)
(* of the delivery pool.  The timer thread warns and expires an idle card  *)
(* and repeats a terminal delivery that failed; it calls the delivery      *)
(* itself.  close() may come at any time.  Deliveries are ordered by the   *)
(* per-session lock of CardDelivery.  The card has one logical page; a     *)
(* message that is lost is replaced by the next one.                       *)
(*                                                                         *)
(* A call to the platform may fail, or time out and take effect later: the *)
(* daemon thread of _call_api() goes on.                                   *)
(***************************************************************************)
EXTENDS Integers, FiniteSets

CONSTANTS Callers,     \* engine threads that dispatch events
          MaxEvents,   \* bound: versions that dispatch() and warnings make
          MaxFaults    \* bound: failed calls and reductions, deleted messages, refusals

ASSUME SessionAssumption == MaxEvents \in Nat /\ MaxFaults \in Nat

VARIABLES s,        \* the state: version, version that ended it (0: none), flags
          t,        \* SessionTimerManager and the age of the last dispatch
          g,        \* the delivery gate
          d,        \* CardDelivery: admission, closed set, session lock
          b,        \* the DeliveryBinding of the session
          card,     \* the messages: version shown, 0 none, Deleted
          late,     \* writes whose call timed out and that may still land
          proc,     \* what every thread is at
          out,      \* what the user and the hooks have been told, and what went wrong
          direct,   \* versions that may be delivered past the gate
          faults

vars == <<s, t, g, d, b, card, late, proc, out, direct, faults>>

Procs == Callers \cup {"worker", "timer", "closer"}
Deleted == -1
NoJob == [v |-> 0, end |-> FALSE]
NoBinding == [on |-> FALSE, hw |-> -1, page |-> FALSE, sig |-> 0, repl |-> -1]
Idle == [at |-> "idle", job |-> NoJob, force |-> FALSE]

Init ==
    /\ s = [ver |-> 0, end |-> 0, closed |-> FALSE, warned |-> FALSE]
    /\ t = [armed |-> {"warn", "expire"}, age |-> 0, retry |-> 0, off |-> FALSE]
    /\ g = [busy |-> FALSE, last |-> FALSE, pend |-> NoJob, high |-> -1]
    /\ d = [admission |-> "open", closed |-> FALSE, cleaned |-> FALSE, lock |-> "none"]
    /\ b = NoBinding
    /\ card = [i \in 0..MaxFaults |-> 0]
    /\ late = {}
    /\ proc = [p \in Procs |-> Idle]
    /\ out = [seen |-> 0, told |-> FALSE, fired |-> FALSE, byClose |-> FALSE, deduped |-> FALSE,
              missed |-> FALSE, leaked |-> FALSE]
    /\ direct = {}
    /\ faults = 0

At(p, x) == proc[p].at = x
Go(p, x) == proc' = [proc EXCEPT ![p].at = x]
Deliver(v, end, force) == [at |-> "enter", job |-> [v |-> v, end |-> end], force |-> force]
Fault == faults < MaxFaults /\ faults' = faults + 1

\* A delivery is over: a pool thread looks for the pending one, others return.
Ended(p) == IF p = "worker" THEN [proc[p] EXCEPT !.at = "next"] ELSE Idle

(***************************************************************************)
(* The session                                                             *)
(***************************************************************************)

\* reset_ttl_timer() of a manager that is not closed.
Rearmed == [t EXCEPT !.age = 0, !.armed = IF t.off THEN @ ELSE {"warn", "expire"}]

\* has_active_card_work(): only a running card may have work.
MayBeActive == s.ver # 0 /\ s.end = 0

\* The state becomes the next one, and the caller goes on to render it.
NewVersion(c, end, terminal) ==
    /\ s' = [s EXCEPT !.ver = @ + 1, !.end = IF terminal THEN s.ver + 1 ELSE 0]
    /\ proc' = [proc EXCEPT ![c] =
           [at |-> "submit", job |-> [v |-> s.ver + 1, end |-> end], force |-> FALSE]]

\* _reduce_safe() of an event that ends the card or not.  When the reducer
\* raises, a warning is reduced instead, and delivered as what the event was;
\* when that raises too the event is dropped, and one that ends the card closes
\* the session and fires the hooks, but closes neither delivery nor timers.
ReduceSafe(c, end) ==
    \/ NewVersion(c, end, end) /\ UNCHANGED <<out, direct, faults>>
    \/ /\ Fault /\ NewVersion(c, end, FALSE)
       /\ out' = [out EXCEPT !.missed = @ \/ end]
       /\ direct' = IF end THEN direct \cup {s.ver + 1} ELSE direct
    \/ /\ Fault
       /\ s' = [s EXCEPT !.closed = end]
       /\ out' = [out EXCEPT !.missed = @ \/ end, !.leaked = end,
                             !.fired = @ \/ (end /\ s.ver # 0)]
       /\ UNCHANGED <<proc, direct>>

\* dispatch(): the state is reduced under the lock, or the caller finds the
\* card idle for too long and expires it.  A call on a closed or terminal
\* session changes nothing.
Dispatch(c) ==
    /\ At(c, "idle")
    /\ ~s.closed /\ s.end = 0 /\ s.ver < MaxEvents
    /\ \/ /\ ~s.warned /\ t.age = 2 /\ At("timer", "idle")
          /\ Go("timer", "check") /\ UNCHANGED <<s, t, out, direct, faults>>
       \/ /\ s.warned \/ t.age < 2 \/ MayBeActive
          /\ \E end \in BOOLEAN : ReduceSafe(c, end)
          /\ t' = Rearmed
    /\ UNCHANGED <<g, d, b, card, late>>

\* Mutant of Accepts: renders are not fenced by their revision.
AcceptsAny(j) == ~s.closed

\* _accept_delivery_revision(), and the check of the closed flag before it.
Accepts(j) == ~s.closed /\ j.v >= g.high

\* _submit_delivery(): the first version goes to the pool, a later one waits in
\* the single pending place, and nothing follows a terminal version.
Submit(c) ==
    LET j == proc[c].job IN
    /\ At(c, "submit")
    /\ \/ /\ ~Accepts(j)
          /\ proc' = [proc EXCEPT ![c] = Idle] /\ UNCHANGED g
       \/ /\ Accepts(j) /\ ~g.busy
          /\ g' = [g EXCEPT !.busy = TRUE, !.last = j.end, !.high = j.v]
          /\ proc' = [proc EXCEPT ![c] = Idle, !["worker"] = Deliver(j.v, j.end, FALSE)]
       \/ /\ Accepts(j) /\ g.busy
          /\ g' = [g EXCEPT !.high = j.v,
                            !.pend = IF ~g.last /\ (j.end \/ ~@.end) THEN j ELSE @]
          /\ proc' = [proc EXCEPT ![c] = Idle]
    /\ UNCHANGED <<s, t, d, b, card, late, out, direct, faults>>

\* _submit_pending_delivery_if_any() at the end of a job.
SubmitPending ==
    /\ At("worker", "next")
    /\ IF s.closed \/ g.pend = NoJob
       THEN /\ g' = [g EXCEPT !.busy = FALSE, !.last = FALSE, !.pend = NoJob]
            /\ proc' = [proc EXCEPT !["worker"] = Idle]
       ELSE /\ g' = [g EXCEPT !.last = g.pend.end, !.pend = NoJob]
            /\ proc' = [proc EXCEPT !["worker"] = Deliver(g.pend.v, g.pend.end, FALSE)]
    /\ UNCHANGED <<s, t, d, b, card, late, out, direct, faults>>

\* The keep-alive button.
KeepAlive ==
    /\ ~s.closed /\ t.age > 0
    /\ t' = Rearmed
    /\ UNCHANGED <<s, g, d, b, card, late, proc, out, direct, faults>>

\* close(): a running card is canceled, if that can be reduced, and the session
\* is closed at once.
Close ==
    /\ At("closer", "idle") /\ ~s.closed
    /\ \/ /\ s' = IF MayBeActive
                  THEN [s EXCEPT !.closed = TRUE, !.ver = @ + 1, !.end = s.ver + 1]
                  ELSE [s EXCEPT !.closed = TRUE]
          /\ UNCHANGED faults
       \/ MayBeActive /\ Fault /\ s' = [s EXCEPT !.closed = TRUE]
    /\ out' = [out EXCEPT !.byClose = TRUE]
    /\ Go("closer", "fin")
    /\ UNCHANGED <<t, g, d, b, card, late, direct>>

(***************************************************************************)
(* CardDelivery                                                            *)
(***************************************************************************)

\* deliver() up to the session lock: a fenced pool rejects the card, a closed
\* session has nothing to do, which counts as success.
Enter(p) ==
    /\ At(p, "enter")
    /\ Go(p, CASE d.admission = "fenced" -> "rejected"
               [] d.admission # "fenced" /\ d.closed -> "done"
               [] OTHER -> "lock")
    /\ UNCHANGED <<s, t, g, d, b, card, late, out, direct, faults>>

\* Mutant of Acquire: the closed set is not looked at a second time.
AcquireUnchecked(p) ==
    /\ At(p, "lock") /\ d.lock = "none"
    /\ IF d.admission = "revoked"
       THEN Go(p, "rejected") /\ UNCHANGED d
       ELSE Go(p, "call") /\ d' = [d EXCEPT !.lock = p]
    /\ UNCHANGED <<s, t, g, b, card, late, out, direct, faults>>

\* _deliver_unlocked() under the session lock, up to the call.
Acquire(p) ==
    /\ At(p, "lock") /\ d.lock = "none"
    /\ IF d.closed \/ d.admission = "revoked"
       THEN Go(p, IF d.closed THEN "done" ELSE "rejected") /\ UNCHANGED d
       ELSE Go(p, "call") /\ d' = [d EXCEPT !.lock = p]
    /\ UNCHANGED <<s, t, g, b, card, late, out, direct, faults>>

\* The call returned or raised, and the lock is free again.
Returns(p, x) == Go(p, x) /\ d' = [d EXCEPT !.lock = "none"]

\* A version is shown in message i.
Show(i, v) ==
    /\ card' = [card EXCEPT ![i] = v]
    /\ out' = [out EXCEPT !.seen = IF v > @ THEN v ELSE @]

\* create_page() of message i, on a binding that has become B: the platform
\* drops a second create of one message and answers with the first.
CreateAt(p, B, i) ==
    LET v == proc[p].job.v IN
    \/ /\ IF card[i] = 0 THEN Show(i, v)
          ELSE out' = [out EXCEPT !.deduped = TRUE] /\ UNCHANGED card
       /\ b' = [B EXCEPT !.hw = i, !.page = TRUE, !.sig = v]
       /\ Returns(p, "done") /\ UNCHANGED <<late, faults>>
    \/ /\ Fault /\ b' = B
       /\ late' \in {late, late \cup {[i |-> i, v |-> v, new |-> TRUE]}}
       /\ Returns(p, "failed") /\ UNCHANGED <<card, out>>

\* There is no message to update: the first one is created, or one more after
\* the last one timed out; a replacement that was lost is not replaced again.
Create(p) ==
    /\ At(p, "call") /\ ~b.page
    /\ IF b.hw >= 0 /\ b.repl = b.hw
       THEN Returns(p, "failed") /\ UNCHANGED <<b, card, late, out, faults>>
       ELSE CreateAt(p, [b EXCEPT !.on = TRUE], b.hw + 1)
    /\ UNCHANGED <<s, t, g, direct>>

\* update_page(): nothing to do, done, failed, or timed out; the page is then
\* dropped, so that the late write meets no newer one.
Update(p) ==
    LET v == proc[p].job.v IN
    /\ At(p, "call") /\ b.page
    /\ \/ b.sig = v /\ Returns(p, "done") /\ UNCHANGED <<b, card, late, out, faults>>
       \/ /\ b.sig # v /\ card[b.hw] # Deleted
          /\ Show(b.hw, v)
          /\ b' = [b EXCEPT !.sig = v, !.repl = -1]
          /\ Returns(p, "done") /\ UNCHANGED <<late, faults>>
       \/ b.sig # v /\ Fault /\ Returns(p, "failed") /\ UNCHANGED <<b, card, late, out>>
       \/ /\ b.sig # v /\ Fault
          /\ late' = late \cup {[i |-> b.hw, v |-> v, new |-> FALSE]}
          /\ b' = [b EXCEPT !.page = FALSE]
          /\ Returns(p, "failed") /\ UNCHANGED <<card, out>>
    /\ UNCHANGED <<s, t, g, direct>>

\* _recover_stale_page(): the message is gone, so the next one takes its place
\* in the same delivery, once.
Replace(p) ==
    /\ At(p, "call") /\ b.page /\ b.sig # proc[p].job.v /\ card[b.hw] = Deleted
    /\ IF b.repl = b.hw
       THEN /\ b' = [b EXCEPT !.page = FALSE]
            /\ Returns(p, "failed") /\ UNCHANGED <<card, late, out, faults>>
       ELSE CreateAt(p, [b EXCEPT !.page = FALSE, !.repl = b.hw + 1], b.hw + 1)
    /\ UNCHANGED <<s, t, g, direct>>

(***************************************************************************)
(* What becomes of a delivery                                              *)
(***************************************************************************)

\* A terminal delivery is repeated once, by the timer thread.
Retried(p) ==
    IF proc[p].job.end /\ ~t.off THEN [t EXCEPT !.retry = proc[p].job.v] ELSE t

\* Mutant of Tracked: a rejected terminal card is not tried again.
TrackedNoRetry(p) ==
    \/ /\ At(p, "done")
       /\ s' = [s EXCEPT !.closed = @ \/ proc[p].job.end]
       /\ proc' = [proc EXCEPT ![p] = IF @.job.end THEN [@ EXCEPT !.at = "fin"] ELSE Ended(p)]
       /\ UNCHANGED <<t, out>>
    \/ /\ proc[p].at \in {"failed", "rejected"}
       /\ out' = [out EXCEPT !.told = @ \/ At(p, "rejected")]
       /\ proc' = [proc EXCEPT ![p] = Ended(p)]
       /\ UNCHANGED <<s, t>>

\* _deliver_and_track(): a delivered terminal card closes the session, a
\* failed one is tried again, and a rejected one is told to the user as well.
Tracked(p) ==
    \/ /\ At(p, "done")
       /\ s' = [s EXCEPT !.closed = @ \/ proc[p].job.end]
       /\ proc' = [proc EXCEPT ![p] = IF @.job.end THEN [@ EXCEPT !.at = "fin"] ELSE Ended(p)]
       /\ UNCHANGED <<t, out>>
    \/ /\ proc[p].at \in {"failed", "rejected"}
       /\ t' = Retried(p)
       /\ out' = [out EXCEPT !.told = @ \/ At(p, "rejected")]
       /\ proc' = [proc EXCEPT ![p] = Ended(p)]
       /\ UNCHANGED s

\* The end of _retry(): the session is closed either way; a card that could not
\* be delivered is told to the user.
Forced(p) ==
    /\ proc[p].at \in {"done", "failed", "rejected"}
    /\ s' = [s EXCEPT !.closed = TRUE]
    /\ out' = IF At(p, "done") THEN [out EXCEPT !.fired = TRUE] ELSE [out EXCEPT !.told = TRUE]
    /\ Go(p, "fin")
    /\ UNCHANGED t

Track(p) ==
    /\ IF proc[p].force THEN Forced(p) ELSE Tracked(p)
    /\ UNCHANGED <<g, d, b, card, late, direct, faults>>

\* CardDelivery.close(): the session enters the closed set once.
CloseDelivery(p) ==
    /\ At(p, "fin")
    /\ Go(p, IF d.closed THEN "over" ELSE "clean")
    /\ d' = [d EXCEPT !.closed = TRUE]
    /\ UNCHANGED <<s, t, g, b, card, late, out, direct, faults>>

\* CardDelivery.close() under the session lock: the binding is removed.
Clean(p) ==
    /\ At(p, "clean") /\ d.lock = "none"
    /\ b' = NoBinding
    /\ d' = [d EXCEPT !.cleaned = TRUE]
    /\ Go(p, "over")
    /\ UNCHANGED <<s, t, g, card, late, out, direct, faults>>

\* Mutant of Over: the timers are left running.
OverTimersLeft(p) ==
    /\ At(p, "over")
    /\ out' = [out EXCEPT !.fired = @ \/ (~proc[p].force /\ s.ver # 0)]
    /\ proc' = [proc EXCEPT ![p] = Ended(p)]
    /\ UNCHANGED <<s, t, g, d, b, card, late, direct, faults>>

\* The terminal hooks, which fire once, and release_terminal_resources().
Over(p) ==
    /\ At(p, "over")
    /\ out' = [out EXCEPT !.fired = @ \/ (~proc[p].force /\ s.ver # 0)]
    /\ t' = [t EXCEPT !.off = TRUE, !.armed = {}, !.retry = 0]
    /\ proc' = [proc EXCEPT ![p] = Ended(p)]
    /\ UNCHANGED <<s, g, d, b, card, late, direct, faults>>

(***************************************************************************)
(* The timers                                                              *)
(***************************************************************************)

\* on_ttl_prewarning() up to its decision: work that goes on counts as
\* activity, otherwise a warning is to be shown.
WarnFires ==
    /\ At("timer", "idle") /\ "warn" \in t.armed /\ t.age > 0
    /\ \/ /\ s.closed \/ s.warned \/ s.ver >= MaxEvents
          /\ t' = [t EXCEPT !.armed = @ \ {"warn"}] /\ UNCHANGED <<s, proc>>
       \/ /\ ~s.closed /\ ~s.warned /\ MayBeActive
          /\ t' = Rearmed /\ UNCHANGED <<s, proc>>
       \/ /\ ~s.closed /\ ~s.warned /\ s.ver < MaxEvents
          /\ t' = [t EXCEPT !.armed = @ \ {"warn"}]
          /\ Go("timer", "warn") /\ UNCHANGED s
    /\ UNCHANGED <<g, d, b, card, late, out, direct, faults>>

\* The warning is reduced into whatever the state is now, and delivered by the
\* timer thread; one that cannot be reduced is sent as text.
Warn ==
    /\ At("timer", "warn")
    /\ \/ /\ s' = [s EXCEPT !.ver = @ + 1]
          /\ proc' = [proc EXCEPT !["timer"] = Deliver(s.ver + 1, FALSE, FALSE)]
          /\ direct' = direct \cup {s.ver + 1} /\ UNCHANGED faults
       \/ Fault /\ Go("timer", "idle") /\ UNCHANGED <<s, direct>>
    /\ UNCHANGED <<t, g, d, b, card, late, out>>

\* The idle timer calls on_ttl_expired().
ExpireFires ==
    /\ At("timer", "idle") /\ "expire" \in t.armed /\ t.age = 2
    /\ t' = [t EXCEPT !.armed = @ \ {"expire"}]
    /\ Go("timer", "check")
    /\ UNCHANGED <<s, g, d, b, card, late, out, direct, faults>>

\* on_ttl_expired(): a look at the session.  One handler runs at a time, be it
\* that of the timer or of a dispatch() that found the card idle.
Check ==
    /\ At("timer", "check")
    /\ \/ /\ s.closed \/ s.warned \/ t.age < 2
          /\ Go("timer", "idle") /\ UNCHANGED t
       \/ /\ ~s.closed /\ ~s.warned /\ t.age = 2 /\ MayBeActive
          /\ t' = Rearmed /\ Go("timer", "idle")
       \/ /\ ~s.closed /\ ~s.warned /\ t.age = 2
          /\ Go("timer", "mark") /\ UNCHANGED t
    /\ UNCHANGED <<s, g, d, b, card, late, out, direct, faults>>

\* mark_ttl_expired(), in a critical section of its own.
Mark ==
    /\ At("timer", "mark")
    /\ s' = [s EXCEPT !.warned = TRUE]
    /\ Go("timer", "reduce")
    /\ UNCHANGED <<t, g, d, b, card, late, out, direct, faults>>

\* The card is canceled, unless it has ended meanwhile, and the thread
\* delivers it past the gate.  A card that cannot be canceled is tried again.
Expire ==
    /\ At("timer", "reduce")
    /\ \/ /\ s' = [s EXCEPT !.ver = @ + 1, !.end = IF @ = 0 THEN s.ver + 1 ELSE @]
          /\ proc' = [proc EXCEPT !["timer"] = Deliver(s.ver + 1, TRUE, FALSE)]
          /\ direct' = direct \cup {s.ver + 1} /\ UNCHANGED <<t, faults>>
       \/ /\ Fault
          /\ s' = [s EXCEPT !.warned = FALSE]
          /\ t' = IF t.off THEN t ELSE [t EXCEPT !.armed = @ \cup {"expire"}]
          /\ Go("timer", "idle") /\ UNCHANGED direct
    /\ UNCHANGED <<g, d, b, card, late, out>>

\* The retry timer: a session that was closed meanwhile needs nothing more.
RetryFires ==
    /\ At("timer", "idle") /\ t.retry # 0
    /\ t' = [t EXCEPT !.retry = 0]
    /\ proc' = IF s.closed THEN proc
               ELSE [proc EXCEPT !["timer"] = Deliver(t.retry, TRUE, TRUE)]
    /\ UNCHANGED <<s, g, d, b, card, late, out, direct, faults>>

(***************************************************************************)
(* The surroundings                                                        *)
(***************************************************************************)

\* Time passes over an idle session, to the warning (1) and past the TTL (2).
\* A session gets its first event as soon as it is made, and half an hour is
\* long: every thread has come to rest and every retry is over.
Age ==
    /\ ~s.closed /\ s.ver > 0 /\ t.age < 2 /\ ~g.busy /\ t.retry = 0 /\ \A p \in Procs : At(p, "idle")
    /\ t' = [t EXCEPT !.age = @ + 1]
    /\ UNCHANGED <<s, g, d, b, card, late, proc, out, direct, faults>>

\* The service shuts down and fences its deliveries, or the trust of the chat
\* changes and its cards are refused.
Refuse ==
    /\ d.admission = "open" /\ ~d.closed /\ Fault
    /\ \E x \in {"fenced", "revoked"} : d' = [d EXCEPT !.admission = x]
    /\ UNCHANGED <<s, t, g, b, card, late, proc, out, direct>>

\* Somebody deletes the message.
Delete ==
    /\ b.page /\ card[b.hw] > 0 /\ Fault
    /\ card' = [card EXCEPT ![b.hw] = Deleted]
    /\ UNCHANGED <<s, t, g, d, b, late, proc, out, direct>>

\* A call that timed out takes effect after all.
Land ==
    \E w \in late :
        /\ late' = late \ {w}
        /\ IF (w.new /\ card[w.i] = 0) \/ (~w.new /\ card[w.i] > 0)
           THEN Show(w.i, w.v) ELSE UNCHANGED <<card, out>>
        /\ UNCHANGED <<s, t, g, d, b, proc, direct, faults>>

(***************************************************************************)
(* The specification                                                       *)
(***************************************************************************)

\* What a thread that has begun goes on with.
Step(p) ==
    \/ Enter(p) \/ Acquire(p) \/ Create(p) \/ Update(p) \/ Replace(p) \/ Track(p)
    \/ CloseDelivery(p) \/ Clean(p) \/ Over(p)

Next ==
    \/ \E c \in Callers : Dispatch(c) \/ Submit(c)
    \/ \E p \in Procs : Step(p)
    \/ SubmitPending \/ KeepAlive \/ Close
    \/ WarnFires \/ Warn \/ ExpireFires \/ Check \/ Mark \/ Expire \/ RetryFires
    \/ Age \/ Refuse \/ Delete \/ Land

\* Threads go on and the retry timer fires; nobody has to dispatch, to close,
\* or to let a late write land.
Fairness ==
    /\ \A c \in Callers : WF_vars(Submit(c))
    /\ \A p \in Procs : WF_vars(Step(p))
    /\ WF_vars(SubmitPending) /\ WF_vars(RetryFires)
    /\ WF_vars(Warn) /\ WF_vars(Check) /\ WF_vars(Mark) /\ WF_vars(Expire)

Spec == Init /\ [][Next]_vars /\ Fairness

(***************************************************************************)
(* Properties                                                              *)
(***************************************************************************)

\* The end of a card reaches its user: once a state is terminal, by an event
\* or by idleness, a terminal version is or has been shown or the user is told, whatever
\* fails, unless close() was called, an earlier event that ends the card could
\* not be reduced, or the platform answered a create with an older message.
EndReported ==
    s.end # 0 ~> \/ out.seen >= s.end
                 \/ out.told \/ out.byClose \/ out.missed \/ out.deduped

\* No message goes back to an older version: renders that were overtaken, late
\* writes and repeated deliveries never replace a newer one.  Only what the TTL
\* handler delivers past the gate may cross with a delivery of the pool, and
\* the retry of an end that was delivered but could not be reduced: the card
\* goes on meanwhile.
NoStepBack ==
    [][\A i \in DOMAIN card :
          card'[i] # card[i] /\ card'[i] > 0 =>
             card'[i] > card[i] \/ {card[i], card'[i]} \cap direct # {}]_vars

\* Once the binding of a closed session is removed no delivery that was under
\* way writes to a message or binds one.
NothingAfterClose ==
    [][d.cleaned => b' = NoBinding /\ (card' = card \/ late' # late)]_vars

\* A session that is closed is over for good: the hooks have fired or the user
\* knows that the end was not shown, and its binding and its timers are gone,
\* unless what closed it was an event that could be reduced neither to the end
\* of the card nor to a warning: that session keeps both.
Settled ==
    s.closed ~> [](/\ out.fired \/ out.told \/ s.ver = 0
                   /\ out.leaked \/ (/\ d.cleaned /\ b = NoBinding
                                     /\ t.off /\ t.armed = {} /\ t.retry = 0))
=============================================================================
