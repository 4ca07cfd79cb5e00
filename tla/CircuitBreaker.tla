--------------------------- MODULE CircuitBreaker ---------------------------
(***************************************************************************)
(* The sliding-window circuit breaker of src/utils/circuit_breaker.py,     *)
(* shared by the worker threads that run one task_type of the scheduler    *)
(* and by the thread that submits tasks (it reads the breaker's state).    *)
(*                                                                         *)
(* Every method body is one critical section of _lock and so one action,   *)
(* except call(), which holds the lock only while it admits the call: the  *)
(* protected function runs outside of it, and its outcome is recorded in a *)
(* second critical section that may come after any number of other calls.  *)
(* Time is the integer clock "now"; MaxTime bounds it for model checking.  *)
(***************************************************************************)
EXTENDS Integers, Sequences, FiniteSets

CONSTANTS
    Callers,          \* threads that run protected functions
    Threshold,        \* failure_threshold
    RecoveryTimeout,  \* recovery_timeout
    Window,           \* window_duration
    MaxTime,          \* bound on the clock
    MaxFailures       \* bound on the failures kept while the breaker is OPEN

ASSUME BreakerAssumption ==
    /\ Threshold \in Nat \ {0}
    /\ RecoveryTimeout \in Nat \ {0}
    /\ Window \in Nat
    /\ MaxTime \in Nat
    /\ MaxFailures \in Nat

VARIABLES
    now,        \* time.time()
    state,      \* _state
    failures,   \* _failure_timestamps, oldest first
    lastFail,   \* _last_failure_time
    inCall      \* the callers whose protected function is running

vars == <<now, state, failures, lastFail, inCall>>

States == {"CLOSED", "OPEN", "HALF_OPEN"}

\* The clock starts past the recovery timeout, as time.time() does, so that
\* the initial _last_failure_time of 0.0 lies far in the past.
Init ==
    /\ now = RecoveryTimeout
    /\ state = "CLOSED"
    /\ failures = <<>>
    /\ lastFail = 0
    /\ inCall = {}

-----------------------------------------------------------------------------

\* _purge_old_failures(): drop stamps from the left while they are older
\* than the window.
Purged(ts, t) ==
    LET stale == {i \in DOMAIN ts : \A j \in 1..i : ts[j] < t - Window}
    IN  SubSeq(ts, Cardinality(stale) + 1, Len(ts))

\* The "state" property: an OPEN breaker whose recovery timeout has passed
\* since the last failure becomes HALF_OPEN when anyone looks at it.
Observed ==
    IF state = "OPEN" /\ now - lastFail >= RecoveryTimeout
    THEN "HALF_OPEN"
    ELSE state

\* CircuitBreaker.state, as TaskScheduler.submit reads it.
ReadState ==
    /\ state' = Observed
    /\ UNCHANGED <<now, failures, lastFail, inCall>>

\* call(): admit the function unless the breaker is OPEN.
Admit(c) ==
    /\ c \notin inCall
    /\ Observed # "OPEN"
    /\ state' = Observed
    /\ inCall' = inCall \cup {c}
    /\ UNCHANGED <<now, failures, lastFail>>

\* Mutant of RecordFailure: a failed probe leaves the breaker HALF_OPEN.
RecordFailureIgnoresProbe ==
    LET kept == Purged(Append(failures, now), now)
    IN  /\ failures' = kept
        /\ lastFail' = now
        /\ state' = IF state = "CLOSED" /\ Len(kept) >= Threshold
                    THEN "OPEN"
                    ELSE state

\* The body of _record_failure().
RecordFailure ==
    LET kept == Purged(Append(failures, now), now)
    IN  /\ failures' = kept
        /\ lastFail' = now
        /\ state' = IF \/ state = "CLOSED" /\ Len(kept) >= Threshold
                       \/ state = "HALF_OPEN"
                    THEN "OPEN"
                    ELSE state

\* Mutant of RecordSuccess: any success closes the breaker.
RecordSuccessAlwaysCloses ==
    /\ state' = "CLOSED"
    /\ failures' = <<>>
    /\ UNCHANGED lastFail

\* The body of _record_success().
RecordSuccess ==
    /\ state' = IF state = "HALF_OPEN" THEN "CLOSED" ELSE state
    /\ failures' = IF state \in {"HALF_OPEN", "CLOSED"} THEN <<>> ELSE failures
    /\ UNCHANGED lastFail

\* The protected function returned.
Succeed(c) ==
    /\ c \in inCall
    /\ RecordSuccess
    /\ inCall' = inCall \ {c}
    /\ UNCHANGED now

\* The protected function raised one of expected_exceptions.
Fail(c) ==
    /\ c \in inCall
    /\ Len(failures) < MaxFailures
    /\ RecordFailure
    /\ inCall' = inCall \ {c}
    /\ UNCHANGED now

\* The protected function raised something else: nothing is recorded.
Escape(c) ==
    /\ c \in inCall
    /\ inCall' = inCall \ {c}
    /\ UNCHANGED <<now, state, failures, lastFail>>

\* on_failure(): an external failure signal.
OnFailure ==
    /\ Len(failures) < MaxFailures
    /\ RecordFailure
    /\ UNCHANGED <<now, inCall>>

\* reset()
Reset ==
    /\ failures' = <<>>
    /\ lastFail' = 0
    /\ state' = "CLOSED"
    /\ UNCHANGED <<now, inCall>>

Tick ==
    /\ now < MaxTime
    /\ now' = now + 1
    /\ UNCHANGED <<state, failures, lastFail, inCall>>

Next ==
    \/ Tick
    \/ ReadState
    \/ OnFailure
    \/ Reset
    \/ \E c \in Callers : Admit(c) \/ Succeed(c) \/ Fail(c) \/ Escape(c)

Spec == Init /\ [][Next]_vars

-----------------------------------------------------------------------------
(***************************************************************************)
(* Properties                                                              *)
(***************************************************************************)

\* The values the breaker's fields range over.
TypeOK ==
    /\ now \in Nat
    /\ state \in States
    /\ failures \in Seq(Nat)
    /\ lastFail \in Nat /\ lastFail <= now
    /\ inCall \subseteq Callers

\* A CLOSED breaker never sits on enough recorded failures to be open:
\* every way back to CLOSED (_record_success, reset) forgets the old ones,
\* and _record_failure opens it at the threshold.
ClosedBelowThreshold ==
    state = "CLOSED" => Len(failures) < Threshold

\* A breaker is HALF_OPEN only once recovery_timeout has passed since the
\* LAST failure of any caller, late failures of calls admitted before it
\* opened included (_record_failure moves _last_failure_time while OPEN).
HalfOpenOnlyAfterRecovery ==
    state = "HALF_OPEN" => now - lastFail >= RecoveryTimeout

\* An OPEN breaker is not closed by the late success of a call that was
\* admitted before it opened: only reset() closes it directly.
OpenClosesOnlyByReset ==
    [][state = "OPEN" /\ state' = "CLOSED" => lastFail' = 0 /\ failures' = <<>>]_vars

\* call() admits no function within recovery_timeout of the latest failure
\* unless the breaker is CLOSED.
AdmissionRespectsRecovery ==
    [][\A c \in Callers :
          c \in inCall' /\ c \notin inCall =>
             state = "CLOSED" \/ now - lastFail >= RecoveryTimeout]_vars
=============================================================================
