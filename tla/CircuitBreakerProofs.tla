------------------------ MODULE CircuitBreakerProofs ------------------------
(***************************************************************************)
(* Proofs about CircuitBreaker, for any set of callers, threshold, window  *)
(* and timeout.                                                            *)
(***************************************************************************)
EXTENDS CircuitBreaker, FiniteSetTheorems, TLAPS

\* What _purge_old_failures leaves is again a list of time stamps.
LEMMA PurgedType ==
    ASSUME NEW ts \in Seq(Nat), NEW t \in Nat
    PROVE  Purged(ts, t) \in Seq(Nat)
  <1> DEFINE stale == {i \in DOMAIN ts : \A j \in 1..i : ts[j] < t - Window}
  <1>1. stale \subseteq 1..Len(ts)
    OBVIOUS
  <1>2. IsFiniteSet(1..Len(ts)) /\ Cardinality(1..Len(ts)) = Len(ts)
    <2>1. Len(ts) \in Nat /\ 1 \in Int
      OBVIOUS
    <2>2. IsFiniteSet(1..Len(ts))
      BY <2>1, FS_Interval
    <2>3. Cardinality(1..Len(ts)) = IF 1 > Len(ts) THEN 0 ELSE Len(ts) - 1 + 1
      BY <2>1, FS_Interval
    <2>4. QED
      BY <2>1, <2>2, <2>3
  <1>3. Cardinality(stale) \in Nat /\ Cardinality(stale) <= Len(ts)
    BY <1>1, <1>2, FS_Subset, FS_CardinalityType
  <1> HIDE DEF stale
  <1>4. SubSeq(ts, Cardinality(stale) + 1, Len(ts)) \in Seq(Nat)
    BY <1>3
  <1>5. QED
    BY <1>4 DEF Purged, stale

\* The fields of the breaker keep their types.
THEOREM TypeCorrect == Spec => []TypeOK
  <1>1. Init => TypeOK
    BY BreakerAssumption DEF Init, TypeOK, States
  <1>2. TypeOK /\ [Next]_vars => TypeOK'
    <2> SUFFICES ASSUME TypeOK, [Next]_vars PROVE TypeOK'
      OBVIOUS
    <2> USE DEF TypeOK, States
    <2>1. ASSUME RecordFailure, UNCHANGED now, inCall' \subseteq inCall
          PROVE  TypeOK'
      <3>1. Append(failures, now) \in Seq(Nat)
        OBVIOUS
      <3>2. Purged(Append(failures, now), now) \in Seq(Nat)
        BY <3>1, PurgedType
      <3>3. QED
        BY <2>1, <3>2 DEF RecordFailure
    <2>2. CASE Tick
      BY <2>2 DEF Tick
    <2>3. CASE ReadState
      BY <2>3 DEF ReadState, Observed
    <2>4. CASE OnFailure
      BY <2>1, <2>4 DEF OnFailure
    <2>5. CASE Reset
      BY <2>5 DEF Reset
    <2>6. ASSUME NEW c \in Callers, Admit(c) PROVE TypeOK'
      BY <2>6 DEF Admit, Observed
    <2>7. ASSUME NEW c \in Callers, Succeed(c) PROVE TypeOK'
      BY <2>7 DEF Succeed, RecordSuccess
    <2>8. ASSUME NEW c \in Callers, Fail(c) PROVE TypeOK'
      BY <2>1, <2>8 DEF Fail
    <2>9. ASSUME NEW c \in Callers, Escape(c) PROVE TypeOK'
      BY <2>9 DEF Escape
    <2>10. CASE UNCHANGED vars
      BY <2>10 DEF vars
    <2>11. QED
      BY <2>2, <2>3, <2>4, <2>5, <2>6, <2>7, <2>8, <2>9, <2>10 DEF Next
  <1>3. QED
    BY <1>1, <1>2, PTL DEF Spec

-----------------------------------------------------------------------------

\* The two invariants of the state field are inductive together with the
\* types: no step relies on how the others interleave.
BreakerInv == ClosedBelowThreshold /\ HalfOpenOnlyAfterRecovery

\* A CLOSED breaker holds fewer than failure_threshold failures and a
\* HALF_OPEN one is past the recovery timeout of the latest failure.
THEOREM BreakerSafe == Spec => [](ClosedBelowThreshold /\ HalfOpenOnlyAfterRecovery)
  <1> USE DEF BreakerInv, ClosedBelowThreshold, HalfOpenOnlyAfterRecovery
  <1>1. Init => BreakerInv
    BY BreakerAssumption DEF Init
  <1>2. TypeOK /\ TypeOK' /\ BreakerInv /\ [Next]_vars => BreakerInv'
    <2> SUFFICES ASSUME TypeOK, TypeOK', BreakerInv, [Next]_vars
                 PROVE  BreakerInv'
      OBVIOUS
    <2> USE BreakerAssumption DEF TypeOK, States
    <2>1. ASSUME RecordFailure, UNCHANGED now PROVE BreakerInv'
      BY <2>1 DEF RecordFailure
    <2>2. ASSUME state' = Observed, UNCHANGED <<now, failures, lastFail>>
          PROVE  BreakerInv'
      BY <2>2 DEF Observed
    <2>3. CASE Tick
      BY <2>3 DEF Tick
    <2>4. CASE ReadState
      BY <2>2, <2>4 DEF ReadState
    <2>5. CASE OnFailure
      BY <2>1, <2>5 DEF OnFailure
    <2>6. CASE Reset
      BY <2>6 DEF Reset
    <2>7. ASSUME NEW c \in Callers, Admit(c) PROVE BreakerInv'
      BY <2>2, <2>7 DEF Admit
    <2>8. ASSUME NEW c \in Callers, Succeed(c) PROVE BreakerInv'
      BY <2>8 DEF Succeed, RecordSuccess
    <2>9. ASSUME NEW c \in Callers, Fail(c) PROVE BreakerInv'
      BY <2>1, <2>9 DEF Fail
    <2>10. ASSUME NEW c \in Callers, Escape(c) PROVE BreakerInv'
      BY <2>10 DEF Escape
    <2>11. CASE UNCHANGED vars
      BY <2>11 DEF vars
    <2>12. QED
      BY <2>3, <2>4, <2>5, <2>6, <2>7, <2>8, <2>9, <2>10, <2>11 DEF Next
  <1>3. QED
    BY <1>1, <1>2, TypeCorrect, PTL DEF Spec

\* call() admits nothing within recovery_timeout of the latest failure
\* unless the breaker is CLOSED.
THEOREM AdmissionSafe == Spec => AdmissionRespectsRecovery
  <1> DEFINE Step == \A c \in Callers :
                        c \in inCall' /\ c \notin inCall =>
                           state = "CLOSED" \/ now - lastFail >= RecoveryTimeout
  <1>1. TypeOK /\ HalfOpenOnlyAfterRecovery /\ [Next]_vars => [Step]_vars
    <2> SUFFICES ASSUME TypeOK, HalfOpenOnlyAfterRecovery, Next,
                        NEW d \in Callers, d \in inCall', d \notin inCall
                 PROVE  state = "CLOSED" \/ now - lastFail >= RecoveryTimeout
      OBVIOUS
    <2>1. PICK c \in Callers : Admit(c)
      BY DEF Next, Tick, ReadState, OnFailure, Reset, Succeed, Fail, Escape
    <2>2. QED
      BY <2>1 DEF Admit, Observed, HalfOpenOnlyAfterRecovery, TypeOK, States
  <1>2. QED
    BY <1>1, TypeCorrect, BreakerSafe, PTL DEF Spec, AdmissionRespectsRecovery

\* Only reset() takes an OPEN breaker straight to CLOSED: no late success of a
\* call admitted before it opened does.
THEOREM OpenStaysOpen == Spec => OpenClosesOnlyByReset
  <1> DEFINE Step == state = "OPEN" /\ state' = "CLOSED" => lastFail' = 0 /\ failures' = <<>>
  <1>1. [Next]_vars => [Step]_vars
    <2> SUFFICES ASSUME Next, state = "OPEN", state' = "CLOSED"
                 PROVE  lastFail' = 0 /\ failures' = <<>>
      OBVIOUS
    <2>1. Reset
      BY DEF Next, Tick, ReadState, Observed, OnFailure, RecordFailure, Admit,
             Succeed, RecordSuccess, Fail, Escape
    <2>2. QED
      BY <2>1 DEF Reset
  <1>2. QED
    BY <1>1, PTL DEF Spec, OpenClosesOnlyByReset
=============================================================================
