---------------------------- MODULE RepoLockProofs ----------------------------
(***************************************************************************)
(* Proofs about RepoLock, for any number of requests, chats and nested     *)
(* holds and any lease that covers a heartbeat and its delay.              *)
(***************************************************************************)
EXTENDS RepoLock, TLAPS

\* The lease of a run that has beaten is never older than its last beat.
BeatsCover == holder \in renewed => idle <= beat[holder]

IndInv == TypeOK /\ RefcountExact /\ BlockedHasHolder /\ BeatsCover

\* A run that is inside a hold and has not lost its lock has the entry.
LEMMA InsideHolds ==
    ASSUME RefcountExact PROVE Exclusive
BY DEF RefcountExact, Exclusive

\* A lease that is covered by beats never runs out.
LEMMA CoveredLives ==
    ASSUME TypeOK, BeatsCover PROVE RenewedNotReclaimed
<1> SUFFICES ASSUME holder \in renewed PROVE idle <= Lease
    BY DEF RenewedNotReclaimed
<1>1. holder \in Runs BY DEF TypeOK
<1>2. beat[holder] \in 0..(Beat + Slack) BY <1>1 DEF TypeOK
<1>3. idle <= beat[holder] BY DEF BeatsCover
<1> QED BY <1>2, <1>3, RepoLockAssumption DEF TypeOK

\* The free repository satisfies the invariant.
LEMMA InitSafe == Init => IndInv
<1> SUFFICES ASSUME Init PROVE IndInv OBVIOUS
<1> USE RepoLockAssumption DEF Init
<1>1. TypeOK
  <2>1. admin \in [pc : {"none", "asked", "found", "checked"}, chat : Chats \cup {None}]
        BY DEF NoCard
  <2>2. beat \in [Runs -> 0..Beat + Slack] /\ depth \in [Runs -> 0..MaxDepth]
        OBVIOUS
  <2>3. holder \in Runs \cup {None} /\ refs \in Nat /\ idle \in 0..Lease + 1
        OBVIOUS
  <2>4. token \in BOOLEAN OBVIOUS
  <2>5. lost \subseteq Runs /\ hung \subseteq Runs /\ beating \subseteq Runs
        /\ renewed \subseteq beating /\ blocked \subseteq Chats /\ refused \subseteq Runs
        OBVIOUS
  <2> QED BY ONLY <2>1, <2>2, <2>3, <2>4, <2>5 DEF TypeOK
<1>2. RefcountExact /\ BlockedHasHolder /\ BeatsCover
      BY DEF RefcountExact, BlockedHasHolder, BeatsCover
<1> QED BY <1>1, <1>2 DEF IndInv

\* acquire() by a run that may have the repository.
LEMMA EnterSafe ==
    ASSUME IndInv, NEW r \in Runs, Enter(r) PROVE IndInv'
<1> USE RepoLockAssumption DEF IndInv, Enter, Reentrant, beatVars, cardVars
<1>1. TypeOK' BY DEF TypeOK
<1>2. RefcountExact' BY DEF RefcountExact, TypeOK
<1>3. BlockedHasHolder' BY DEF BlockedHasHolder, TypeOK
<1>4. BeatsCover' BY DEF BeatsCover, TypeOK
<1> QED BY <1>1, <1>2, <1>3, <1>4 DEF IndInv

\* release(), of the last hold, of a nested one and of one that was lost.
LEMMA ExitSafe ==
    ASSUME IndInv, NEW r \in Runs, Exit(r) PROVE IndInv'
<1> USE RepoLockAssumption DEF IndInv, Exit, Unwind, Remove, beatVars, lockVars
<1>1. TypeOK'
  <2>1. refs' \in Nat BY DEF TypeOK, RefcountExact
  <2>2. depth' \in [Runs -> 0..MaxDepth] BY DEF TypeOK
  <2>3. token' \in BOOLEAN /\ blocked' \subseteq Chats BY DEF TypeOK
  <2>4. holder' \in Runs \cup {None} /\ idle' \in 0..Lease + 1 BY DEF TypeOK
  <2>5. lost' \subseteq Runs BY DEF TypeOK
  <2> QED BY <2>1, <2>2, <2>3, <2>4, <2>5 DEF TypeOK
<1>2. RefcountExact' BY DEF RefcountExact, TypeOK
<1>3. BlockedHasHolder' BY DEF BlockedHasHolder, TypeOK
<1>4. BeatsCover' BY DEF BeatsCover, TypeOK
<1> QED BY <1>1, <1>2, <1>3, <1>4 DEF IndInv

\* The steps that neither move the entry nor a hold.
LEMMA CardSafe ==
    ASSUME IndInv, NEW r \in Runs, Conflict(r) \/ SendCard(r) \/ Hang(r)
    PROVE  IndInv'
<1> USE RepoLockAssumption DEF IndInv, lockVars, runVars, beatVars, cardVars
<1>1. TypeOK'
  <2>1. blocked' \subseteq Chats BY DEF TypeOK, Conflict, SendCard, Hang
  <2>2. refused' \subseteq Runs /\ hung' \subseteq Runs
        BY DEF TypeOK, Conflict, SendCard, Hang
  <2>3. token' \in BOOLEAN BY DEF TypeOK, Conflict, SendCard, Hang
  <2> QED BY <2>1, <2>2, <2>3 DEF TypeOK, Conflict, SendCard, Hang
<1>2. RefcountExact' BY DEF RefcountExact, Conflict, SendCard, Hang
<1>3. BlockedHasHolder' BY DEF BlockedHasHolder, Conflict, SendCard, Hang
<1>4. BeatsCover' BY DEF BeatsCover, Conflict, SendCard, Hang
<1> QED BY <1>1, <1>2, <1>3, <1>4 DEF IndInv

\* The heartbeat of a run, which is also there just after its release.
LEMMA BeatSafe ==
    ASSUME IndInv, NEW r \in Runs, StartBeat(r) \/ StopBeat(r) \/ Touch(r)
    PROVE  IndInv'
<1> USE RepoLockAssumption DEF IndInv, lockVars, runVars, cardVars
<1>1. TypeOK' BY DEF TypeOK, StartBeat, StopBeat, Touch
<1>2. RefcountExact' BY DEF RefcountExact, StartBeat, StopBeat, Touch
<1>3. BlockedHasHolder' BY DEF BlockedHasHolder, StartBeat, StopBeat, Touch
<1>4. BeatsCover' BY DEF BeatsCover, TypeOK, StartBeat, StopBeat, Touch
<1> QED BY <1>1, <1>2, <1>3, <1>4 DEF IndInv

\* Time ages the lease and the beat together.
LEMMA TickSafe ==
    ASSUME IndInv, Tick PROVE IndInv'
<1> USE RepoLockAssumption DEF IndInv, Tick, runVars, cardVars
<1>1. TypeOK' BY DEF TypeOK
<1>2. RefcountExact' BY DEF RefcountExact
<1>3. BlockedHasHolder' BY DEF BlockedHasHolder
<1>4. BeatsCover' BY DEF BeatsCover, TypeOK
<1> QED BY <1>1, <1>2, <1>3, <1>4 DEF IndInv

\* The entry is taken away from its run, by the cleanup or by the admin.
LEMMA TakenSafe ==
    ASSUME IndInv, Cleanup \/ ForceRelease PROVE IndInv'
<1> USE RepoLockAssumption DEF IndInv, Cleanup, ForceRelease, Remove, beatVars, lockVars
<1>1. TypeOK'
  <2>1. admin' \in [pc : {"none", "asked", "found", "checked"}, chat : Chats \cup {None}]
        BY DEF TypeOK, NoCard
  <2>2. lost' \subseteq Runs BY DEF TypeOK
  <2>3. token' \in BOOLEAN /\ blocked' \subseteq Chats BY DEF TypeOK
  <2>4. holder' \in Runs \cup {None} /\ refs' \in Nat /\ idle' \in 0..Lease + 1
        BY DEF TypeOK
  <2> QED BY <2>1, <2>2, <2>3, <2>4 DEF TypeOK
<1>2. RefcountExact' BY DEF RefcountExact, TypeOK
<1>3. BlockedHasHolder' BY DEF BlockedHasHolder
<1>4. BeatsCover' BY DEF BeatsCover, TypeOK
<1> QED BY <1>1, <1>2, <1>3, <1>4 DEF IndInv

\* The confirmation card only reads the lock.
LEMMA AdminSafe ==
    ASSUME IndInv, Ask \/ Confirm \/ CheckHolder PROVE IndInv'
<1> USE RepoLockAssumption DEF IndInv, lockVars, runVars, beatVars, cardVars
<1>1. TypeOK' BY DEF TypeOK, Ask, Confirm, CheckHolder, NoCard, HolderChat
<1>2. RefcountExact' BY DEF RefcountExact, Ask, Confirm, CheckHolder
<1>3. BlockedHasHolder' BY DEF BlockedHasHolder, Ask, Confirm, CheckHolder
<1>4. BeatsCover' BY DEF BeatsCover, Ask, Confirm, CheckHolder
<1> QED BY <1>1, <1>2, <1>3, <1>4 DEF IndInv

\* Every step of every thread keeps the invariant.
LEMMA Inductive == IndInv /\ [Next]_vars => IndInv'
<1> SUFFICES ASSUME IndInv, [Next]_vars PROVE IndInv' OBVIOUS
<1>1. ASSUME NEW r \in Runs, Request(r) PROVE IndInv'
      BY <1>1, EnterSafe, ExitSafe, CardSafe, BeatSafe DEF Request
<1>2. CASE Tick BY <1>2, TickSafe
<1>3. CASE Cleanup \/ ForceRelease BY <1>3, TakenSafe
<1>4. CASE Ask \/ Confirm \/ CheckHolder BY <1>4, AdminSafe
<1>5. CASE UNCHANGED vars
      BY <1>5 DEF IndInv, TypeOK, RefcountExact, BlockedHasHolder, BeatsCover,
                  vars, lockVars, runVars, beatVars, cardVars
<1> QED BY <1>1, <1>2, <1>3, <1>4, <1>5 DEF Next

\* The invariant holds in every behaviour.
THEOREM Invariant == Spec => []IndInv
BY InitSafe, Inductive, PTL DEF Spec

\* The lock keeps its types.
THEOREM TypeCorrect == Spec => []TypeOK
<1>1. IndInv => TypeOK BY DEF IndInv
<1> QED BY <1>1, Invariant, PTL

\* Two requests never work in one repository at once, whatever is taken away
\* and whenever it is released, but for those whose lock was taken.
THEOREM MutualExclusion == Spec => []Exclusive
<1>1. IndInv => Exclusive BY InsideHolds DEF IndInv
<1> QED BY <1>1, Invariant, PTL

\* The refcount of the entry is the number of its run's holds.
THEOREM RefcountSafe == Spec => []RefcountExact
<1>1. IndInv => RefcountExact BY DEF IndInv
<1> QED BY <1>1, Invariant, PTL

\* Nobody waits for the release notice of a lock that is not held.
THEOREM NoticeSafe == Spec => []BlockedHasHolder
<1>1. IndInv => BlockedHasHolder BY DEF IndInv
<1> QED BY <1>1, Invariant, PTL

\* The cleanup never reclaims the lease of a run that goes on beating.
THEOREM LeaseSafe == Spec => []RenewedNotReclaimed
<1>1. IndInv => RenewedNotReclaimed BY CoveredLives DEF IndInv
<1> QED BY <1>1, Invariant, PTL
===============================================================================
