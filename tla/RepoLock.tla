------------------------------- MODULE RepoLock -------------------------------
(***************************************************************************)
(* The lock of one repository: RepoLockManager of src/repo_lock.py, the    *)
(* requests that hold it through lock_helper.py, their heartbeat threads,  *)
(* the cleanup thread, and the card with which an admin takes it away.     *)
(*                                                                         *)
(* Every method of the manager is one critical section, and one step here. *)
(* The manager keeps its locks by path and two paths share nothing, so one *)
(* repository is modelled.  A request is one run of the task scheduler:    *)
(* its run id is the owner_id.  Requests of private chats bypass the lock  *)
(* (is_p2p) and are not modelled.                                          *)
(*                                                                         *)
(* Times are kept as ages that Tick advances.  idle_timeout only applies   *)
(* to an entry whose refcount is 0, which RefcountExact shows is none.     *)
(***************************************************************************)
EXTENDS Integers, FiniteSets

CONSTANTS
    Runs,      \* scheduler runs that use the repository
    Chats,
    ChatOf,    \* the chat a run belongs to
    None,
    MaxDepth,  \* bound on nested holds of one run
    MaxHung,   \* bound on runs that hang
    Capacity,  \* chats remembered for the release notice (10)
    Lease,     \* repo_lock_hard_timeout
    Beat,      \* heartbeat_interval: a third of the lease
    Slack      \* how late a heartbeat may run

ASSUME RepoLockAssumption ==
    /\ ChatOf \in [Runs -> Chats]
    /\ None \notin Runs \cup Chats
    /\ {MaxDepth, MaxHung, Capacity, Lease, Beat, Slack} \subseteq Nat
    /\ Beat + Slack <= Lease

VARIABLES
    holder,    \* the run of the lock's entry, or None
    refs,      \* its refcount
    idle,      \* the time since its last_active_time
    depth,     \* holds each run is inside of
    lost,      \* runs whose entry was taken away while they were inside
    beating,   \* runs whose heartbeat thread is running
    beat,      \* the time since its last beat
    renewed,   \* those that have beaten once
    hung,      \* runs whose thread never returns
    blocked,   \* _blocked_chats
    refused,   \* runs with a conflict whose card is not sent yet
    token,     \* _path_to_token has the repository
    admin      \* the confirmation of a forced release

lockVars == <<holder, refs, idle>>
runVars  == <<depth, lost, hung>>
beatVars == <<beating, beat, renewed>>
cardVars == <<blocked, refused, token>>
vars     == <<lockVars, runVars, beatVars, cardVars, admin>>

NoCard == [pc |-> "none", chat |-> None]

Init ==
    /\ holder = None /\ refs = 0 /\ idle = 0
    /\ depth = [r \in Runs |-> 0]
    /\ lost = {} /\ hung = {}
    /\ beating = {} /\ beat = [r \in Runs |-> 0] /\ renewed = {}
    /\ blocked = {} /\ refused = {} /\ token = FALSE
    /\ admin = NoCard

-----------------------------------------------------------------------------
(***************************************************************************)
(* Requests                                                                *)
(***************************************************************************)

\* The entry is removed: its token is forgotten and the blocked chats are
\* notified.
Remove ==
    /\ holder' = None /\ refs' = 0 /\ idle' = 0
    /\ token' = FALSE
    /\ blocked' = {}

\* Mutant of Reentrant: a chat enters its own lock again, whoever asks.
ReentrantByChat(r) == holder # None /\ ChatOf[holder] = ChatOf[r]

\* acquire() finds the entry of the same chat and owner.
Reentrant(r) == holder = r

\* hold() or _acquire_repo_lock(): a new entry or one reference more.
Enter(r) ==
    /\ r \notin hung /\ depth[r] < MaxDepth
    /\ \/ holder = None /\ holder' = r /\ refs' = 1
       \/ Reentrant(r) /\ refs' = refs + 1 /\ UNCHANGED holder
    /\ idle' = 0
    /\ depth' = [depth EXCEPT ![r] = @ + 1]
    /\ UNCHANGED <<lost, hung, beatVars, cardVars, admin>>

\* acquire() refuses, and remembers the chat while there is room.
Conflict(r) ==
    /\ r \notin hung \cup refused
    /\ holder # None /\ ~Reentrant(r)
    /\ blocked' = IF Cardinality(blocked) < Capacity
                  THEN blocked \cup {ChatOf[r]} ELSE blocked
    /\ refused' = refused \cup {r}
    /\ UNCHANGED <<lockVars, runVars, beatVars, token, admin>>

\* send_lock_conflict_card() puts the repository's token on its buttons.
SendCard(r) ==
    /\ r \in refused
    /\ refused' = refused \ {r}
    /\ token' = TRUE
    /\ UNCHANGED <<lockVars, runVars, beatVars, blocked, admin>>

\* The end of a hold, after which a run that lost its lock has none to lose.
Unwind(r) ==
    /\ depth' = [depth EXCEPT ![r] = @ - 1]
    /\ lost' = IF depth[r] = 1 THEN lost \ {r} ELSE lost
    /\ UNCHANGED hung

\* Mutant of Exit: the owner is not compared.
ExitByChat(r) ==
    /\ r \notin hung /\ depth[r] > 0
    /\ Unwind(r)
    /\ IF holder = None \/ ChatOf[holder] # ChatOf[r] THEN UNCHANGED <<lockVars, blocked, token>>
       ELSE IF refs = 1 THEN Remove
       ELSE refs' = refs - 1 /\ idle' = 0 /\ UNCHANGED <<holder, blocked, token>>
    /\ UNCHANGED <<beatVars, refused, admin>>

\* release(): nothing for a run that does not own the entry any more.
Exit(r) ==
    /\ r \notin hung /\ depth[r] > 0
    /\ Unwind(r)
    /\ IF holder # r THEN UNCHANGED <<lockVars, blocked, token>>
       ELSE IF refs = 1 THEN Remove
       ELSE refs' = refs - 1 /\ idle' = 0 /\ UNCHANGED <<holder, blocked, token>>
    /\ UNCHANGED <<beatVars, refused, admin>>

\* The body of a hold never returns.
Hang(r) ==
    /\ r \notin hung /\ Cardinality(hung) < MaxHung
    /\ depth[r] > 0
    /\ hung' = hung \cup {r}
    /\ UNCHANGED <<lockVars, depth, lost, beatVars, cardVars, admin>>

-----------------------------------------------------------------------------
(***************************************************************************)
(* Heartbeats, time and the cleanup thread                                 *)
(***************************************************************************)

\* The heartbeat thread starts after the lock is acquired, ...
StartBeat(r) ==
    /\ r \notin hung \cup beating /\ depth[r] > 0
    /\ beating' = beating \cup {r}
    /\ UNCHANGED <<lockVars, runVars, beat, renewed, cardVars, admin>>

\* ... and stops before the release, or after it when the join times out.
StopBeat(r) ==
    /\ r \in beating \ hung
    /\ beating' = beating \ {r}
    /\ renewed' = renewed \ {r}
    /\ beat' = [beat EXCEPT ![r] = 0]
    /\ UNCHANGED <<lockVars, runVars, cardVars, admin>>

\* Mutant of Touch: the owner is left out, so the entry is not found.
TouchNobody(r) ==
    /\ r \in beating /\ beat[r] >= Beat
    /\ beat' = [beat EXCEPT ![r] = 0]
    /\ renewed' = renewed \cup {r}
    /\ UNCHANGED <<lockVars, runVars, beating, cardVars, admin>>

\* touch() renews the lease of the entry the run owns.
Touch(r) ==
    /\ r \in beating /\ beat[r] >= Beat
    /\ beat' = [beat EXCEPT ![r] = 0]
    /\ renewed' = renewed \cup {r}
    /\ idle' = IF holder = r THEN 0 ELSE idle
    /\ UNCHANGED <<holder, refs, runVars, beating, cardVars, admin>>

\* Time passes; no heartbeat is late by more than Slack.
Tick ==
    /\ \A r \in beating : beat[r] < Beat + Slack
    /\ idle' = IF holder # None /\ idle <= Lease THEN idle + 1 ELSE idle
    /\ beat' = [r \in Runs |-> IF r \in beating THEN beat[r] + 1 ELSE beat[r]]
    /\ UNCHANGED <<holder, refs, runVars, beating, renewed, cardVars, admin>>

\* Mutant of Cleanup: only entries without references are evicted.
CleanupIdleOnly ==
    /\ holder = None /\ token
    /\ token' = FALSE
    /\ UNCHANGED <<lockVars, runVars, beatVars, blocked, refused, admin>>

\* _cleanup_idle(): a lease that is not renewed is taken away, and so are
\* tokens without a lock.
Cleanup ==
    /\ IF holder # None /\ idle > Lease
       THEN Remove /\ lost' = lost \cup {holder}
       ELSE holder = None /\ token' = FALSE /\ UNCHANGED <<lockVars, blocked, lost>>
    /\ UNCHANGED <<depth, hung, beatVars, refused, admin>>

-----------------------------------------------------------------------------
(***************************************************************************)
(* The forced release                                                      *)
(***************************************************************************)

HolderChat == IF holder = None THEN None ELSE ChatOf[holder]

\* handle_force_release_repo_lock(): the confirmation card names the chat
\* that holds the lock now.
Ask ==
    /\ admin = NoCard /\ token
    /\ admin' = [pc |-> "asked", chat |-> HolderChat]
    /\ UNCHANGED <<lockVars, runVars, beatVars, cardVars>>

\* handle_confirm_force_release() looks the token up, ...  Or the card
\* expires.
Confirm ==
    /\ admin.pc = "asked"
    /\ admin' \in {NoCard} \cup (IF token THEN {[admin EXCEPT !.pc = "found"]} ELSE {})
    /\ UNCHANGED <<lockVars, runVars, beatVars, cardVars>>

\* ... and compares the chat, if the card and the lock have one.
CheckHolder ==
    /\ admin.pc = "found"
    /\ admin' = IF None \in {HolderChat, admin.chat} \/ admin.chat = HolderChat
                THEN [admin EXCEPT !.pc = "checked"] ELSE NoCard
    /\ UNCHANGED <<lockVars, runVars, beatVars, cardVars>>

\* Then force_release() takes the lock from whoever has it.
ForceRelease ==
    /\ admin.pc = "checked"
    /\ admin' = NoCard
    /\ IF holder # None
       THEN Remove /\ lost' = lost \cup {holder}
       ELSE UNCHANGED <<lockVars, blocked, token, lost>>
    /\ UNCHANGED <<depth, hung, beatVars, refused>>

-----------------------------------------------------------------------------

Request(r) ==
    \/ Enter(r) \/ Conflict(r) \/ SendCard(r) \/ Exit(r) \/ Hang(r)
    \/ StartBeat(r) \/ StopBeat(r) \/ Touch(r)

Next ==
    \/ \E r \in Runs : Request(r)
    \/ Tick \/ Cleanup \/ Ask \/ Confirm \/ CheckHolder \/ ForceRelease

\* Time passes, and the heartbeat threads and the cleanup thread, which are
\* daemons that catch every exception, keep running.
Fairness == WF_vars(Tick) /\ WF_vars(Cleanup) /\ \A r \in Runs : WF_vars(Touch(r))

Spec     == Init /\ [][Next]_vars
FairSpec == Spec /\ Fairness

-----------------------------------------------------------------------------
(***************************************************************************)
(* Properties                                                              *)
(***************************************************************************)

\* The variables keep their types.
TypeOK ==
    /\ holder \in Runs \cup {None}
    /\ refs \in Nat
    /\ idle \in 0..Lease + 1
    /\ depth \in [Runs -> 0..MaxDepth]
    /\ lost \subseteq Runs /\ hung \subseteq Runs
    /\ beating \subseteq Runs /\ renewed \subseteq beating
    /\ beat \in [Runs -> 0..Beat + Slack]
    /\ blocked \subseteq Chats /\ refused \subseteq Runs /\ token \in BOOLEAN
    /\ admin \in [pc : {"none", "asked", "found", "checked"}, chat : Chats \cup {None}]

\* Two requests never work in the repository at once, of the same chat or of
\* two, but for one whose lock was taken away under it; and its late release
\* does not let a third in.
Exclusive ==
    \A r, s \in Runs \ lost : depth[r] > 0 /\ depth[s] > 0 => r = s

\* The refcount is the number of holds that are still to end: an entry never
\* outlives its holds and is never removed under one of them.
RefcountExact ==
    /\ holder # None => 0 < refs /\ refs <= depth[holder]
    /\ holder # None /\ holder \notin lost => refs = depth[holder]
    /\ \A r \in Runs : depth[r] > 0 => holder = r \/ r \in lost

\* A chat waits for a release notice only while there is a lock whose removal
\* sends it.
BlockedHasHolder == blocked # {} => holder # None

\* A run whose heartbeat thread has beaten and goes on beating is not
\* reclaimed, however long it works.
RenewedNotReclaimed == holder \in renewed => idle <= Lease

\* A run that hangs without a heartbeat does not keep the repository.
HungFreed ==
    \A r \in Runs : holder = r /\ r \in hung \ beating ~> holder # r
===============================================================================
