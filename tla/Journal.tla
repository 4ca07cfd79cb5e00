------------------------------- MODULE Journal -------------------------------
(***************************************************************************)
(* The autonomous department's journal: JournalWriter of                   *)
(* src/autonomous/journal/writer.py over one append-only file, and the     *)
(* compare-and-swap high-water mark FileAnchor of anchor.py beside it.     *)
(*                                                                         *)
(* Every process that opens the journal has its own writer; a flock lets   *)
(* one of them hold it.  A commit is four steps, and the process may be    *)
(* killed or the machine lose power between any two of them: the record is *)
(* written, the file and its directory are fsynced, the anchor file is     *)
(* replaced, the anchor's directory is fsynced.  The file and the anchor   *)
(* are modelled twice, as the processes see them and as a power loss would *)
(* leave them.                                                             *)
(*                                                                         *)
(* A frame is its sequence number, its previous_hash and its transaction   *)
(* id.  Ids are fresh UUIDs and the SHA-256 chain has no collisions, so a  *)
(* frame's id stands for its frame_hash.  Aggregate versions and expected  *)
(* heads only refuse a commit before it touches anything; contents, HMACs  *)
(* and blob references decide nothing else.                                *)
(***************************************************************************)
EXTENDS Integers, Sequences, FiniteSets

CONSTANTS
    Procs,    \* processes that open the journal
    Tx,       \* transaction ids
    Genesis,  \* GENESIS_HASH
    None      \* no process

ASSUME JournalAssumption == Genesis \notin Tx /\ None \notin Procs

Frame  == [seq : Nat, prev : Tx \cup {Genesis}, tx : Tx]
Anchor == [seq : Nat, hash : Tx \cup {Genesis}]

VARIABLES
    holder,      \* the process that holds writer.lock
    pc,          \* where each process is
    mem,         \* _frames of each process's writer
    disabled,    \* the processes whose writer is write-disabled
    file,        \* the complete frames of journal.jsonl
    torn,        \* the file ends in an incomplete record
    synced,      \* how many frames of the file survive a power loss
    anchor,      \* the anchor, as read() returns it
    anchorDisk,  \* the anchor that survives a power loss
    acked        \* the transactions reported as ANCHORED

fileVars   == <<file, torn, synced>>
anchorVars == <<anchor, anchorDisk>>
vars       == <<holder, pc, mem, disabled, fileVars, anchorVars, acked>>

\* down: no open writer; locked: has the flock, not recovered yet; idle: no
\* commit in progress; written, durable, replaced: the steps of a commit.
PCs == {"down", "locked", "idle", "written", "durable", "replaced"}

Init ==
    /\ holder = None
    /\ pc = [p \in Procs |-> "down"]
    /\ mem = [p \in Procs |-> <<>>]
    /\ disabled = {}
    /\ file = <<>>
    /\ torn = FALSE
    /\ synced = 0
    /\ anchor = [seq |-> 0, hash |-> Genesis]
    /\ anchorDisk = anchor
    /\ acked = {}

-----------------------------------------------------------------------------

\* AnchorState(_sequence, _previous_hash) of a list of frames.
HeadOf(frames) ==
    IF Len(frames) = 0
    THEN [seq |-> 0, hash |-> Genesis]
    ELSE [seq |-> frames[Len(frames)].seq, hash |-> frames[Len(frames)].tx]

\* The checks of _load_and_recover(): sequence and previous_hash of every
\* frame continue the chain.
Chained(frames) ==
    \A i \in DOMAIN frames :
        /\ frames[i].seq = i
        /\ frames[i].prev = IF i = 1 THEN Genesis ELSE frames[i - 1].tx

\* The frame commit() seals on top of the writer's own head.
Sealed(p, x) == [seq |-> HeadOf(mem[p]).seq + 1, prev |-> HeadOf(mem[p]).hash, tx |-> x]

Stop(p) ==
    /\ holder' = IF holder = p THEN None ELSE holder
    /\ pc' = [pc EXCEPT ![p] = "down"]
    /\ mem' = [mem EXCEPT ![p] = <<>>]
    /\ disabled' = disabled \ {p}

\* The anchor confirms a record the local file has only a part of.
TailConfirmed == torn /\ anchor.seq > HeadOf(file).seq

\* _load_and_recover() truncates an incomplete tail and fsyncs the file.
Truncate ==
    /\ torn' = FALSE
    /\ synced' = IF torn THEN Len(file) ELSE synced
    /\ UNCHANGED file

-----------------------------------------------------------------------------
(***************************************************************************)
(* Opening                                                                 *)
(***************************************************************************)

\* The constructor takes writer.lock; WriterLockError if it is held.
TakeLock(p) ==
    /\ pc[p] = "down"
    /\ holder = None
    /\ holder' = p
    /\ pc' = [pc EXCEPT ![p] = "locked"]
    /\ UNCHANGED <<mem, disabled, fileVars, anchorVars, acked>>

\* Mutant of Opened: the anchor is not compared with the recovered head.
OpenedUnverified(p) ==
    /\ pc[p] = "locked"
    /\ ~TailConfirmed
    /\ Chained(file)
    /\ Truncate
    /\ pc' = [pc EXCEPT ![p] = "idle"]
    /\ mem' = [mem EXCEPT ![p] = file]
    /\ UNCHANGED <<holder, disabled, anchorVars, acked>>

\* The constructor recovers the file and finds its head anchored.
Opened(p) ==
    /\ pc[p] = "locked"
    /\ ~TailConfirmed
    /\ Chained(file)
    /\ Truncate
    /\ anchor = HeadOf(file)
    /\ pc' = [pc EXCEPT ![p] = "idle"]
    /\ mem' = [mem EXCEPT ![p] = file]
    /\ UNCHANGED <<holder, disabled, anchorVars, acked>>

\* JournalIntegrityError or AnchorMismatchError: the constructor closes the
\* writer.  The tail is truncated before the anchor is compared.
Refused(p) ==
    /\ pc[p] = "locked"
    /\ TailConfirmed \/ ~Chained(file) \/ anchor # HeadOf(file)
    /\ IF TailConfirmed \/ ~Chained(file) THEN UNCHANGED fileVars ELSE Truncate
    /\ Stop(p)
    /\ UNCHANGED <<anchorVars, acked>>

\* replay() recovers the file again, on a write-disabled writer, too.
Replay(p) ==
    /\ pc[p] = "idle"
    /\ ~TailConfirmed
    /\ Truncate
    /\ UNCHANGED <<holder, pc, mem, disabled, anchorVars, acked>>

Close(p) ==
    /\ pc[p] = "idle"
    /\ Stop(p)
    /\ UNCHANGED <<fileVars, anchorVars, acked>>

-----------------------------------------------------------------------------
(***************************************************************************)
(* Committing                                                              *)
(***************************************************************************)

\* Transactions whose ids are in use somewhere.
Used == {file[i].tx : i \in DOMAIN file} \cup {anchor.hash, anchorDisk.hash} \cup acked
        \cup UNION {{mem[p][i].tx : i \in DOMAIN mem[p]} : p \in Procs}

\* Mutant of Write: a write-disabled writer goes on.
WriteAlways(p, x) ==
    /\ pc[p] = "idle"
    /\ x \notin Used
    /\ file' = IF torn THEN file ELSE Append(file, Sealed(p, x))
    /\ pc' = [pc EXCEPT ![p] = "written"]
    /\ UNCHANGED <<holder, mem, disabled, torn, synced, anchorVars, acked>>

\* commit(): the record reaches the file.  After an incomplete record it
\* would only make that line longer.
Write(p, x) ==
    /\ pc[p] = "idle" /\ p \notin disabled
    /\ x \notin Used
    /\ file' = IF torn THEN file ELSE Append(file, Sealed(p, x))
    /\ pc' = [pc EXCEPT ![p] = "written"]
    /\ UNCHANGED <<holder, mem, disabled, torn, synced, anchorVars, acked>>

\* The write stops short or raises.
WriteFails(p) ==
    /\ pc[p] = "idle" /\ p \notin disabled
    /\ torn' \in {torn, TRUE}
    /\ disabled' = disabled \cup {p}
    /\ UNCHANGED <<holder, pc, mem, file, synced, anchorVars, acked>>

\* Both fsyncs return and the writer moves its head.
Sync(p) ==
    /\ pc[p] = "written"
    /\ synced' = Len(file)
    /\ mem' = [mem EXCEPT ![p] = Append(@, file[Len(file)])]
    /\ pc' = [pc EXCEPT ![p] = "durable"]
    /\ UNCHANGED <<holder, disabled, file, torn, anchorVars, acked>>

\* One of them raises: commit() raises and the writer is disabled.
SyncFails(p) ==
    /\ pc[p] = "written"
    /\ synced' \in {synced, Len(file)}
    /\ disabled' = disabled \cup {p}
    /\ pc' = [pc EXCEPT ![p] = "idle"]
    /\ UNCHANGED <<holder, mem, file, torn, anchorVars, acked>>

\* compare_and_swap(): the anchor is still at the frame's predecessor, and
\* the file that replaces it is fsynced and renamed over it.
Swap(p) ==
    /\ pc[p] = "durable"
    /\ anchor.seq = HeadOf(mem[p]).seq - 1
    /\ anchor.hash = mem[p][Len(mem[p])].prev
    /\ anchor' = HeadOf(mem[p])
    /\ pc' = [pc EXCEPT ![p] = "replaced"]
    /\ UNCHANGED <<holder, mem, disabled, fileVars, anchorDisk, acked>>

\* compare_and_swap() returns False or raises before the rename: commit()
\* returns DURABLE_NOT_ANCHORED.
SwapFails(p) ==
    /\ pc[p] = "durable"
    /\ disabled' = disabled \cup {p}
    /\ pc' = [pc EXCEPT ![p] = "idle"]
    /\ UNCHANGED <<holder, mem, fileVars, anchorVars, acked>>

\* Mutant of Confirm: ANCHORED is reported before the directory is fsynced.
ConfirmEarly(p) ==
    /\ pc[p] = "replaced"
    /\ acked' = acked \cup {anchor.hash}
    /\ pc' = [pc EXCEPT ![p] = "idle"]
    /\ UNCHANGED <<holder, mem, disabled, fileVars, anchorVars>>

\* The anchor's directory is fsynced: commit() returns ANCHORED.
Confirm(p) ==
    /\ pc[p] = "replaced"
    /\ anchorDisk' = anchor
    /\ acked' = acked \cup {anchor.hash}
    /\ pc' = [pc EXCEPT ![p] = "idle"]
    /\ UNCHANGED <<holder, mem, disabled, fileVars, anchor>>

\* That fsync raises after the rename: commit() returns DURABLE_NOT_ANCHORED
\* although the anchor names the new frame.
ConfirmFails(p) ==
    /\ pc[p] = "replaced"
    /\ anchorDisk' \in {anchorDisk, anchor}
    /\ disabled' = disabled \cup {p}
    /\ pc' = [pc EXCEPT ![p] = "idle"]
    /\ UNCHANGED <<holder, mem, fileVars, anchor, acked>>

-----------------------------------------------------------------------------
(***************************************************************************)
(* Crashes                                                                 *)
(***************************************************************************)

\* The process dies: the kernel drops its flock and keeps the file's pages.
Kill(p) ==
    /\ pc[p] # "down"
    /\ Stop(p)
    /\ UNCHANGED <<fileVars, anchorVars, acked>>

\* The machine dies: what was not fsynced survives whole, in part or not.
PowerLoss ==
    \E n \in synced..Len(file) :
        /\ file' = SubSeq(file, 1, n)
        /\ synced' = n
        /\ torn' \in {FALSE, torn \/ n < Len(file)}
        /\ anchor' \in {anchor, anchorDisk}
        /\ anchorDisk' = anchor'
        /\ holder' = None
        /\ pc' = [p \in Procs |-> "down"]
        /\ mem' = [p \in Procs |-> <<>>]
        /\ disabled' = {}
        /\ UNCHANGED acked

Step(p) ==
    \/ TakeLock(p) \/ Opened(p) \/ Refused(p) \/ Replay(p) \/ Close(p)
    \/ \E x \in Tx : Write(p, x)
    \/ WriteFails(p) \/ Sync(p) \/ SyncFails(p)
    \/ Swap(p) \/ SwapFails(p) \/ Confirm(p) \/ ConfirmFails(p)
    \/ Kill(p)

Next == PowerLoss \/ \E p \in Procs : Step(p)

Spec == Init /\ [][Next]_vars

-----------------------------------------------------------------------------
(***************************************************************************)
(* Properties                                                              *)
(***************************************************************************)

\* The fields keep their types.
TypeOK ==
    /\ holder \in Procs \cup {None}
    /\ pc \in [Procs -> PCs]
    /\ mem \in [Procs -> Seq(Frame)]
    /\ disabled \subseteq Procs
    /\ file \in Seq(Frame)
    /\ torn \in BOOLEAN
    /\ synced \in 0..Len(file)
    /\ anchor \in Anchor
    /\ anchorDisk \in Anchor
    /\ acked \subseteq Tx

\* The anchor names one of the first n frames of the file, or none.
Names(a, n) == a.seq <= n /\ a.hash = IF a.seq = 0 THEN Genesis ELSE file[a.seq].tx

\* The anchor never runs ahead of the journal: the anchor the processes see
\* and the one that survives a power loss both name frames that survive it,
\* too.  This is why commit() fsyncs before it swaps.
AnchorNeverAhead ==
    /\ Names(anchor, synced)
    /\ Names(anchorDisk, synced)
    /\ anchorDisk.seq <= anchor.seq

\* The file is one unbroken chain, whatever crashes, refused opens and
\* second processes did to it, so recovery never meets a foreign frame.
ChainIntact == Chained(file)

\* A frame reported as ANCHORED is under the durable anchor, and so in
\* every later journal that opens.
AnchoredSurvives ==
    \A x \in acked : \E i \in 1..anchorDisk.seq : file[i].tx = x

\* Nothing is ever built on a frame that is not anchored: a record is only
\* appended to a whole file whose head the anchor names.  commit() disables
\* the writer on every failure, and no open accepts another head.
BuildsOnAnchored ==
    [][Len(file') > Len(file) => ~torn /\ anchor = HeadOf(file)]_vars

\* Only the process that holds the flock has an open writer, and one that
\* may commit has the file and the anchor as its own head.
WriterCurrent ==
    /\ \A p \in Procs : pc[p] # "down" <=> holder = p
    /\ \A p \in Procs :
          pc[p] = "idle" /\ p \notin disabled =>
             ~torn /\ mem[p] = file /\ anchor = HeadOf(file)

\* The frames under the durable anchor are a DurableLog: they are never
\* rewritten or cut off, and ANCHORED is only reported for one of them.
Durable == INSTANCE DurableLog WITH log <- [i \in 1..anchorDisk.seq |-> file[i].tx]

DurableSpec == Durable!Spec
==============================================================================
