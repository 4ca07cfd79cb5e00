-------------------------- MODULE JournalProjections -------------------------
(***************************************************************************)
(* Two in-memory projections of the journal, in the process that holds it. *)
(* EmployeeOutboxService (and EmployeeIngressService in the same way)      *)
(* stops its replay at the anchor; EmployeeDataService replays up to the   *)
(* writer's own last frame.                                                *)
(*                                                                         *)
(* anchor.read() does not take the writer's mutex and replay() does, so    *)
(* the Outbox may read the anchor in the middle of another domain's commit *)
(* and replay after it.  A projection is the list of frames reduced into   *)
(* it; what the reducers compute from them is in EmployeeOutbox.           *)
(*                                                                         *)
(* append_snapshot() keeps the snapshot's text in a blob beside the        *)
(* journal: published before the commit, moved to quarantine if it fails.  *)
(* One employee is modelled; its snapshots are the transactions in Blobs.  *)
(***************************************************************************)
EXTENDS Journal

CONSTANT Blobs   \* the transactions of append_snapshot(), each with its blob

ASSUME BlobsAssumption == Blobs \subseteq Tx /\ None \notin Blobs

VARIABLES
    dataView,    \* frames reduced into DataProjectionState
    outboxView,  \* frames reduced into OutboxProjectionState
    anchorRead,  \* what a rebuild of the Outbox read from the anchor, or None
    pending,     \* the append_snapshot() under way, or None
    blobs,       \* on disk: where the blob of each snapshot is
    closed       \* the employee is in closed_employees, which is not persisted

views    == <<dataView, outboxView, anchorRead>>
store    == <<pending, blobs, closed>>
viewVars == <<vars, views, store>>

ViewInit ==
    /\ Init
    /\ dataView = <<>>
    /\ outboxView = <<>>
    /\ anchorRead = None
    /\ pending = None
    /\ blobs = [x \in Blobs |-> "none"]
    /\ closed = FALSE

\* The services start with the writer and end with its process.
ServicesGone ==
    /\ dataView' = <<>> /\ outboxView' = <<>> /\ anchorRead' = None
    /\ pending' = None /\ closed' = FALSE
    /\ UNCHANGED blobs

\* append_snapshot() holds the writer's guard from the publication of its blob
\* to the end: no other domain commits or replays meanwhile.
MayWrite(x) == IF pending = None THEN x \notin Blobs ELSE x = pending

\* Steps of the journal that no projection follows.
Quiet(p) ==
    /\ \/ TakeLock(p) \/ Opened(p)
       \/ (pending = None /\ Replay(p))
       \/ (\E x \in Tx : MayWrite(x) /\ Write(p, x))
       \/ WriteFails(p) \/ Sync(p) \/ SyncFails(p)
       \/ Swap(p) \/ SwapFails(p) \/ ConfirmFails(p)
    /\ UNCHANGED <<views, store>>

Ends(p) ==
    /\ Refused(p) \/ (pending = None /\ Close(p)) \/ Kill(p)
    /\ ServicesGone

Lost == PowerLoss /\ ServicesGone

\* Mutant of Publish: the blob is staged while a rebuild is under way.
PublishAnytime(p, x) ==
    /\ pc[p] = "idle" /\ pending = None /\ ~closed
    /\ HeadOf(outboxView) = anchor
    /\ x \notin Used /\ blobs[x] = "none"
    /\ pending' = x
    /\ blobs' = [blobs EXCEPT ![x] = "live"]
    /\ UNCHANGED <<vars, views, closed>>

\* append_snapshot() of an open employee, with the projection at the anchor:
\* stage_and_publish() makes the blob durable before the commit names it.
Publish(p, x) ==
    /\ pc[p] = "idle" /\ pending = None /\ ~closed
    /\ anchorRead = None
    /\ HeadOf(outboxView) = anchor
    /\ x \notin Used /\ blobs[x] = "none"
    /\ pending' = x
    /\ blobs' = [blobs EXCEPT ![x] = "live"]
    /\ UNCHANGED <<vars, views, closed>>

\* The commit raised or was not ANCHORED, or the writer was disabled before:
\* the blob is moved to quarantine, whatever became of the frame.
AppendRaises(p) ==
    /\ pc[p] = "idle" /\ p \in disabled
    /\ pending # None
    /\ blobs' = [blobs EXCEPT ![pending] = "quarantined"]
    /\ pending' = None
    /\ UNCHANGED <<vars, views, closed>>

\* The committing service applies the frame once commit() says ANCHORED; the
\* commit named the projection's cursor as the head it expects.
AnchoredBy(p) ==
    /\ Confirm(p)
    /\ \/ pending = None /\ dataView = SubSeq(mem[p], 1, Len(mem[p]) - 1)
          /\ dataView' = mem[p] /\ UNCHANGED outboxView
       \/ outboxView = SubSeq(mem[p], 1, Len(mem[p]) - 1)
          /\ outboxView' = mem[p] /\ UNCHANGED dataView
       \/ pending = None /\ UNCHANGED <<dataView, outboxView>>
    /\ pending' = None
    /\ UNCHANGED <<anchorRead, blobs, closed>>

\* EmployeeDataService._synchronize_projection_unlocked(): any read or write
\* that finds the projection behind the writer's last frame replays it all.
DataSync(p) ==
    /\ pc[p] = "idle" /\ pending = None
    /\ HeadOf(dataView) # HeadOf(mem[p])
    /\ ~TailConfirmed
    /\ Truncate
    /\ dataView' = file
    /\ UNCHANGED <<holder, pc, mem, disabled, anchorVars, acked, outboxView, anchorRead, store>>

\* EmployeeOutboxService.rebuild_projection() reads the anchor ...
OutboxReadsAnchor(p) ==
    /\ pc[p] \notin {"down", "locked"}
    /\ anchorRead = None /\ pending = None
    /\ anchorRead' = anchor
    /\ UNCHANGED <<vars, dataView, outboxView, store>>

\* Snapshots that a list of frames refers to.
Referenced(frames) == {frames[i].tx : i \in DOMAIN frames} \cap Blobs

\* Closing the employee whose blob cannot be read, and quarantining every
\* blob that no snapshot of the new projection refers to.
Reconcile(frames) ==
    /\ closed' = (\E x \in Referenced(frames) : blobs[x] # "live")
    /\ blobs' = [x \in Blobs |->
          IF blobs[x] = "live" /\ x \notin Referenced(frames) THEN "quarantined" ELSE blobs[x]]

\* ... and then replays the file up to it.
OutboxRebuilds(p) ==
    /\ pc[p] = "idle"
    /\ anchorRead # None
    /\ ~TailConfirmed
    /\ anchorRead = HeadOf(SubSeq(file, 1, anchorRead.seq))
    /\ Truncate
    /\ outboxView' = SubSeq(file, 1, anchorRead.seq)
    /\ Reconcile(SubSeq(file, 1, anchorRead.seq))
    /\ anchorRead' = None
    /\ UNCHANGED <<holder, pc, mem, disabled, anchorVars, acked, dataView, pending>>

ViewNext ==
    \/ Lost
    \/ \E p \in Procs :
          \/ Quiet(p) \/ Ends(p) \/ AnchoredBy(p)
          \/ (\E x \in Blobs : Publish(p, x)) \/ AppendRaises(p)
          \/ DataSync(p) \/ OutboxReadsAnchor(p) \/ OutboxRebuilds(p)

ViewSpec == ViewInit /\ [][ViewNext]_viewVars

-----------------------------------------------------------------------------
(***************************************************************************)
(* Properties                                                              *)
(***************************************************************************)

\* A list of frames the anchor covers.
Covered(frames) == Len(frames) <= anchor.seq /\ frames = SubSeq(file, 1, Len(frames))

\* The Outbox shows only frames the anchor covers, although it reads the
\* anchor outside the writer's mutex and commits may fail in between: a
\* snapshot or a delivery effect is acted on only once it is anchored.
OutboxShowsAnchored == Covered(outboxView)

\* The employee data projection may show a frame that is not anchored, but it
\* never skips one: whatever commits, failed syncs and rebuilds come in
\* between, a frame is applied on top of exactly the frames before it.
DataHasNoGaps == dataView = SubSeq(file, 1, Len(dataView))

\* A snapshot that append_snapshot() returned keeps its blob for good: neither
\* the quarantine of failed appends nor that of a rebuild, which reads anchor,
\* file and directory one after the other, ever takes it, whatever crashes.
AckedReadable == \A x \in acked \cap Blobs : blobs[x] = "live"

\* An append that failed may still be under the anchor with its blob gone (the
\* anchor was swapped and its fsync raised).  No process ever works with such
\* a snapshot: the rebuild that finds it has closed the employee.
UnreadableIsClosed == (\E x \in Referenced(outboxView) : blobs[x] # "live") => closed

\* What the services read from the journal is what it promises: the Outbox acts
\* on anchored frames, the employee data misses none, and a snapshot either has
\* its blob or has closed its employee.
ProjectionsSound ==
    /\ OutboxShowsAnchored
    /\ DataHasNoGaps
    /\ AckedReadable
    /\ UnreadableIsClosed
==============================================================================
