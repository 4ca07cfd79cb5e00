--------------------------- MODULE ServiceShutdown ---------------------------
(***************************************************************************)
(* FeishuWSClient.close() of src/feishu/ws_client.py driving the shutdown  *)
(* operations of TaskScheduler while callers, dispatcher and workers keep  *)
(* running: fence, drain, cancel, drain again, and only then tear down the *)
(* engines and sessions the callbacks use.                                 *)
(*                                                                         *)
(* Both waits are bounded by a timeout, so each has two outcomes; a wait   *)
(* that times out saw the scheduler busy at its deadline.  The resources   *)
(* that are drained between the scheduler and the teardown (engines,       *)
(* employee runtime, card delivery) are one nondeterministic outcome.      *)
(***************************************************************************)
EXTENDS TaskScheduler

VARIABLE closer   \* where close() is

closeVars == <<vars, closer>>

CloserStates ==
    {"open", "fencing", "drain1", "cancel", "drain2", "quiesce", "teardown",
     "torn", "stopping", "closed", "giveup", "abandoned"}

CloseInit == Init /\ closer = "open"

\* close() stops the event intake, then calls fence_admission().
CloseFences       == closer = "open" /\ Fence /\ closer' = "fencing"
CloseFreesWaiters == closer = "fencing" /\ CancelWaiters /\ closer' = "drain1"

\* Mutant of DrainSucceeds: only the ordinary slots are waited for.
DrainIgnoresSystem ==
    /\ closer \in {"drain1", "drain2"}
    /\ normalTotal = 0
    /\ closer' = "quiesce"
    /\ UNCHANGED vars

\* wait_for_idle() returns True, on the first or on the second wait.
DrainSucceeds ==
    /\ closer \in {"drain1", "drain2"}
    /\ Idle
    /\ closer' = "quiesce"
    /\ UNCHANGED vars

\* Mutant of FirstDrainTimesOut: the first wait has no deadline.
FirstDrainWaitsOn ==
    /\ closer = "drain1" /\ Idle
    /\ closer' = "quiesce"
    /\ UNCHANGED vars

\* The first wait times out; cancel_active() follows and a second wait.
FirstDrainTimesOut ==
    /\ closer = "drain1" /\ ~Idle
    /\ closer' = "cancel"
    /\ UNCHANGED vars

CloseCancels == closer = "cancel" /\ CancelActive /\ closer' = "drain2"

SecondDrainTimesOut ==
    /\ closer = "drain2" /\ ~Idle
    /\ closer' = "giveup"
    /\ UNCHANGED vars

\* Engines, employee runtime and card delivery are asked to stop and waited
\* for; any of them may fail to, and then close() gives up.
Quiesce ==
    /\ closer = "quiesce"
    /\ closer' \in {"teardown", "giveup"}
    /\ UNCHANGED vars

\* cleanup_all() of the engine and session managers, thread_manager.close().
TearDown == closer = "teardown" /\ closer' = "torn" /\ UNCHANGED vars

\* scheduler.stop(wait=True, shutdown_executor=True); close() returns True.
CloseStops    == closer = "torn" /\ StopDispatcher /\ closer' = "stopping"
CloseFinishes == closer = "stopping" /\ ShutdownPools /\ closer' = "closed"

\* Mutant of CloseGivesUp: the pools are shut down there, too.
CloseGivesUpOnPools == closer = "giveup" /\ StopDispatcher /\ closer' = "stopping"

\* scheduler.stop(wait=True, shutdown_executor=False); close() returns False
\* and leaves the dependencies to the callbacks that still run.
CloseGivesUp == closer = "giveup" /\ StopDispatcher /\ closer' = "abandoned"

Close ==
    \/ CloseFences
    \/ CloseFreesWaiters
    \/ DrainSucceeds
    \/ FirstDrainTimesOut
    \/ CloseCancels
    \/ SecondDrainTimesOut
    \/ Quiesce
    \/ TearDown
    \/ CloseStops
    \/ CloseFinishes
    \/ CloseGivesUp

Serve == (Callers \/ Dispatcher \/ \E r \in Runs : Worker(r)) /\ UNCHANGED closer

CloseNext == Serve \/ Close

CloseSpec == CloseInit /\ [][CloseNext]_closeVars

\* close() itself never blocks for good: both waits have a deadline.
CloseFairness ==
    /\ WF_closeVars(Close /\ closer # "open")
    /\ \A r \in Runs :
          /\ WF_closeVars(StartWorker(r) /\ UNCHANGED closer)
          /\ WF_closeVars(waitersCanceled /\ GuardRefused(r) /\ UNCHANGED closer)
          /\ WF_closeVars(PublishSuccess(r) /\ UNCHANGED closer)
          /\ WF_closeVars(FinishRun(r) /\ UNCHANGED closer)
          /\ WF_closeVars(ExitGuard(r) /\ UNCHANGED closer)

FairCloseSpec == CloseSpec /\ CloseFairness

-----------------------------------------------------------------------------
(***************************************************************************)
(* Properties                                                              *)
(***************************************************************************)

\* close() has torn down what callbacks use.
TornDown == closer \in {"torn", "stopping", "closed"}

\* Once close() tears down the shared dependencies no callback runs and none
\* will: no run is in its callback, on its way to it, or queued.
NoCallbackAfterTeardown ==
    TornDown => \A r \in Runs : /\ pc[r] \in {"none", "exit"}
                                /\ status[r] # "queued"

\* Shutting the pools down drops no dispatched run: its future is never
\* canceled while the scheduler still counts it as RUNNING.
NoLostRun == \A r \in Runs : pc[r] # "lost"

\* A dispatched run keeps the slot it was counted for until it has given it
\* back, also while close() fences, cancels and shuts the pools down.
SlotsKept == NoLostRun /\ CountersExact /\ ConcurrencyLimits

\* close() returns, whatever the callbacks do.
CloseReturns == (closer # "open") ~> (closer \in {"closed", "abandoned"})
==============================================================================
