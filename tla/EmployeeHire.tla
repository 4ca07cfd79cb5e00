----------------------------- MODULE EmployeeHire -----------------------------
(***************************************************************************)
(* The hiring of one employee: the provisioning activity of the hire       *)
(* service, the configuration that the composition runs after it, the      *)
(* monitor that revalidates a Channel that went down, and the reconciling  *)
(* of a hire after a restart (src/autonomous/provisioning/hire_service.py  *)
(* and composition.py).                                                    *)
(*                                                                         *)
(* The activity is a coroutine of the runtime's loop: a step is one commit *)
(* to the journal or one call it waits for.  A retirement is admitted by   *)
(* another thread (EmployeeLifecycle) and may come between any two steps.  *)
(*                                                                         *)
(* The hire projection refuses a phase change that is not a successor of   *)
(* the phase before, but the workforce projection that validates a commit  *)
(* refuses only an archived employee.  A frame that the second takes and   *)
(* the first does not leaves a journal that cannot be replayed: poisoned.  *)
(* The model stops there, but for the restart.                             *)
(***************************************************************************)
EXTENDS Integers, FiniteSets

CONSTANTS
    Retries,     \* attempts of _retry_recovery_intent()
    MaxFaults    \* bound on calls that fail or whose result is lost

ASSUME HireAssumption == Retries \in Nat /\ MaxFaults \in Nat

VARIABLES
    up,         \* "up", "down", or "blocked": the runtime could not be composed
    phase,      \* state of the employee
    poisoned,   \* the journal holds a phase change the hire projection refuses
    heff,       \* hire effects; slash and chan are those of the newest attempt
    disposed,   \* some hire effect was ever disposed as ACTION_REQUIRED
    chall,      \* the activation challenge
    quiet,      \* nothing was committed since the Channel was found down
    principal,  \* the Bot principal in the workforce projection
    world,      \* what exists outside of the journal
    act,        \* the activity of the hire
    admitted,   \* a retirement was admitted
    calls,      \* how often each external call was made
    late,       \* what was made after the retirement was admitted
    lost,       \* a resubmission was dropped because the last activity still ran
    faults

hireFacts == <<phase, poisoned, heff, disposed, chall, quiet, principal>>
hireVars  == <<up, hireFacts, world, act, admitted, calls, late, lost, faults>>

HireEffects == {"reg", "store", "slash", "chan"}
Phases      == {"provisioning", "configuring", "validating", "ready", "active",
                "retiring", "action_required", "archived"}
Things      == {"app", "secret", "slash", "channel", "member", "work", "dir"}
Pcs         == {"idle", "start", "prov", "prepared", "register", "registered",
                "unregistered", "store", "put", "receipt", "unstored", "bind",
                "slash", "slashRun", "slashDone", "chan", "chanRun", "chanDone",
                "chanFailed", "verify", "activate", "retry", "notify"}

Open(h)     == {e \in HireEffects : h[e] \in {"prepared", "executing"}}
Dispose(h)  == [e \in HireEffects |-> IF e \in Open(h) THEN "action_required" ELSE h[e]]

NoActivity    == [pc |-> "idle", launch |-> 0, tries |-> 0, rec |-> FALSE]
\* An activity; rec is one that recovery started.
Activity(rec) == [pc |-> "start", launch |-> 0, tries |-> Retries, rec |-> rec]

\* The employee as start_hire() admits it.
HireInit ==
    /\ up = "up" /\ phase = "provisioning" /\ poisoned = FALSE
    /\ heff = [e \in HireEffects |-> "none"]
    /\ disposed = FALSE /\ chall = "none" /\ quiet = FALSE
    /\ principal = "none" /\ world = {"dir"}
    /\ act = Activity(FALSE)
    /\ admitted = FALSE /\ late = {} /\ lost = FALSE /\ faults = 0

\* The services run, and the journal replays.
Live == up = "up" /\ ~poisoned

At(pc)   == Live /\ act.pc = pc
Go(pc)   == act' = [act EXCEPT !.pc = pc]
Fault    == faults < MaxFaults /\ faults' = faults + 1
NoFault  == faults' = faults
Make(x)  == /\ world' = world \cup {x}
            /\ late' = IF admitted THEN late \cup {x} ELSE late
Same     == UNCHANGED <<up, poisoned, admitted, lost>>
NoFacts  == UNCHANGED hireFacts
NoWorld  == UNCHANGED <<world, calls, late>>

\* The future of a submitted activity lives until its notification is out; that
\* of recovery is not registered.
After(a) == IF a.rec THEN NoActivity ELSE [a EXCEPT !.pc = "notify"]

\* An exception leaves the activity: recovery retries, a submitted activity
\* only if no effect was ever disposed.
Raised(a, d) == IF a.rec \/ ~d THEN [a EXCEPT !.pc = "retry"] ELSE After(a)

\* commit_effect_transition(): checks the effect, never the phase.
Transition(e, s) ==
    /\ heff' = [heff EXCEPT ![e] = s]
    /\ disposed' = (disposed \/ s = "action_required")
    /\ quiet' = FALSE
    /\ UNCHANGED <<phase, poisoned, chall, principal>>

\* _mark_action_required_sync(): the effect if it is open, then the phase; an
\* archived employee refuses it.
MarkActionRequired(e) ==
    /\ heff' = [heff EXCEPT ![e] = IF e \in Open(heff) THEN "action_required" ELSE @]
    /\ disposed' = (disposed \/ e \in Open(heff))
    /\ phase' = IF phase = "archived" THEN phase ELSE "action_required"
    /\ quiet' = FALSE
    /\ UNCHANGED <<poisoned, chall, principal>>
    /\ act' = Raised(act, disposed')
-----------------------------------------------------------------------------
\* _configure_intent() picks up the hire where its phase says.
Configure ==
    /\ At("start")
    /\ act' = IF phase = "provisioning" THEN [act EXCEPT !.pc = "prov"]
              ELSE IF phase \in {"configuring", "validating"}
              THEN [act EXCEPT !.pc = "slash", !.launch = 0]
              ELSE After(act)
    /\ NoFacts /\ NoWorld /\ Same /\ NoFault

\* Registration is prepared once; an outcome that is not known is never retried.
Provision ==
    /\ At("prov")
    /\ \/ /\ phase = "action_required"
          /\ act' = Raised(act, disposed) /\ NoFacts
       \/ /\ phase # "action_required" /\ heff["reg"] = "none"
          /\ Transition("reg", "prepared") /\ Go("prepared")
       \/ /\ phase # "action_required" /\ heff["reg"] = "prepared"
          /\ Go("prepared") /\ NoFacts
       \/ /\ phase # "action_required" /\ heff["reg"] \notin {"none", "prepared"}
          /\ MarkActionRequired("reg")
    /\ NoWorld /\ Same /\ NoFault

BeginRegister ==
    /\ At("prepared")
    /\ IF heff["reg"] = "prepared"
       THEN Transition("reg", "executing") /\ Go("register")
       ELSE act' = Raised(act, disposed) /\ NoFacts
    /\ NoWorld /\ Same /\ NoFault

\* The call to the registrar: an app, no app, or an app whose answer is lost.
Register ==
    /\ At("register")
    /\ calls' = [calls EXCEPT !["register"] = @ + 1]
    /\ \/ Make("app") /\ NoFault /\ Go("registered")
       \/ Make("app") /\ Fault /\ Go("unregistered")
       \/ UNCHANGED <<world, late>> /\ Fault /\ Go("unregistered")
    /\ NoFacts /\ Same

\* _commit_registered_app(), and the handler of its refusal.
CommitRegistered ==
    /\ At("registered")
    /\ IF heff["reg"] = "executing"
       THEN Transition("reg", "committed") /\ Go("store")
       ELSE MarkActionRequired("reg")
    /\ NoWorld /\ Same /\ NoFault

RegisterFailed ==
    /\ At("unregistered")
    /\ MarkActionRequired("reg")
    /\ NoWorld /\ Same /\ NoFault

\* PREPARED, then EXECUTING; a retirement in between disposes the effect.
BeginStore ==
    /\ At("store")
    /\ \/ heff["store"] = "none" /\ Transition("store", "prepared") /\ UNCHANGED act
       \/ heff["store"] = "prepared" /\ Transition("store", "executing") /\ Go("put")
       \/ /\ heff["store"] = "action_required"
          /\ act' = Raised(act, disposed) /\ NoFacts
    /\ NoWorld /\ Same /\ NoFault

Put ==
    /\ At("put")
    /\ \/ Make("secret") /\ NoFault /\ Go("receipt")
       \/ UNCHANGED <<world, late>> /\ Fault /\ Go("unstored")
    /\ UNCHANGED calls /\ NoFacts /\ Same

CommitStored ==
    /\ At("receipt")
    /\ IF heff["store"] = "executing"
       THEN Transition("store", "committed") /\ Go("bind")
       ELSE act' = Raised(act, disposed) /\ NoFacts
    /\ NoWorld /\ Same /\ NoFault

StoreFailed ==
    /\ At("unstored")
    /\ MarkActionRequired("store")
    /\ NoWorld /\ Same /\ NoFault

\* _bind_principal(): no phase is checked, an archived employee is refused.  On
\* an employee whose retirement was admitted the frame poisons the journal.
Bind ==
    /\ At("bind")
    /\ IF phase = "archived"
       THEN act' = Raised(act, disposed) /\ UNCHANGED <<hireFacts, up>>
       ELSE /\ principal' = "bound"
            /\ poisoned' = (phase # "provisioning")
            /\ phase' = "configuring"
            /\ act' = [act EXCEPT !.pc = "slash", !.launch = 0]
            /\ quiet' = FALSE
            /\ UNCHANGED <<up, heff, disposed, chall>>
    /\ NoWorld /\ NoFault /\ UNCHANGED <<admitted, lost>>
-----------------------------------------------------------------------------
\* A launch uses the next generation once the Channel of the last one was
\* committed or given up.  Only the first launch of a submitted activity is not
\* forced to make a fresh Slash attempt, and that one finds none committed.
Attempt ==
    IF heff["chan"] \in {"committed", "action_required"}
    THEN [heff EXCEPT !["slash"] = "none", !["chan"] = "none"]
    ELSE [heff EXCEPT !["slash"] = IF @ = "committed" THEN "none" ELSE @]

\* A RuntimeError of the Channel's start: the first launch is repeated.
LaunchFailed(d) ==
    act' = IF act.launch = 0 THEN [act EXCEPT !.pc = "slash", !.launch = 1]
           ELSE Raised(act, d)

\* _reconcile_slash() up to EXECUTING.
BeginSlash ==
    /\ At("slash")
    /\ LET h == Attempt IN
       \/ /\ h["slash"] = "none"
          /\ heff' = [h EXCEPT !["slash"] = "prepared"] /\ UNCHANGED act
          /\ quiet' = FALSE
       \/ /\ h["slash"] = "prepared"
          /\ heff' = [h EXCEPT !["slash"] = "executing"] /\ Go("slashRun")
          /\ quiet' = FALSE
       \/ h["slash"] = "executing" /\ Go("slashRun") /\ UNCHANGED <<heff, quiet>>
       \/ /\ h["slash"] = "action_required"
          /\ act' = Raised(act, disposed) /\ UNCHANGED <<heff, quiet>>
    /\ UNCHANGED <<phase, poisoned, disposed, chall, principal>>
    /\ NoWorld /\ Same /\ NoFault

\* The secret is resolved and the commands are written.
Slash ==
    /\ At("slashRun")
    /\ \/ "secret" \in world /\ Make("slash") /\ NoFault /\ Go("slashDone")
       \/ /\ "secret" \in world /\ Fault
          /\ act' = Raised(act, disposed) /\ UNCHANGED <<world, late>>
       \/ /\ "secret" \notin world /\ NoFault
          /\ act' = Raised(act, disposed) /\ UNCHANGED <<world, late>>
    /\ UNCHANGED calls /\ NoFacts /\ Same

CommitSlash ==
    /\ At("slashDone")
    /\ IF heff["slash"] = "executing"
       THEN Transition("slash", "committed") /\ Go("chan")
       ELSE act' = Raised(act, disposed) /\ NoFacts
    /\ NoWorld /\ Same /\ NoFault

\* _start_channel() up to EXECUTING.
BeginChannel ==
    /\ At("chan")
    /\ \/ heff["chan"] = "none" /\ Transition("chan", "prepared") /\ UNCHANGED act
       \/ heff["chan"] = "prepared" /\ Transition("chan", "executing") /\ Go("chanRun")
       \/ heff["chan"] = "executing" /\ Go("chanRun") /\ NoFacts
       \/ heff["chan"] = "action_required" /\ LaunchFailed(disposed) /\ NoFacts
    /\ NoWorld /\ Same /\ NoFault

\* The worker is launched; without the secret it does not get READY.
StartChannel ==
    /\ At("chanRun")
    /\ \/ "secret" \in world /\ Make("channel") /\ NoFault /\ Go("chanDone")
       \/ "secret" \in world /\ Fault /\ Go("chanFailed") /\ UNCHANGED <<world, late>>
       \/ "secret" \notin world /\ NoFault /\ Go("chanFailed") /\ UNCHANGED <<world, late>>
    /\ UNCHANGED calls /\ NoFacts /\ Same

\* An effect that a retirement disposed meanwhile is left as it is.
CommitChannel ==
    /\ At("chanDone")
    /\ Go("verify")
    /\ IF heff["chan"] = "executing" THEN Transition("chan", "committed") ELSE NoFacts
    /\ NoWorld /\ Same /\ NoFault

ChannelFailed ==
    /\ At("chanFailed")
    /\ IF heff["chan"] = "executing" THEN Transition("chan", "action_required") ELSE NoFacts
    /\ LaunchFailed(TRUE)
    /\ NoWorld /\ Same /\ NoFault

\* Mutant: the phase is not checked.
VerifyAnyPhase ==
    /\ At("verify")
    /\ IF heff["slash"] = "committed" /\ heff["chan"] = "committed"
       THEN /\ phase' = "ready" /\ chall' = "issued" /\ quiet' = FALSE
            /\ Go("activate")
            /\ UNCHANGED <<poisoned, heff, disposed, principal>>
       ELSE act' = Raised(act, disposed) /\ NoFacts
    /\ NoWorld /\ Same /\ NoFault

\* begin_activation_verification() under its locks: VALIDATING, the challenge,
\* READY_PENDING_VERIFICATION.
Verify ==
    /\ At("verify")
    /\ IF /\ phase \in {"configuring", "validating"}
          /\ heff["slash"] = "committed" /\ heff["chan"] = "committed"
       THEN /\ phase' = "ready" /\ chall' = "issued" /\ quiet' = FALSE
            /\ Go("activate")
            /\ UNCHANGED <<poisoned, heff, disposed, principal>>
       ELSE act' = Raised(act, disposed) /\ NoFacts
    /\ NoWorld /\ Same /\ NoFault

\* commit_automatic_activation().  A refusal leaves the employee READY; what
\* retries it finds nothing to configure.
Activate ==
    /\ At("activate")
    /\ \/ /\ phase = "ready" /\ NoFault
          /\ phase' = "active" /\ chall' = "consumed" /\ quiet' = FALSE
          /\ act' = After(act)
          /\ UNCHANGED <<poisoned, heff, disposed, principal>>
       \/ phase = "ready" /\ Fault /\ act' = After(act) /\ NoFacts
       \/ phase # "ready" /\ NoFault /\ act' = Raised(act, disposed) /\ NoFacts
    /\ NoWorld /\ Same

\* _retry_recovery_intent(), and what it does when the attempts are used up.
Retry ==
    /\ At("retry")
    /\ IF act.tries > 0
       THEN act' = [act EXCEPT !.pc = "start", !.tries = @ - 1] /\ NoFacts
       ELSE /\ heff' = Dispose(heff)
            /\ disposed' = (disposed \/ Open(heff) # {})
            /\ phase' = IF phase = "archived" THEN phase ELSE "action_required"
            /\ quiet' = FALSE
            /\ act' = After(act)
            /\ UNCHANGED <<poisoned, chall, principal>>
    /\ NoWorld /\ Same /\ NoFault

\* The terminal notification is sent and the future of the activity ends.
Notified ==
    /\ At("notify")
    /\ act' = NoActivity
    /\ NoFacts /\ NoWorld /\ Same /\ NoFault
-----------------------------------------------------------------------------
\* The worker process of the Channel ends by itself.
ChannelDown ==
    /\ Live /\ "channel" \in world /\ Fault
    /\ world' = world \ {"channel"}
    /\ NoFacts /\ UNCHANGED <<act, calls, late>> /\ Same

\* _monitor_channels(): the Channel is fenced and the intent submitted again;
\* _submit_intent() drops that while the last activity is not done.
Monitor ==
    /\ Live /\ act.pc \in {"idle", "notify"}
    /\ phase \in {"active", "ready"} /\ "channel" \notin world
    /\ phase' = "validating" /\ quiet' = TRUE
    /\ act' = IF act.pc = "idle" THEN Activity(FALSE) ELSE act
    /\ lost' = (act.pc # "idle")
    /\ UNCHANGED <<up, poisoned, heff, disposed, chall, principal, admitted>>
    /\ NoWorld /\ NoFault

HireStep ==
    \/ Configure \/ Provision \/ BeginRegister \/ Register \/ CommitRegistered
    \/ RegisterFailed \/ BeginStore \/ Put \/ CommitStored \/ StoreFailed \/ Bind
    \/ BeginSlash \/ Slash \/ CommitSlash \/ BeginChannel \/ StartChannel
    \/ CommitChannel \/ ChannelFailed \/ Verify \/ Activate \/ Retry \/ Notified
-----------------------------------------------------------------------------
\* The credential of the hire is known, or its receipt is found in the vault.
CanBind ==
    \/ heff["store"] = "committed"
    \/ heff["store"] = "executing" /\ "secret" \in world

\* Recovery of a hire whose registration is committed binds the principal.
\* Neither a phase of a retirement nor a destroyed credential is excepted: the
\* first poisons the journal, the second is a binding conflict.
RecoverBind ==
    /\ heff["reg"] = "committed" /\ CanBind
    /\ heff' = [heff EXCEPT !["store"] = "committed"]
    /\ principal' = IF principal = "none" THEN "bound" ELSE principal
    /\ phase' = IF principal = "none" THEN "configuring" ELSE phase
    /\ poisoned' = (principal = "none" /\ phase = "retiring")
    /\ up' = IF poisoned' \/ principal = "destroyed" THEN "blocked" ELSE "up"
    /\ UNCHANGED <<disposed, chall, quiet>>

\* The outcome is not known, or was disposed of.
RecoverUnknown ==
    /\ \/ heff["reg"] \in {"executing", "action_required"}
       \/ heff["reg"] = "committed" /\ ~CanBind
    /\ heff' = Dispose(heff)
    /\ disposed' = (disposed \/ Open(heff) # {})
    /\ phase' = "action_required"
    /\ up' = "up"
    /\ UNCHANGED <<poisoned, chall, quiet, principal>>

RecoverUntouched ==
    /\ heff["reg"] \in {"none", "prepared"}
    /\ up' = "up" /\ UNCHANGED hireFacts

\* A Channel of before the restart is fenced.  A hire that was validating again
\* after its challenge was consumed is given up, unless fencing was the last
\* thing the journal says of it.
RecoverConfigured ==
    /\ phase \in {"configuring", "validating", "ready", "active"}
    /\ up' = "up" /\ UNCHANGED <<poisoned, principal>>
    /\ IF phase = "validating" /\ chall = "consumed" /\ ~(quiet /\ ~disposed)
       THEN /\ heff' = Dispose(heff) /\ phase' = "action_required"
            /\ disposed' = (disposed \/ Open(heff) # {})
            /\ quiet' = FALSE /\ UNCHANGED chall
       ELSE /\ phase' = IF phase = "configuring" /\ heff["chan"] # "committed"
                        THEN phase ELSE "validating"
            /\ chall' = IF phase = "validating" /\ chall = "consumed"
                        THEN "reopened" ELSE chall
            /\ quiet' = TRUE
            /\ UNCHANGED <<heff, disposed>>

\* Mutant: a hire that was provisioning is not taken up again.
PendingConfigured == {"configuring", "validating"}

\* The phases of the intents that recover() starts again.
Pending == {"provisioning", "configuring", "validating"}

\* _reconcile_recovered_hires(), run by the constructor and by recover(), and
\* the intents that recover() starts again.
RecoverHire ==
    /\ \/ /\ poisoned /\ up' = "blocked" /\ UNCHANGED hireFacts
       \/ /\ ~poisoned /\ phase \in {"provisioning", "retiring"}
          /\ RecoverBind \/ RecoverUnknown \/ RecoverUntouched
       \/ /\ ~poisoned /\ RecoverConfigured
       \/ /\ ~poisoned /\ phase \in {"action_required", "archived"}
          /\ up' = "up" /\ UNCHANGED hireFacts
    /\ act' = IF up' = "up" /\ phase' \in Pending
              THEN Activity(TRUE) ELSE NoActivity
    /\ lost' = FALSE
===============================================================================
