--------------------------- MODULE EmployeeLifecycle ---------------------------
(***************************************************************************)
(* The life of one employee from /hire to the archive: EmployeeHire        *)
(* together with the retirement saga (src/autonomous/provisioning/         *)
(* fire_service.py, fire_authority.py, fire_state.py, fire_effects.py),    *)
(* the work and the groups the employee has while it is active, and the    *)
(* restart of the process between any two commits.                         *)
(*                                                                         *)
(* The saga runs on the thread of an administrator's command or of         *)
(* recovery, one at a time.  Every transition of an effect is one commit:  *)
(* PREPARED, EXECUTING, then COMMITTED or ACTION_REQUIRED.  At most one    *)
(* request is ever admitted for an employee.                               *)
(***************************************************************************)
EXTENDS EmployeeHire, Sequences, Functions

CONSTANT MaxCrashes   \* bound on restarts

ASSUME LifecycleAssumption == MaxCrashes \in Nat

VARIABLES
    fire,     \* the retirement in the journal
    fpc,      \* the thread of the saga
    join,     \* the employee is being added to a group
    crashes

lifeVars == <<fire, fpc, join, crashes>>
vars     == <<hireVars, lifeVars>>

\* Mutant: the credential is destroyed before the groups are left.
CredentialFirst ==
    <<"execution_quiesce", "slash_cleanup", "channel_stop", "credential_destroy",
      "membership_cleanup", "archive_move">>

FIRE_EFFECT_ORDER ==
    <<"execution_quiesce", "slash_cleanup", "channel_stop", "membership_cleanup",
      "credential_destroy", "archive_move">>
FireEffects == Range(FIRE_EFFECT_ORDER)

\* What each effect removes.
Target ==
    [execution_quiesce |-> "work", slash_cleanup |-> "slash", channel_stop |-> "channel",
     membership_cleanup |-> "member", credential_destroy |-> "secret",
     archive_move |-> "dir"]

Init ==
    /\ HireInit
    /\ calls = [c \in FireEffects \cup {"register"} |-> 0]
    /\ fire = [phase |-> "none", mode |-> "none", confirmed |-> FALSE,
               eff |-> [e \in FireEffects |-> "none"]]
    /\ fpc = "idle" /\ join = FALSE /\ crashes = 0

\* How the authority classifies what there is to clean up.
CleanupMode ==
    IF principal = "bound" THEN "bound"
    ELSE IF heff["store"] = "committed" THEN "recoverable"
    ELSE IF heff["reg"] \in {"none", "prepared"} THEN "safe_abort"
    ELSE "external_unknown"

Real        == fire.mode \in {"bound", "recoverable"}
Waiting     == fire.mode = "external_unknown" /\ ~fire.confirmed
\* Effects that are recorded without being executed.
Skipped(e)  == ~Real /\ e # "archive_move"
\* The places in the order whose effect is not committed, and the first of them.
Remaining   == {i \in DOMAIN FIRE_EFFECT_ORDER : fire.eff[FIRE_EFFECT_ORDER[i]] # "committed"}
Current(e)  == \E i \in Remaining : e = FIRE_EFFECT_ORDER[i] /\ \A j \in Remaining : i <= j

SetEffect(e, s) ==
    fire' = [fire EXCEPT !.eff[e] = s,
                         !.phase = IF s = "action_required" THEN s ELSE @]
-----------------------------------------------------------------------------
\* start_fire() without a live request: authority.resolve() and admit().  One
\* frame records the request, disposes the open effects of the hire, makes the
\* employee RETIRING and closes its ingress.
Admit ==
    /\ Live /\ fpc = "idle" /\ ~admitted
    /\ phase \notin {"retiring", "archived"}
    /\ fire' = [fire EXCEPT !.phase = "retiring", !.mode = CleanupMode]
    /\ fpc' = "resume" /\ admitted' = TRUE
    /\ heff' = Dispose(heff)
    /\ disposed' = (disposed \/ Open(heff) # {})
    /\ phase' = "retiring" /\ quiet' = FALSE
    /\ UNCHANGED <<up, poisoned, chall, principal, world, act, calls, late, lost,
                   faults, join, crashes>>

\* What the steps of the saga that touch only its own record leave alone.
OnlyFire == UNCHANGED <<hireVars, join, crashes>>

\* An app may exist that nobody can clean up: the request waits for an
\* administrator.  A request that was interrupted here is left as it is.
ResumeUnknown ==
    /\ Live /\ fpc = "resume" /\ Waiting
    /\ fpc' = IF fire.eff["credential_destroy"] = "none" THEN "unknown" ELSE "idle"
    /\ UNCHANGED fire /\ OnlyFire

ReportUnknown ==
    /\ Live /\ fpc = "unknown"
    /\ LET s == fire.eff["credential_destroy"] IN
       \/ s = "none" /\ SetEffect("credential_destroy", "prepared") /\ UNCHANGED fpc
       \/ s = "prepared" /\ SetEffect("credential_destroy", "executing") /\ UNCHANGED fpc
       \/ /\ s = "executing" /\ SetEffect("credential_destroy", "action_required")
          /\ fpc' = "mark"
    /\ OnlyFire

\* The loop of _resume() is at effect e.
AtEffect(e) ==
    /\ Live /\ fpc = "resume" /\ ~Waiting
    /\ Current(e)
    /\ ~(Real /\ e = "archive_move" /\ principal = "bound")

PrepareEffect ==
    \E e \in FireEffects :
        /\ AtEffect(e) /\ fire.eff[e] = "none"
        /\ SetEffect(e, "prepared") /\ UNCHANGED fpc /\ OnlyFire

BeginEffect ==
    \E e \in FireEffects :
        /\ AtEffect(e) /\ fire.eff[e] = "prepared"
        /\ SetEffect(e, "executing")
        /\ fpc' = IF Skipped(e) THEN "resume" ELSE "run"
        /\ OnlyFire

\* An effect with nothing to clean up is committed unexecuted; one that was
\* EXECUTING when the process ended is only looked at.
SkipEffect ==
    \E e \in FireEffects :
        /\ AtEffect(e) /\ fire.eff[e] = "executing" /\ Skipped(e)
        /\ SetEffect(e, "committed") /\ UNCHANGED fpc /\ OnlyFire

\* Mutant: an interrupted effect is executed again.
ReconcileByRunning ==
    \E e \in FireEffects :
        /\ AtEffect(e) /\ fire.eff[e] = "executing" /\ ~Skipped(e)
        /\ fpc' = "run" /\ UNCHANGED fire /\ OnlyFire

ReconcileEffect ==
    \E e \in FireEffects :
        /\ AtEffect(e) /\ fire.eff[e] = "executing" /\ ~Skipped(e)
        /\ fpc' = "observe" /\ UNCHANGED fire /\ OnlyFire

\* The effect is executed; its exceptions are dropped.
RunEffect ==
    /\ Live /\ fpc = "run"
    /\ \E e \in FireEffects :
       /\ Current(e)
       /\ calls' = [calls EXCEPT ![e] = @ + 1]
       /\ \/ world' = world \ {Target[e]} /\ NoFault
          \/ UNCHANGED world /\ Fault
    /\ fpc' = "observe"
    /\ UNCHANGED <<up, hireFacts, act, admitted, late, lost, fire, join, crashes>>

\* Only what is seen to be gone is committed.
ObserveEffect ==
    /\ Live /\ fpc = "observe"
    /\ \E e \in FireEffects : Current(e) /\
       \/ /\ Target[e] \notin world /\ NoFault
          /\ SetEffect(e, "committed") /\ fpc' = "resume"
       \/ /\ IF Target[e] \in world THEN NoFault ELSE Fault
          /\ SetEffect(e, "action_required") /\ fpc' = "mark"
    /\ UNCHANGED <<up, hireFacts, world, act, admitted, calls, late, lost, join, crashes>>

\* mark_credential_destroyed(): also when an earlier process committed the effect.
MarkDestroyed ==
    /\ Live /\ fpc = "resume" /\ ~Waiting
    /\ Real /\ fire.eff["credential_destroy"] = "committed" /\ principal = "bound"
    /\ principal' = "destroyed" /\ quiet' = FALSE
    /\ UNCHANGED <<up, phase, poisoned, heff, disposed, chall, world, act, admitted,
                   calls, late, lost, faults, lifeVars>>

\* The second commit of _action_required().
MarkFired ==
    /\ Live /\ fpc = "mark"
    /\ phase' = IF phase = "archived" THEN phase ELSE "action_required"
    /\ fpc' = "idle" /\ quiet' = FALSE
    /\ UNCHANGED <<up, poisoned, heff, disposed, chall, principal, world, act, admitted,
                   calls, late, lost, faults, fire, join, crashes>>

\* mark_archived(): the employee and the request in one frame.
Archive ==
    /\ Live /\ fpc = "resume" /\ ~Waiting
    /\ Remaining = {}
    /\ phase' = "archived" /\ quiet' = FALSE
    /\ fire' = [fire EXCEPT !.phase = "archived"]
    /\ fpc' = "idle"
    /\ UNCHANGED <<up, poisoned, heff, disposed, chall, principal, world, act, admitted,
                   calls, late, lost, faults, join, crashes>>

\* /fire again: the effect that failed is looked at once more.
FireAgain ==
    /\ Live /\ fpc = "idle" /\ fire.phase = "action_required" /\ ~Waiting
    /\ \E e \in FireEffects :
        /\ fire.eff[e] = "action_required" /\ Target[e] \notin world
        /\ fire' = [fire EXCEPT !.eff[e] = "committed", !.phase = "retiring"]
    /\ fpc' = "resume"
    /\ OnlyFire

\* /fire --confirm-app-disposed.
Confirm ==
    /\ Live /\ fpc = "idle" /\ fire.phase = "action_required" /\ Waiting
    /\ phase = "action_required"
    /\ fire' = [fire EXCEPT !.eff["credential_destroy"] = "committed",
                            !.phase = "retiring", !.confirmed = TRUE]
    /\ fpc' = "resume"
    /\ OnlyFire

FireStep ==
    \/ ResumeUnknown \/ ReportUnknown \/ PrepareEffect \/ BeginEffect \/ SkipEffect
    \/ ReconcileEffect \/ RunEffect \/ ObserveEffect \/ MarkDestroyed \/ MarkFired
    \/ Archive
-----------------------------------------------------------------------------
\* What the world does besides.
World(w) ==
    /\ world' = w
    /\ UNCHANGED <<up, hireFacts, act, admitted, calls, lost, faults, fire, fpc, crashes>>

\* An attempt is dispatched to an active employee, and ends.
Work ==
    \/ /\ Live /\ phase = "active" /\ "work" \notin world
       /\ World(world \cup {"work"}) /\ UNCHANGED <<late, join>>
    \/ /\ Live /\ "work" \in world
       /\ World(world \ {"work"}) /\ UNCHANGED <<late, join>>

\* EmployeeMembershipService.mutate() resolves its authority, and adds the Bot
\* when the retirement may have come in between.
BeginJoin ==
    /\ Live /\ phase = "active" /\ ~join /\ "member" \notin world
    /\ join' = TRUE /\ World(world) /\ UNCHANGED late

Join ==
    /\ Live /\ join
    /\ join' = FALSE /\ Make("member")
    /\ UNCHANGED <<up, hireFacts, act, admitted, calls, lost, faults, fire, fpc, crashes>>

\* A cleanup that was reported unknown takes effect, or somebody does it by hand.
Settle ==
    /\ Live /\ fpc = "idle" /\ fire.phase = "action_required"
    /\ \E e \in FireEffects :
        /\ fire.eff[e] = "action_required" /\ Target[e] \in world
        /\ World(world \ {Target[e]})
    /\ UNCHANGED <<late, join>>

\* The process ends: its threads, the Channel worker and the attempts with it.
Crash ==
    /\ up = "up" /\ crashes < MaxCrashes
    /\ up' = "down" /\ crashes' = crashes + 1
    /\ act' = NoActivity /\ fpc' = "idle"
    /\ \E m \in IF join THEN {{}, {"member"}} ELSE {{}} :
        /\ world' = (world \ {"work", "channel"}) \cup m
        /\ late' = IF admitted THEN late \cup m ELSE late
    /\ join' = FALSE
    /\ UNCHANGED <<hireFacts, admitted, calls, lost, faults, fire>>

\* Mutants: recovery does not resume the retirement, or does not mark the employee.
RecoverNoResume ==
    /\ up = "down" /\ RecoverHire
    /\ fpc' = IF up' # "blocked" /\ fire.phase = "action_required" THEN "mark" ELSE "idle"
    /\ UNCHANGED <<world, admitted, calls, late, faults, fire, join, crashes>>

\* recover(): the hire first; then the retirement is resumed, or the employee
\* marked once more.
Recover ==
    /\ up = "down"
    /\ RecoverHire
    /\ fpc' = IF up' = "blocked" THEN "idle"
              ELSE CASE fire.phase = "retiring"        -> "resume"
                     [] fire.phase = "action_required" -> "mark"
                     [] OTHER                          -> "idle"
    /\ UNCHANGED <<world, admitted, calls, late, faults, fire, join, crashes>>

Hire == (HireStep \/ ChannelDown \/ Monitor) /\ UNCHANGED lifeVars

Next ==
    \/ Hire \/ Admit \/ FireStep \/ FireAgain \/ Confirm
    \/ Work \/ BeginJoin \/ Join \/ Settle \/ Crash \/ Recover

\* The loop, the monitor, the thread of the saga and the start of the process
\* go on; work, groups, commands, crashes and faults need not come.
Fairness ==
    /\ WF_vars(HireStep /\ UNCHANGED lifeVars)
    /\ WF_vars(Monitor /\ UNCHANGED lifeVars)
    /\ WF_vars(FireStep)
    /\ WF_vars(Recover)

Spec == Init /\ [][Next]_vars /\ Fairness
-----------------------------------------------------------------------------
EffectStates == {"none", "prepared", "executing", "committed", "action_required"}

\* Nothing goes on any more: the journal or the start of the process refuses.
Dead == poisoned \/ up = "blocked"

TypeOK ==
    /\ up \in {"up", "down", "blocked"}
    /\ phase \in Phases
    /\ poisoned \in BOOLEAN /\ disposed \in BOOLEAN /\ quiet \in BOOLEAN
    /\ admitted \in BOOLEAN /\ lost \in BOOLEAN /\ join \in BOOLEAN
    /\ heff \in [HireEffects -> EffectStates]
    /\ chall \in {"none", "issued", "consumed", "reopened"}
    /\ principal \in {"none", "bound", "destroyed"}
    /\ world \subseteq Things /\ late \subseteq Things
    /\ act \in [pc : Pcs, launch : 0..1, tries : 0..Retries, rec : BOOLEAN]
    /\ calls \in [FireEffects \cup {"register"} -> Nat]
    /\ fire \in [phase : {"none", "retiring", "action_required", "archived"},
                 mode : {"none", "bound", "recoverable", "safe_abort", "external_unknown"},
                 confirmed : BOOLEAN, eff : [FireEffects -> EffectStates]]
    /\ fpc \in {"idle", "resume", "unknown", "run", "observe", "mark"}
    /\ faults \in 0..MaxFaults /\ crashes \in 0..MaxCrashes

\* Once a retirement is admitted no configuration, monitor or recovery brings
\* the employee back to a phase of the hire, in a process whose journal can be
\* replayed.  Where that ends (Dead) the code does bring it back:
\* _bind_principal() of a running activity commits CONFIGURING for a retiring
\* employee, and the frame that does so poisons the journal.
RetiredStaysRetired ==
    admitted => Dead \/ phase \in {"retiring", "action_required", "archived"}

\* An active employee has its principal, its secret and its commands, and its
\* Channel was READY in the newest generation.
ActiveIsEquipped ==
    phase = "active" =>
        /\ principal = "bound" /\ {"app", "secret", "slash"} \subseteq world
        /\ heff["slash"] = "committed" /\ heff["chan"] = "committed"

\* An external call whose outcome is not known is never made again, whatever
\* crashes in between: no second app, no second cleanup.
CalledOnce == \A c \in DOMAIN calls : calls[c] <= 1

\* The secret is destroyed only when work, commands, Channel and groups are
\* gone, except for what was made after the retirement was admitted.
CleanedBeforeDestroyed ==
    Real /\ "secret" \notin world =>
        world \cap {"work", "slash", "channel", "member"} \subseteq late

\* An archived employee leaves nothing behind but its app, what was made after
\* the retirement was admitted, and the secret of an app nobody could clean up.
ArchivedIsClean ==
    fire.phase = "archived" =>
        world \ late \subseteq {"app"} \cup (IF Real THEN {} ELSE {"secret"})

\* An app that may exist and that no credential can reach is not forgotten: the
\* employee is archived only after an administrator confirmed its disposition.
AppNotForgotten ==
    fire.phase = "archived" /\ "app" \in world \ late => Real \/ fire.confirmed

\* A retirement ends or is reported, but for the request that a crash left
\* between the effect and its report.
FireSettles ==
    fire.phase = "retiring" ~>
        \/ fire.phase \in {"archived", "action_required"} \/ Dead
        \/ Waiting /\ fire.eff["credential_destroy"] \in {"prepared", "executing"}

\* A cleanup that failed is shown on the employee, also when the process ended
\* between the two commits.
FailureShown ==
    fire.phase = "action_required" ~>
        phase = "action_required" \/ fire.phase # "action_required" \/ Dead

\* What the records say of an employee is true of the world: an active one can
\* work, a destroyed credential has nothing left to clean up, an archived
\* employee leaves nothing that nobody knows of.
WorldMatches ==
    /\ TypeOK
    /\ ActiveIsEquipped
    /\ CleanedBeforeDestroyed
    /\ ArchivedIsClean
    /\ AppNotForgotten

\* A retirement ends, and what it could not clean up is shown.
FireReported == FireSettles /\ FailureShown

\* A hire gets the employee ready or is reported, unless an effect was disposed
\* before or the monitor's resubmission was dropped.
HireSettles ==
    phase \in {"provisioning", "configuring", "validating"} /\ ~disposed /\ ~lost ~>
        \/ phase \in {"ready", "active", "action_required"}
        \/ admitted \/ disposed \/ lost \/ Dead

\* "Recovery must not keep global hire admission closed forever because one
\* employee cannot be reconciled."
RecoveryNotBlocked == up # "blocked"
===============================================================================
