------------------------ MODULE EmployeeLifecycleProofs ------------------------
(***************************************************************************)
(* Proofs about EmployeeLifecycle, and EmployeeHire under it, for any      *)
(* number of retries, faults and crashes.                                  *)
(*                                                                         *)
(* A hire and a retirement run in threads of their own, each call outside  *)
(* stands between two commits, and either can end the process.  What the   *)
(* runs check of the records is therefore not inductive.  The invariant    *)
(* adds where the threads can be for what the records say: Registered and  *)
(* Equipped for the activity of the hire, FireAt and EffectsOrdered for    *)
(* the thread of the saga, Cleaned for what its committed effects left of  *)
(* the world.                                                              *)
(***************************************************************************)
EXTENDS EmployeeLifecycle, TLAPS

\* The phases in which the principal of the employee is bound, and where the
\* activity is then.
Bound     == {"configuring", "validating", "ready", "active"}
Configs   == {"slash", "slashRun", "slashDone", "chan", "chanRun", "chanDone",
              "chanFailed", "verify", "activate"}
Removable == {"work", "slash", "channel", "member"}

\* A retired employee has no phase of the hire, but for the frame that poisoned
\* the journal.
Retired ==
    admitted => \/ phase \in {"retiring", "action_required", "archived"}
                \/ poisoned /\ phase = "configuring"

\* The registrar is called only for an effect that has just become EXECUTING,
\* and there is an app only after that.
Registered ==
    /\ heff["reg"] \in {"none", "prepared"} => calls["register"] = 0 /\ "app" \notin world
    /\ act.pc = "register" => calls["register"] = 0
    /\ act.pc \in {"register", "registered", "unregistered"} => heff["reg"] \notin {"none", "prepared"}
    /\ calls["register"] <= 1
    /\ (heff["reg"] = "committed" \/ phase \in Bound
        \/ act.pc \in {"registered", "store", "put", "receipt", "bind"}) => "app" \in world

\* Until a retirement is admitted nothing of what was made is removed.
Equipped ==
    /\ phase \in Bound => principal = "bound"
    /\ phase \in {"ready", "active"} =>
          /\ act.pc \in {"activate", "idle", "notify"} /\ (phase = "active" => act.pc # "activate")
          /\ heff["slash"] = "committed" /\ heff["chan"] = "committed"
    /\ ~admitted =>
          /\ (heff["store"] = "committed" \/ principal = "bound" \/ act.pc \in {"receipt", "bind"})
                => "secret" \in world
          /\ (heff["slash"] = "committed" \/ act.pc = "slashDone") => "slash" \in world
          /\ act.pc \in Configs \/ join \/ world \cap Removable # {} => principal = "bound"

\* The thread of the saga is where the record of the retirement says.
FireAt ==
    /\ IF admitted THEN fire.phase # "none" /\ fire.mode # "none"
       ELSE fire.phase = "none" /\ fire.mode = "none" /\ \A e \in FireEffects : fire.eff[e] = "none"
    /\ fpc \in {"resume", "unknown", "run", "observe"} => fire.phase = "retiring"
    /\ fpc = "mark" => fire.phase = "action_required"
    /\ fpc = "unknown" => Waiting
    /\ fire.phase = "archived" => \A e \in FireEffects : fire.eff[e] = "committed"
    /\ fire.phase = "archived" /\ fire.mode = "external_unknown" => fire.confirmed

\* Effects are begun in their order and executed once; where nothing is
\* executed only the last one is.
EffectsOrdered ==
    /\ \A e \in FireEffects : calls[e] <= 1
    /\ \A e \in FireEffects : fire.eff[e] \in {"none", "prepared"} => calls[e] = 0
    /\ fpc \in {"run", "observe"} =>
          \E e \in FireEffects : /\ Current(e) /\ fire.eff[e] = "executing" /\ ~Skipped(e)
                                 /\ fpc = "run" => calls[e] = 0
    /\ Real => \A i, j \in DOMAIN FIRE_EFFECT_ORDER :
                  i < j /\ fire.eff[FIRE_EFFECT_ORDER[j]] # "none"
                     => fire.eff[FIRE_EFFECT_ORDER[i]] = "committed"

\* What a committed effect removed is gone, unless it was made again after the
\* retirement was admitted, and so is what there never was.
Gone(x) == x \notin world \ late

Cleaned ==
    /\ \A e \in FireEffects : ~Skipped(e) /\ fire.eff[e] = "committed" => Gone(Target[e])
    /\ Real /\ "secret" \notin world => fire.eff["credential_destroy"] \notin {"none", "prepared"}
    /\ admitted /\ ~Real => \A x \in Removable : Gone(x)
    /\ fire.mode = "safe_abort" => Gone("app")

\* The inductive invariant.
LifeInv ==
    /\ TypeOK /\ Retired /\ Registered /\ Equipped /\ FireAt /\ EffectsOrdered /\ Cleaned

-----------------------------------------------------------------------------
(***************************************************************************)
(* The values the records are made of                                      *)
(***************************************************************************)

Acts  == [pc : Pcs, launch : 0..1, tries : 0..Retries, rec : BOOLEAN]
Heffs == [HireEffects -> EffectStates]
Fires == [phase : {"none", "retiring", "action_required", "archived"},
          mode : {"none", "bound", "recoverable", "safe_abort", "external_unknown"},
          confirmed : BOOLEAN, eff : [FireEffects -> EffectStates]]

\* FIRE_EFFECT_ORDER has six effects, each with its own target.
LEMMA Order ==
    /\ DOMAIN FIRE_EFFECT_ORDER = 1..6
    /\ FIRE_EFFECT_ORDER[1] = "execution_quiesce" /\ FIRE_EFFECT_ORDER[2] = "slash_cleanup"
    /\ FIRE_EFFECT_ORDER[3] = "channel_stop" /\ FIRE_EFFECT_ORDER[4] = "membership_cleanup"
    /\ FIRE_EFFECT_ORDER[5] = "credential_destroy" /\ FIRE_EFFECT_ORDER[6] = "archive_move"
    /\ FireEffects = {"execution_quiesce", "slash_cleanup", "channel_stop", "membership_cleanup",
                      "credential_destroy", "archive_move"}
    /\ "register" \notin FireEffects
    /\ \A i, j \in 1..6 : FIRE_EFFECT_ORDER[i] = FIRE_EFFECT_ORDER[j] => i = j
  <1>1. /\ DOMAIN FIRE_EFFECT_ORDER = 1..6
        /\ FIRE_EFFECT_ORDER[1] = "execution_quiesce" /\ FIRE_EFFECT_ORDER[2] = "slash_cleanup"
        /\ FIRE_EFFECT_ORDER[3] = "channel_stop" /\ FIRE_EFFECT_ORDER[4] = "membership_cleanup"
        /\ FIRE_EFFECT_ORDER[5] = "credential_destroy" /\ FIRE_EFFECT_ORDER[6] = "archive_move"
    BY DEF FIRE_EFFECT_ORDER
  <1>2. 1..6 = {1, 2, 3, 4, 5, 6}
    OBVIOUS
  <1>3. FireEffects = {"execution_quiesce", "slash_cleanup", "channel_stop", "membership_cleanup",
                       "credential_destroy", "archive_move"}
    BY <1>1, <1>2 DEF FireEffects, Range
  <1>4. \A i, j \in {1, 2, 3, 4, 5, 6} : FIRE_EFFECT_ORDER[i] = FIRE_EFFECT_ORDER[j] => i = j
    BY <1>1
  <1>5. QED
    BY <1>1, <1>2, <1>3, <1>4

\* Every effect of a retirement removes another thing.
LEMMA Targets ==
    /\ Target["execution_quiesce"] = "work" /\ Target["slash_cleanup"] = "slash"
    /\ Target["channel_stop"] = "channel" /\ Target["membership_cleanup"] = "member"
    /\ Target["credential_destroy"] = "secret" /\ Target["archive_move"] = "dir"
  BY DEF Target

\* The effect that the loop of _resume() is at is the first that is not
\* committed.
LEMMA CurrentFacts ==
    ASSUME NEW e \in FireEffects, Current(e)
    PROVE  /\ fire.eff[e] # "committed"
           /\ \A i, j \in DOMAIN FIRE_EFFECT_ORDER :
                 e = FIRE_EFFECT_ORDER[j] /\ i < j => fire.eff[FIRE_EFFECT_ORDER[i]] = "committed"
           /\ \A d \in FireEffects : Current(d) => d = e
  <1>1. PICK k \in Remaining : e = FIRE_EFFECT_ORDER[k] /\ \A j \in Remaining : k <= j
    BY DEF Current
  <1>2. k \in 1..6 /\ fire.eff[e] # "committed"
    BY <1>1, Order DEF Remaining
  <1>3. \A d \in FireEffects : Current(d) => d = e
    <2> SUFFICES ASSUME NEW d \in FireEffects, Current(d) PROVE d = e
      OBVIOUS
    <2>1. PICK l \in Remaining : d = FIRE_EFFECT_ORDER[l] /\ \A j \in Remaining : l <= j
      BY DEF Current
    <2>2. l \in 1..6 /\ k <= l /\ l <= k
      BY <1>1, <2>1, Order DEF Remaining
    <2>3. QED
      BY <1>1, <1>2, <2>1, <2>2
  <1>4. ASSUME NEW i \in DOMAIN FIRE_EFFECT_ORDER, NEW j \in DOMAIN FIRE_EFFECT_ORDER,
               e = FIRE_EFFECT_ORDER[j], i < j
        PROVE  fire.eff[FIRE_EFFECT_ORDER[i]] = "committed"
    <2>1. i \in 1..6 /\ j \in 1..6
      BY Order
    <2>2. j = k
      BY <1>1, <1>2, <1>4, <2>1, Order
    <2>3. i \notin Remaining
      BY <1>1, <1>2, <1>4, <2>1, <2>2
    <2>4. QED
      BY <2>3 DEF Remaining
  <1>5. QED
    BY <1>2, <1>3, <1>4

\* What the steps make of an activity.
LEMMA ActTyped ==
    ASSUME act \in Acts
    PROVE  /\ After(act) \in Acts /\ After(act).pc \in {"idle", "notify"}
           /\ \A d : Raised(act, d) \in Acts /\ Raised(act, d).pc \in {"retry", "idle", "notify"}
           /\ \A x \in Pcs : [act EXCEPT !.pc = x] \in Acts /\ [act EXCEPT !.pc = x].pc = x
           /\ \A l \in 0..1 : /\ [act EXCEPT !.pc = "slash", !.launch = l] \in Acts
                              /\ [act EXCEPT !.pc = "slash", !.launch = l].pc = "slash"
           /\ NoActivity \in Acts /\ NoActivity.pc = "idle"
           /\ \A b \in BOOLEAN : Activity(b) \in Acts /\ Activity(b).pc = "start"
  <1>1. 0 \in 0..1 /\ 0 \in 0..Retries /\ Retries \in 0..Retries /\ {"idle", "notify", "retry", "start", "slash"} \subseteq Pcs
    BY HireAssumption DEF Pcs
  <1>2. NoActivity \in Acts /\ NoActivity.pc = "idle"
    BY <1>1 DEF NoActivity, Acts
  <1>3. \A b \in BOOLEAN : Activity(b) \in Acts /\ Activity(b).pc = "start"
    BY <1>1 DEF Activity, Acts
  <1>4. \A x \in Pcs : [act EXCEPT !.pc = x] \in Acts /\ [act EXCEPT !.pc = x].pc = x
    BY DEF Acts
  <1>5. \A l \in 0..1 : /\ [act EXCEPT !.pc = "slash", !.launch = l] \in Acts
                        /\ [act EXCEPT !.pc = "slash", !.launch = l].pc = "slash"
    BY <1>1 DEF Acts
  <1>6. After(act) \in Acts /\ After(act).pc \in {"idle", "notify"}
    BY <1>1, <1>2, <1>4 DEF After
  <1>7. \A d : Raised(act, d) \in Acts /\ Raised(act, d).pc \in {"retry", "idle", "notify"}
    BY <1>1, <1>4, <1>6 DEF Raised
  <1>8. QED
    BY <1>2, <1>3, <1>4, <1>5, <1>6, <1>7

\* What the steps make of the hire's effects.
LEMMA HeffTyped ==
    ASSUME heff \in Heffs
    PROVE  /\ Dispose(heff) \in Heffs
           /\ \A e \in HireEffects, s \in EffectStates : [heff EXCEPT ![e] = s] \in Heffs
           /\ Attempt \in Heffs
           /\ \A s \in EffectStates : [Attempt EXCEPT !["slash"] = s] \in Heffs
           /\ \A e \in HireEffects : heff[e] # "action_required" /\ Dispose(heff)[e] # heff[e]
                                        => Dispose(heff)[e] = "action_required"
           /\ Attempt["reg"] = heff["reg"] /\ Attempt["store"] = heff["store"]
  <1>1. Dispose(heff) \in Heffs
    BY DEF Dispose, Heffs, EffectStates, HireEffects
  <1>2. \A e \in HireEffects, s \in EffectStates : [heff EXCEPT ![e] = s] \in Heffs
    BY DEF Heffs
  <1>3. Attempt \in Heffs /\ Attempt["reg"] = heff["reg"] /\ Attempt["store"] = heff["store"]
    BY DEF Attempt, Heffs, EffectStates, HireEffects
  <1>4. \A s \in EffectStates : [Attempt EXCEPT !["slash"] = s] \in Heffs
    BY <1>3 DEF Heffs
  <1>5. \A e \in HireEffects : heff[e] # "action_required" /\ Dispose(heff)[e] # heff[e]
                                  => Dispose(heff)[e] = "action_required"
    BY DEF Dispose, Heffs
  <1>6. QED
    BY <1>1, <1>2, <1>3, <1>4, <1>5

-----------------------------------------------------------------------------
(***************************************************************************)
(* The steps of the hire                                                   *)
(***************************************************************************)

\* What a step of the hire can do to the world and to the retirement.
HireMove ==
    /\ UNCHANGED lifeVars /\ admitted' = admitted
    /\ \A e \in FireEffects : calls'[e] = calls[e]
    /\ \/ world' = world /\ late' = late
       \/ world' = world \ {"channel"} /\ late' = late
       \/ \E x \in {"app", "secret", "slash", "channel"} : Make(x)

\* The part of the invariant that is about the hire.
HireInv == TypeOK /\ Retired /\ Registered /\ Equipped

\* The types of the facts the journal keeps of a hire.
FactsOK ==
    /\ phase \in Phases /\ heff \in Heffs
    /\ poisoned \in BOOLEAN /\ disposed \in BOOLEAN /\ quiet \in BOOLEAN
    /\ chall \in {"none", "issued", "consumed", "reopened"}
    /\ principal \in {"none", "bound", "destroyed"}

\* TypeOK taken apart, the records of the hire first.
LEMMA TypeParts ==
    TypeOK => /\ FactsOK /\ act \in Acts /\ fire \in Fires
               /\ up \in {"up", "down", "blocked"}
               /\ admitted \in BOOLEAN /\ lost \in BOOLEAN /\ join \in BOOLEAN
               /\ world \subseteq Things /\ late \subseteq Things
               /\ calls \in [FireEffects \cup {"register"} -> Nat]
               /\ fpc \in {"idle", "resume", "unknown", "run", "observe", "mark"}
               /\ faults \in 0..MaxFaults /\ crashes \in 0..MaxCrashes
  BY DEF TypeOK, FactsOK, Acts, Heffs, Fires

\* The fields of the activity of a hire.
LEMMA ActParts ==
    ASSUME act \in Acts
    PROVE  act.pc \in Pcs /\ act.launch \in 0..1 /\ act.tries \in 0..Retries /\ act.rec \in BOOLEAN
  BY DEF Acts

\* The commit of an effect's transition moves that effect only.
LEMMA TransitionFacts ==
    ASSUME FactsOK
    PROVE  \A e \in HireEffects, s \in EffectStates :
              Transition(e, s) =>
                 /\ FactsOK' /\ UNCHANGED <<phase, poisoned, chall, principal>>
                 /\ heff'[e] = s /\ \A d \in HireEffects \ {e} : heff'[d] = heff[d]
  <1> SUFFICES ASSUME NEW e \in HireEffects, NEW s \in EffectStates, Transition(e, s)
               PROVE  /\ FactsOK' /\ UNCHANGED <<phase, poisoned, chall, principal>>
                      /\ heff'[e] = s /\ \A d \in HireEffects \ {e} : heff'[d] = heff[d]
    OBVIOUS
  <1>1. /\ UNCHANGED <<phase, poisoned, chall, principal>> /\ heff' = [heff EXCEPT ![e] = s]
        /\ quiet' = FALSE /\ disposed' = (disposed \/ s = "action_required")
    BY DEF Transition
  <1>2. heff' \in Heffs /\ heff'[e] = s /\ \A d \in HireEffects \ {e} : heff'[d] = heff[d]
    BY <1>1 DEF FactsOK, Heffs
  <1>3. disposed' \in BOOLEAN
    BY <1>1
  <1>4. QED
    BY <1>1, <1>2, <1>3 DEF FactsOK

\* _mark_action_required_sync() disposes at most that effect.
LEMMA MarkFacts ==
    ASSUME FactsOK, act \in Acts
    PROVE  \A e \in HireEffects :
              MarkActionRequired(e) =>
                 /\ FactsOK' /\ act' \in Acts /\ act'.pc \in {"retry", "idle", "notify"}
                 /\ UNCHANGED <<poisoned, chall, principal>>
                 /\ phase' \in {"action_required", "archived"} /\ (phase' = phase \/ phase' = "action_required")
                 /\ \A d \in HireEffects : heff'[d] = heff[d] \/ heff'[d] = "action_required"
  <1> SUFFICES ASSUME NEW e \in HireEffects, MarkActionRequired(e)
               PROVE  /\ FactsOK' /\ act' \in Acts /\ act'.pc \in {"retry", "idle", "notify"}
                      /\ UNCHANGED <<poisoned, chall, principal>>
                      /\ phase' \in {"action_required", "archived"} /\ (phase' = phase \/ phase' = "action_required")
                      /\ \A d \in HireEffects : heff'[d] = heff[d] \/ heff'[d] = "action_required"
    OBVIOUS
  <1>1. /\ UNCHANGED <<poisoned, chall, principal>> /\ quiet' = FALSE
        /\ heff' = [heff EXCEPT ![e] = IF e \in Open(heff) THEN "action_required" ELSE heff[e]]
        /\ phase' = IF phase = "archived" THEN phase ELSE "action_required"
        /\ disposed' = (disposed \/ e \in Open(heff)) /\ act' = Raised(act, disposed')
    BY DEF MarkActionRequired, FactsOK, Heffs
  <1>2. /\ heff' \in Heffs
        /\ \A d \in HireEffects : heff'[d] = heff[d] \/ heff'[d] = "action_required"
    BY <1>1 DEF FactsOK, Heffs, EffectStates
  <1>3. disposed' \in BOOLEAN
    BY <1>1
  <1>4. act' \in Acts /\ act'.pc \in {"retry", "idle", "notify"}
    BY <1>1, ActTyped
  <1>5. phase' \in Phases
    BY <1>1 DEF Phases
  <1>6. QED
    BY <1>1, <1>2, <1>3, <1>4, <1>5 DEF FactsOK

\* Disposing of the open effects leaves the others.
LEMMA DisposeFacts ==
    ASSUME heff \in Heffs
    PROVE  /\ Dispose(heff) \in Heffs
           /\ \A e \in HireEffects :
                 \/ Dispose(heff)[e] = heff[e]
                 \/ heff[e] \in {"prepared", "executing"} /\ Dispose(heff)[e] = "action_required"
  BY DEF Dispose, Open, Heffs, EffectStates

\* The types of what no step of the hire touches are kept.
LEMMA TypeKept ==
    ASSUME TypeOK, FactsOK', act' \in Acts, lost' \in BOOLEAN,
           world' \subseteq Things, late' \subseteq Things,
           calls' \in [FireEffects \cup {"register"} -> Nat], faults' \in 0..MaxFaults,
           UNCHANGED <<up, admitted, lifeVars>>
    PROVE  TypeOK'
  BY DEF TypeOK, FactsOK, Acts, Heffs, lifeVars

\* What almost every step of the hire has in common: it makes nothing, and it
\* claims no more than the step before it made.
Kept ==
    /\ heff'["reg"] \in {"none", "prepared"} => heff["reg"] \in {"none", "prepared"}
    /\ heff'["reg"] = "committed" => heff["reg"] = "committed" \/ act.pc = "registered"
    /\ heff'["store"] = "committed" => heff["store"] = "committed" \/ act.pc = "receipt"
    /\ heff'["slash"] = "committed" => heff["slash"] = "committed" \/ act.pc = "slashDone"
    /\ act'.pc \notin {"register", "registered", "unregistered", "slashDone"}
    /\ act'.pc \in {"store", "put", "receipt", "bind"} =>
          act.pc \in {"registered", "store", "put", "receipt", "bind"}
    /\ act'.pc \in {"receipt", "bind"} => act.pc \in {"receipt", "bind"}
    /\ act'.pc \in Configs => act.pc \in Configs \/ phase \in Bound \/ principal' = "bound"
    /\ phase' \in Bound => (phase \in Bound \/ act.pc = "bind") /\ principal' = "bound"
    /\ phase' \in {"ready", "active"} =>
          /\ act'.pc \in {"activate", "idle", "notify"} /\ (phase' = "active" => act'.pc # "activate")
          /\ heff'["slash"] = "committed" /\ heff'["chan"] = "committed"
    /\ principal' = principal \/ (act.pc = "bind" /\ principal' = "bound")
    /\ world' = world \/ world' = world \ {"channel"}
    /\ UNCHANGED <<calls, admitted, join>>

\* A step that makes nothing and claims no more than was made keeps both parts
\* of the invariant that are about the hire.
LEMMA KeptSafe ==
    ASSUME Registered, Equipped, Kept
    PROVE  Registered' /\ Equipped'
  <1>1. Registered'
    BY DEF Registered, Kept, Bound
  <1>2. Equipped'
    <2>1. UNCHANGED <<admitted, join>>
      BY DEF Kept
    <2>2. (phase \in Bound => principal = "bound")'
      BY DEF Kept
    <2>3. ASSUME ~admitted
          PROVE  /\ (heff'["store"] = "committed" \/ principal' = "bound" \/ act'.pc \in {"receipt", "bind"})
                       => "secret" \in world'
                 /\ (heff'["slash"] = "committed" \/ act'.pc = "slashDone") => "slash" \in world'
      BY <2>3 DEF Equipped, Kept
    <2>4. ASSUME ~admitted, act'.pc \in Configs \/ join \/ world' \cap Removable # {}
          PROVE  principal' = "bound"
      <3>1. world' \subseteq world
        BY DEF Kept
      <3>2. CASE world' \cap Removable # {} \/ join
        BY <2>4, <3>1, <3>2 DEF Equipped, Kept
      <3>3. CASE act'.pc \in Configs
        BY <2>4, <3>3 DEF Equipped, Kept
      <3>4. QED
        BY <2>4, <3>2, <3>3
    <2>5. QED
      BY <2>1, <2>2, <2>3, <2>4 DEF Equipped, Kept
  <1>3. QED
    BY <1>1, <1>2

\* Where the activity goes.
LEMMA Paths ==
    ASSUME act \in Acts
    PROVE  /\ \A d : act' = Raised(act, d) => act' \in Acts /\ act'.pc \in {"retry", "idle", "notify"}
           /\ \A d : LaunchFailed(d) => act' \in Acts /\ act'.pc \in {"slash", "retry", "idle", "notify"}
           /\ act' = After(act) => act' \in Acts /\ act'.pc \in {"idle", "notify"}
           /\ \A x \in Pcs : Go(x) => act' \in Acts /\ act'.pc = x
  <1>1. 1 \in 0..1 /\ "slash" \in Pcs
    BY DEF Pcs
  <1>2. \A d : LaunchFailed(d) => act' \in Acts /\ act'.pc \in {"slash", "retry", "idle", "notify"}
    BY <1>1, ActTyped DEF LaunchFailed
  <1>3. QED
    BY <1>2, ActTyped DEF Go

\* _configure_sync() looks at the phase of the employee and says where to go on.
LEMMA ConfigureSafe ==
    ASSUME HireInv, Configure, UNCHANGED lifeVars
    PROVE  HireInv' /\ HireMove
  <1>t. TypeOK /\ FactsOK /\ act \in Acts /\ heff \in Heffs /\ faults \in 0..MaxFaults
    BY TypeParts DEF HireInv, FactsOK
  <1>h. Retired /\ Registered /\ Equipped
    BY DEF HireInv
  <1>e. HireEffects = {"reg", "store", "slash", "chan"} /\ EffectStates = {"none", "prepared", "executing", "committed", "action_required"}
    BY DEF HireEffects, EffectStates
  <1>1. FactsOK'
    BY <1>t, <1>e DEF Configure, At, Live, Same, NoFacts, NoWorld, NoFault, hireFacts, FactsOK, Phases
  <1>2. act' \in Acts /\ act'.pc \in {"prov", "slash", "idle", "notify"} /\ (act'.pc = "slash" => phase \in Bound)
    BY <1>t, <1>e, ActTyped, ActParts, Paths DEF Configure, At, Live, Same, NoFacts, NoWorld, NoFault, hireFacts, Bound, Pcs
  <1>3. TypeOK'
    <2>1. UNCHANGED <<up, admitted, lifeVars>> /\ lost' \in BOOLEAN
      BY <1>t DEF Configure, At, Live, Same, NoFacts, NoWorld, NoFault, hireFacts, TypeOK
    <2>2. calls' \in [FireEffects \cup {"register"} -> Nat] /\ faults' \in 0..MaxFaults
      BY <1>t, HireAssumption DEF Configure, At, Live, Same, NoFacts, NoWorld, NoFault, hireFacts, TypeOK
    <2>3. world' \subseteq Things /\ late' \subseteq Things
      BY <1>t DEF Configure, At, Live, Same, NoFacts, NoWorld, NoFault, hireFacts, TypeOK, Things
    <2>4. QED
      BY <1>t, <1>1, <1>2, <2>1, <2>2, <2>3, TypeKept
  <1>4. Retired'
    BY <1>h, <1>t, <1>e DEF Configure, At, Live, Same, NoFacts, NoWorld, NoFault, hireFacts, Retired
  <1>5. Kept
    BY <1>h, <1>t, <1>e, <1>2 DEF Configure, At, Live, Same, NoFacts, NoWorld, NoFault, hireFacts, Kept, Equipped, Bound, Configs, lifeVars
  <1>6. Registered' /\ Equipped'
    BY <1>h, <1>5, KeptSafe
  <1>7. HireMove
    BY <1>t, Order DEF Configure, At, Live, Same, NoFacts, NoWorld, NoFault, hireFacts, HireMove, TypeOK, Make
  <1>8. QED
    BY <1>3, <1>4, <1>5, <1>6, <1>7 DEF HireInv

\* Preparing the registration makes nothing outside.
LEMMA ProvisionSafe ==
    ASSUME HireInv, Provision, UNCHANGED lifeVars
    PROVE  HireInv' /\ HireMove
  <1>t. TypeOK /\ FactsOK /\ act \in Acts /\ heff \in Heffs /\ faults \in 0..MaxFaults
    BY TypeParts DEF HireInv, FactsOK
  <1>h. Retired /\ Registered /\ Equipped
    BY DEF HireInv
  <1>e. HireEffects = {"reg", "store", "slash", "chan"} /\ EffectStates = {"none", "prepared", "executing", "committed", "action_required"}
    BY DEF HireEffects, EffectStates
  <1>1. FactsOK'
    BY <1>t, <1>e, TransitionFacts, MarkFacts DEF Provision, At, Live, Same, NoFacts, NoWorld, NoFault, hireFacts, FactsOK, Phases
  <1>2. act' \in Acts /\ act'.pc \in {"prepared", "retry", "idle", "notify"}
    BY <1>t, <1>e, Paths, MarkFacts DEF Provision, At, Live, Same, NoFacts, NoWorld, NoFault, hireFacts, Bound, Pcs
  <1>3. TypeOK'
    <2>1. UNCHANGED <<up, admitted, lifeVars>> /\ lost' \in BOOLEAN
      BY <1>t DEF Provision, At, Live, Same, NoFacts, NoWorld, NoFault, hireFacts, TypeOK
    <2>2. calls' \in [FireEffects \cup {"register"} -> Nat] /\ faults' \in 0..MaxFaults
      BY <1>t, HireAssumption DEF Provision, At, Live, Same, NoFacts, NoWorld, NoFault, hireFacts, TypeOK
    <2>3. world' \subseteq Things /\ late' \subseteq Things
      BY <1>t DEF Provision, At, Live, Same, NoFacts, NoWorld, NoFault, hireFacts, TypeOK, Things
    <2>4. QED
      BY <1>t, <1>1, <1>2, <2>1, <2>2, <2>3, TypeKept
  <1>4. Retired'
    BY <1>h, <1>t, <1>e, TransitionFacts, MarkFacts DEF Provision, At, Live, Same, NoFacts, NoWorld, NoFault, hireFacts, Retired
  <1>5. Kept
    BY <1>h, <1>t, <1>e, <1>2, TransitionFacts, MarkFacts DEF Provision, At, Live, Same, NoFacts, NoWorld, NoFault, hireFacts, Kept, Equipped, Bound, Configs, lifeVars
  <1>6. Registered' /\ Equipped'
    BY <1>h, <1>5, KeptSafe
  <1>7. HireMove
    BY <1>t, Order DEF Provision, At, Live, Same, NoFacts, NoWorld, NoFault, hireFacts, HireMove, TypeOK, Make
  <1>8. QED
    BY <1>3, <1>4, <1>5, <1>6, <1>7 DEF HireInv

\* The registrar is reached from a registration that was only prepared: no earlier
\* thread can have called it.
LEMMA BeginRegisterSafe ==
    ASSUME HireInv, BeginRegister, UNCHANGED lifeVars
    PROVE  HireInv' /\ HireMove
  <1>t. TypeOK /\ FactsOK /\ act \in Acts /\ heff \in Heffs /\ faults \in 0..MaxFaults
    BY TypeParts DEF HireInv, FactsOK
  <1>h. Retired /\ Registered /\ Equipped
    BY DEF HireInv
  <1>e. HireEffects = {"reg", "store", "slash", "chan"} /\ EffectStates = {"none", "prepared", "executing", "committed", "action_required"}
    BY DEF HireEffects, EffectStates
  <1>1. FactsOK'
    BY <1>t, <1>e, TransitionFacts DEF BeginRegister, At, Live, Same, NoFacts, NoWorld, NoFault, hireFacts, FactsOK, Phases
  <1>2. act' \in Acts /\ act'.pc \in {"register", "retry", "idle", "notify"} /\ (act'.pc = "register" => heff["reg"] = "prepared" /\ Transition("reg", "executing"))
    BY <1>t, <1>e, Paths DEF BeginRegister, At, Live, Same, NoFacts, NoWorld, NoFault, hireFacts, Bound, Pcs
  <1>3. TypeOK'
    <2>1. UNCHANGED <<up, admitted, lifeVars>> /\ lost' \in BOOLEAN
      BY <1>t DEF BeginRegister, At, Live, Same, NoFacts, NoWorld, NoFault, hireFacts, TypeOK
    <2>2. calls' \in [FireEffects \cup {"register"} -> Nat] /\ faults' \in 0..MaxFaults
      BY <1>t, HireAssumption DEF BeginRegister, At, Live, Same, NoFacts, NoWorld, NoFault, hireFacts, TypeOK
    <2>3. world' \subseteq Things /\ late' \subseteq Things
      BY <1>t DEF BeginRegister, At, Live, Same, NoFacts, NoWorld, NoFault, hireFacts, TypeOK, Things
    <2>4. QED
      BY <1>t, <1>1, <1>2, <2>1, <2>2, <2>3, TypeKept
  <1>4. Retired'
    BY <1>h, <1>t, <1>e, TransitionFacts DEF BeginRegister, At, Live, Same, NoFacts, NoWorld, NoFault, hireFacts, Retired
  <1>5. Registered'
    BY <1>h, <1>t, <1>e, <1>2, TransitionFacts DEF BeginRegister, At, Live, Same, NoFacts, NoWorld, NoFault, hireFacts, Registered, Retired, Bound, TypeOK, Pcs
  <1>6. Equipped'
    BY <1>h, <1>t, <1>e, <1>2, TransitionFacts DEF BeginRegister, At, Live, Same, NoFacts, NoWorld, NoFault, hireFacts, Equipped, Retired, Bound, Configs, Removable, lifeVars, Pcs
  <1>7. HireMove
    BY <1>t, Order DEF BeginRegister, At, Live, Same, NoFacts, NoWorld, NoFault, hireFacts, HireMove, TypeOK, Make
  <1>8. QED
    BY <1>3, <1>4, <1>5, <1>6, <1>7 DEF HireInv

\* The one call of the registrar; the app it creates is there when it returns.
LEMMA RegisterSafe ==
    ASSUME HireInv, Register, UNCHANGED lifeVars
    PROVE  HireInv' /\ HireMove
  <1>t. TypeOK /\ FactsOK /\ act \in Acts /\ heff \in Heffs /\ faults \in 0..MaxFaults
    BY TypeParts DEF HireInv, FactsOK
  <1>h. Retired /\ Registered /\ Equipped
    BY DEF HireInv
  <1>e. HireEffects = {"reg", "store", "slash", "chan"} /\ EffectStates = {"none", "prepared", "executing", "committed", "action_required"}
    BY DEF HireEffects, EffectStates
  <1>1. FactsOK'
    BY <1>t, <1>e DEF Register, At, Live, Same, NoFacts, NoWorld, NoFault, hireFacts, Make, Fault, FactsOK, Phases
  <1>2. act' \in Acts /\ act'.pc \in {"registered", "unregistered"} /\ (act'.pc = "registered" => "app" \in world')
    BY <1>t, <1>e, Paths DEF Register, At, Live, Same, NoFacts, NoWorld, NoFault, hireFacts, Make, Fault, Bound, Pcs
  <1>3. TypeOK'
    <2>1. UNCHANGED <<up, admitted, lifeVars>> /\ lost' \in BOOLEAN
      BY <1>t DEF Register, At, Live, Same, NoFacts, NoWorld, NoFault, hireFacts, Make, Fault, TypeOK
    <2>2. calls' \in [FireEffects \cup {"register"} -> Nat] /\ faults' \in 0..MaxFaults
      BY <1>t, HireAssumption DEF Register, At, Live, Same, NoFacts, NoWorld, NoFault, hireFacts, Make, Fault, TypeOK
    <2>3. world' \subseteq Things /\ late' \subseteq Things
      BY <1>t DEF Register, At, Live, Same, NoFacts, NoWorld, NoFault, hireFacts, Make, Fault, TypeOK, Things
    <2>4. QED
      BY <1>t, <1>1, <1>2, <2>1, <2>2, <2>3, TypeKept
  <1>4. Retired'
    BY <1>h, <1>t, <1>e DEF Register, At, Live, Same, NoFacts, NoWorld, NoFault, hireFacts, Make, Fault, Retired
  <1>5. Registered'
    BY <1>h, <1>t, <1>e, <1>2 DEF Register, At, Live, Same, NoFacts, NoWorld, NoFault, hireFacts, Make, Fault, Registered, Retired, Bound, TypeOK, Pcs
  <1>6. Equipped'
    BY <1>h, <1>t, <1>e, <1>2 DEF Register, At, Live, Same, NoFacts, NoWorld, NoFault, hireFacts, Make, Fault, Equipped, Retired, Bound, Configs, Removable, lifeVars, Pcs
  <1>7. HireMove
    BY <1>t, Order DEF Register, At, Live, Same, NoFacts, NoWorld, NoFault, hireFacts, Make, Fault, HireMove, TypeOK, Make
  <1>8. QED
    BY <1>3, <1>4, <1>5, <1>6, <1>7 DEF HireInv

\* The registration is recorded as committed when there is an app.
LEMMA CommitRegisteredSafe ==
    ASSUME HireInv, CommitRegistered, UNCHANGED lifeVars
    PROVE  HireInv' /\ HireMove
  <1>t. TypeOK /\ FactsOK /\ act \in Acts /\ heff \in Heffs /\ faults \in 0..MaxFaults
    BY TypeParts DEF HireInv, FactsOK
  <1>h. Retired /\ Registered /\ Equipped
    BY DEF HireInv
  <1>e. HireEffects = {"reg", "store", "slash", "chan"} /\ EffectStates = {"none", "prepared", "executing", "committed", "action_required"}
    BY DEF HireEffects, EffectStates
  <1>1. FactsOK'
    BY <1>t, <1>e, TransitionFacts, MarkFacts DEF CommitRegistered, At, Live, Same, NoFacts, NoWorld, NoFault, hireFacts, FactsOK, Phases
  <1>2. act' \in Acts /\ act'.pc \in {"store", "retry", "idle", "notify"}
    BY <1>t, <1>e, Paths, MarkFacts DEF CommitRegistered, At, Live, Same, NoFacts, NoWorld, NoFault, hireFacts, Bound, Pcs
  <1>3. TypeOK'
    <2>1. UNCHANGED <<up, admitted, lifeVars>> /\ lost' \in BOOLEAN
      BY <1>t DEF CommitRegistered, At, Live, Same, NoFacts, NoWorld, NoFault, hireFacts, TypeOK
    <2>2. calls' \in [FireEffects \cup {"register"} -> Nat] /\ faults' \in 0..MaxFaults
      BY <1>t, HireAssumption DEF CommitRegistered, At, Live, Same, NoFacts, NoWorld, NoFault, hireFacts, TypeOK
    <2>3. world' \subseteq Things /\ late' \subseteq Things
      BY <1>t DEF CommitRegistered, At, Live, Same, NoFacts, NoWorld, NoFault, hireFacts, TypeOK, Things
    <2>4. QED
      BY <1>t, <1>1, <1>2, <2>1, <2>2, <2>3, TypeKept
  <1>4. Retired'
    BY <1>h, <1>t, <1>e, TransitionFacts, MarkFacts DEF CommitRegistered, At, Live, Same, NoFacts, NoWorld, NoFault, hireFacts, Retired
  <1>5. Kept
    BY <1>h, <1>t, <1>e, <1>2, TransitionFacts, MarkFacts DEF CommitRegistered, At, Live, Same, NoFacts, NoWorld, NoFault, hireFacts, Kept, Equipped, Bound, Configs, lifeVars
  <1>6. Registered' /\ Equipped'
    BY <1>h, <1>5, KeptSafe
  <1>7. HireMove
    BY <1>t, Order DEF CommitRegistered, At, Live, Same, NoFacts, NoWorld, NoFault, hireFacts, HireMove, TypeOK, Make
  <1>8. QED
    BY <1>3, <1>4, <1>5, <1>6, <1>7 DEF HireInv

\* A registration that raised is disposed of, not attempted again.
LEMMA RegisterFailedSafe ==
    ASSUME HireInv, RegisterFailed, UNCHANGED lifeVars
    PROVE  HireInv' /\ HireMove
  <1>t. TypeOK /\ FactsOK /\ act \in Acts /\ heff \in Heffs /\ faults \in 0..MaxFaults
    BY TypeParts DEF HireInv, FactsOK
  <1>h. Retired /\ Registered /\ Equipped
    BY DEF HireInv
  <1>e. HireEffects = {"reg", "store", "slash", "chan"} /\ EffectStates = {"none", "prepared", "executing", "committed", "action_required"}
    BY DEF HireEffects, EffectStates
  <1>1. FactsOK'
    BY <1>t, <1>e, MarkFacts DEF RegisterFailed, At, Live, Same, NoFacts, NoWorld, NoFault, hireFacts, FactsOK, Phases
  <1>2. act' \in Acts /\ act'.pc \in {"retry", "idle", "notify"}
    BY <1>t, <1>e, Paths, MarkFacts DEF RegisterFailed, At, Live, Same, NoFacts, NoWorld, NoFault, hireFacts, Bound, Pcs
  <1>3. TypeOK'
    <2>1. UNCHANGED <<up, admitted, lifeVars>> /\ lost' \in BOOLEAN
      BY <1>t DEF RegisterFailed, At, Live, Same, NoFacts, NoWorld, NoFault, hireFacts, TypeOK
    <2>2. calls' \in [FireEffects \cup {"register"} -> Nat] /\ faults' \in 0..MaxFaults
      BY <1>t, HireAssumption DEF RegisterFailed, At, Live, Same, NoFacts, NoWorld, NoFault, hireFacts, TypeOK
    <2>3. world' \subseteq Things /\ late' \subseteq Things
      BY <1>t DEF RegisterFailed, At, Live, Same, NoFacts, NoWorld, NoFault, hireFacts, TypeOK, Things
    <2>4. QED
      BY <1>t, <1>1, <1>2, <2>1, <2>2, <2>3, TypeKept
  <1>4. Retired'
    BY <1>h, <1>t, <1>e, MarkFacts DEF RegisterFailed, At, Live, Same, NoFacts, NoWorld, NoFault, hireFacts, Retired
  <1>5. Kept
    BY <1>h, <1>t, <1>e, <1>2, MarkFacts DEF RegisterFailed, At, Live, Same, NoFacts, NoWorld, NoFault, hireFacts, Kept, Equipped, Bound, Configs, lifeVars
  <1>6. Registered' /\ Equipped'
    BY <1>h, <1>5, KeptSafe
  <1>7. HireMove
    BY <1>t, Order DEF RegisterFailed, At, Live, Same, NoFacts, NoWorld, NoFault, hireFacts, HireMove, TypeOK, Make
  <1>8. QED
    BY <1>3, <1>4, <1>5, <1>6, <1>7 DEF HireInv

\* The credential effect is begun on the app that was registered.
LEMMA BeginStoreSafe ==
    ASSUME HireInv, BeginStore, UNCHANGED lifeVars
    PROVE  HireInv' /\ HireMove
  <1>t. TypeOK /\ FactsOK /\ act \in Acts /\ heff \in Heffs /\ faults \in 0..MaxFaults
    BY TypeParts DEF HireInv, FactsOK
  <1>h. Retired /\ Registered /\ Equipped
    BY DEF HireInv
  <1>e. HireEffects = {"reg", "store", "slash", "chan"} /\ EffectStates = {"none", "prepared", "executing", "committed", "action_required"}
    BY DEF HireEffects, EffectStates
  <1>1. FactsOK'
    BY <1>t, <1>e, TransitionFacts DEF BeginStore, At, Live, Same, NoFacts, NoWorld, NoFault, hireFacts, FactsOK, Phases
  <1>2. act' \in Acts /\ act'.pc \in {"store", "put", "retry", "idle", "notify"}
    BY <1>t, <1>e, Paths DEF BeginStore, At, Live, Same, NoFacts, NoWorld, NoFault, hireFacts, Bound, Pcs
  <1>3. TypeOK'
    <2>1. UNCHANGED <<up, admitted, lifeVars>> /\ lost' \in BOOLEAN
      BY <1>t DEF BeginStore, At, Live, Same, NoFacts, NoWorld, NoFault, hireFacts, TypeOK
    <2>2. calls' \in [FireEffects \cup {"register"} -> Nat] /\ faults' \in 0..MaxFaults
      BY <1>t, HireAssumption DEF BeginStore, At, Live, Same, NoFacts, NoWorld, NoFault, hireFacts, TypeOK
    <2>3. world' \subseteq Things /\ late' \subseteq Things
      BY <1>t DEF BeginStore, At, Live, Same, NoFacts, NoWorld, NoFault, hireFacts, TypeOK, Things
    <2>4. QED
      BY <1>t, <1>1, <1>2, <2>1, <2>2, <2>3, TypeKept
  <1>4. Retired'
    BY <1>h, <1>t, <1>e, TransitionFacts DEF BeginStore, At, Live, Same, NoFacts, NoWorld, NoFault, hireFacts, Retired
  <1>5. Kept
    BY <1>h, <1>t, <1>e, <1>2, TransitionFacts DEF BeginStore, At, Live, Same, NoFacts, NoWorld, NoFault, hireFacts, Kept, Equipped, Bound, Configs, lifeVars
  <1>6. Registered' /\ Equipped'
    BY <1>h, <1>5, KeptSafe
  <1>7. HireMove
    BY <1>t, Order DEF BeginStore, At, Live, Same, NoFacts, NoWorld, NoFault, hireFacts, HireMove, TypeOK, Make
  <1>8. QED
    BY <1>3, <1>4, <1>5, <1>6, <1>7 DEF HireInv

\* The write of the credential, with a receipt only when it is stored.
LEMMA PutSafe ==
    ASSUME HireInv, Put, UNCHANGED lifeVars
    PROVE  HireInv' /\ HireMove
  <1>t. TypeOK /\ FactsOK /\ act \in Acts /\ heff \in Heffs /\ faults \in 0..MaxFaults
    BY TypeParts DEF HireInv, FactsOK
  <1>h. Retired /\ Registered /\ Equipped
    BY DEF HireInv
  <1>e. HireEffects = {"reg", "store", "slash", "chan"} /\ EffectStates = {"none", "prepared", "executing", "committed", "action_required"}
    BY DEF HireEffects, EffectStates
  <1>1. FactsOK'
    BY <1>t, <1>e DEF Put, At, Live, Same, NoFacts, NoWorld, NoFault, hireFacts, Make, Fault, FactsOK, Phases
  <1>2. act' \in Acts /\ act'.pc \in {"receipt", "unstored"} /\ (act'.pc = "receipt" => "secret" \in world')
    BY <1>t, <1>e, Paths DEF Put, At, Live, Same, NoFacts, NoWorld, NoFault, hireFacts, Make, Fault, Bound, Pcs
  <1>3. TypeOK'
    <2>1. UNCHANGED <<up, admitted, lifeVars>> /\ lost' \in BOOLEAN
      BY <1>t DEF Put, At, Live, Same, NoFacts, NoWorld, NoFault, hireFacts, Make, Fault, TypeOK
    <2>2. calls' \in [FireEffects \cup {"register"} -> Nat] /\ faults' \in 0..MaxFaults
      BY <1>t, HireAssumption DEF Put, At, Live, Same, NoFacts, NoWorld, NoFault, hireFacts, Make, Fault, TypeOK
    <2>3. world' \subseteq Things /\ late' \subseteq Things
      BY <1>t DEF Put, At, Live, Same, NoFacts, NoWorld, NoFault, hireFacts, Make, Fault, TypeOK, Things
    <2>4. QED
      BY <1>t, <1>1, <1>2, <2>1, <2>2, <2>3, TypeKept
  <1>4. Retired'
    BY <1>h, <1>t, <1>e DEF Put, At, Live, Same, NoFacts, NoWorld, NoFault, hireFacts, Make, Fault, Retired
  <1>5. Registered'
    BY <1>h, <1>t, <1>e, <1>2 DEF Put, At, Live, Same, NoFacts, NoWorld, NoFault, hireFacts, Make, Fault, Registered, Retired, Bound, TypeOK, Pcs
  <1>6. Equipped'
    BY <1>h, <1>t, <1>e, <1>2 DEF Put, At, Live, Same, NoFacts, NoWorld, NoFault, hireFacts, Make, Fault, Equipped, Retired, Bound, Configs, Removable, lifeVars, Pcs
  <1>7. HireMove
    BY <1>t, Order DEF Put, At, Live, Same, NoFacts, NoWorld, NoFault, hireFacts, Make, Fault, HireMove, TypeOK, Make
  <1>8. QED
    BY <1>3, <1>4, <1>5, <1>6, <1>7 DEF HireInv

\* The credential effect is recorded as committed when the receipt is there.
LEMMA CommitStoredSafe ==
    ASSUME HireInv, CommitStored, UNCHANGED lifeVars
    PROVE  HireInv' /\ HireMove
  <1>t. TypeOK /\ FactsOK /\ act \in Acts /\ heff \in Heffs /\ faults \in 0..MaxFaults
    BY TypeParts DEF HireInv, FactsOK
  <1>h. Retired /\ Registered /\ Equipped
    BY DEF HireInv
  <1>e. HireEffects = {"reg", "store", "slash", "chan"} /\ EffectStates = {"none", "prepared", "executing", "committed", "action_required"}
    BY DEF HireEffects, EffectStates
  <1>1. FactsOK'
    BY <1>t, <1>e, TransitionFacts DEF CommitStored, At, Live, Same, NoFacts, NoWorld, NoFault, hireFacts, FactsOK, Phases
  <1>2. act' \in Acts /\ act'.pc \in {"bind", "retry", "idle", "notify"}
    BY <1>t, <1>e, Paths DEF CommitStored, At, Live, Same, NoFacts, NoWorld, NoFault, hireFacts, Bound, Pcs
  <1>3. TypeOK'
    <2>1. UNCHANGED <<up, admitted, lifeVars>> /\ lost' \in BOOLEAN
      BY <1>t DEF CommitStored, At, Live, Same, NoFacts, NoWorld, NoFault, hireFacts, TypeOK
    <2>2. calls' \in [FireEffects \cup {"register"} -> Nat] /\ faults' \in 0..MaxFaults
      BY <1>t, HireAssumption DEF CommitStored, At, Live, Same, NoFacts, NoWorld, NoFault, hireFacts, TypeOK
    <2>3. world' \subseteq Things /\ late' \subseteq Things
      BY <1>t DEF CommitStored, At, Live, Same, NoFacts, NoWorld, NoFault, hireFacts, TypeOK, Things
    <2>4. QED
      BY <1>t, <1>1, <1>2, <2>1, <2>2, <2>3, TypeKept
  <1>4. Retired'
    BY <1>h, <1>t, <1>e, TransitionFacts DEF CommitStored, At, Live, Same, NoFacts, NoWorld, NoFault, hireFacts, Retired
  <1>5. Kept
    BY <1>h, <1>t, <1>e, <1>2, TransitionFacts DEF CommitStored, At, Live, Same, NoFacts, NoWorld, NoFault, hireFacts, Kept, Equipped, Bound, Configs, lifeVars
  <1>6. Registered' /\ Equipped'
    BY <1>h, <1>5, KeptSafe
  <1>7. HireMove
    BY <1>t, Order DEF CommitStored, At, Live, Same, NoFacts, NoWorld, NoFault, hireFacts, HireMove, TypeOK, Make
  <1>8. QED
    BY <1>3, <1>4, <1>5, <1>6, <1>7 DEF HireInv

\* A write that raised is disposed of.
LEMMA StoreFailedSafe ==
    ASSUME HireInv, StoreFailed, UNCHANGED lifeVars
    PROVE  HireInv' /\ HireMove
  <1>t. TypeOK /\ FactsOK /\ act \in Acts /\ heff \in Heffs /\ faults \in 0..MaxFaults
    BY TypeParts DEF HireInv, FactsOK
  <1>h. Retired /\ Registered /\ Equipped
    BY DEF HireInv
  <1>e. HireEffects = {"reg", "store", "slash", "chan"} /\ EffectStates = {"none", "prepared", "executing", "committed", "action_required"}
    BY DEF HireEffects, EffectStates
  <1>1. FactsOK'
    BY <1>t, <1>e, MarkFacts DEF StoreFailed, At, Live, Same, NoFacts, NoWorld, NoFault, hireFacts, FactsOK, Phases
  <1>2. act' \in Acts /\ act'.pc \in {"retry", "idle", "notify"}
    BY <1>t, <1>e, Paths, MarkFacts DEF StoreFailed, At, Live, Same, NoFacts, NoWorld, NoFault, hireFacts, Bound, Pcs
  <1>3. TypeOK'
    <2>1. UNCHANGED <<up, admitted, lifeVars>> /\ lost' \in BOOLEAN
      BY <1>t DEF StoreFailed, At, Live, Same, NoFacts, NoWorld, NoFault, hireFacts, TypeOK
    <2>2. calls' \in [FireEffects \cup {"register"} -> Nat] /\ faults' \in 0..MaxFaults
      BY <1>t, HireAssumption DEF StoreFailed, At, Live, Same, NoFacts, NoWorld, NoFault, hireFacts, TypeOK
    <2>3. world' \subseteq Things /\ late' \subseteq Things
      BY <1>t DEF StoreFailed, At, Live, Same, NoFacts, NoWorld, NoFault, hireFacts, TypeOK, Things
    <2>4. QED
      BY <1>t, <1>1, <1>2, <2>1, <2>2, <2>3, TypeKept
  <1>4. Retired'
    BY <1>h, <1>t, <1>e, MarkFacts DEF StoreFailed, At, Live, Same, NoFacts, NoWorld, NoFault, hireFacts, Retired
  <1>5. Kept
    BY <1>h, <1>t, <1>e, <1>2, MarkFacts DEF StoreFailed, At, Live, Same, NoFacts, NoWorld, NoFault, hireFacts, Kept, Equipped, Bound, Configs, lifeVars
  <1>6. Registered' /\ Equipped'
    BY <1>h, <1>5, KeptSafe
  <1>7. HireMove
    BY <1>t, Order DEF StoreFailed, At, Live, Same, NoFacts, NoWorld, NoFault, hireFacts, HireMove, TypeOK, Make
  <1>8. QED
    BY <1>3, <1>4, <1>5, <1>6, <1>7 DEF HireInv

\* The principal is bound to an app and a credential, unless the employee was
\* archived meanwhile.
LEMMA BindSafe ==
    ASSUME HireInv, Bind, UNCHANGED lifeVars
    PROVE  HireInv' /\ HireMove
  <1>t. TypeOK /\ FactsOK /\ act \in Acts /\ heff \in Heffs /\ faults \in 0..MaxFaults
    BY TypeParts DEF HireInv, FactsOK
  <1>h. Retired /\ Registered /\ Equipped
    BY DEF HireInv
  <1>e. HireEffects = {"reg", "store", "slash", "chan"} /\ EffectStates = {"none", "prepared", "executing", "committed", "action_required"}
    BY DEF HireEffects, EffectStates
  <1>f. /\ [act EXCEPT !.pc = "slash", !.launch = 0] \in Acts
        /\ [act EXCEPT !.pc = "slash", !.launch = 0].pc = "slash"
    BY <1>t, ActTyped
  <1>1. FactsOK'
    BY <1>t, <1>e DEF Bind, At, Live, Same, NoFacts, NoWorld, NoFault, hireFacts, FactsOK, Phases
  <1>2. act' \in Acts /\ act'.pc \in {"slash", "retry", "idle", "notify"}
    <2>1. CASE phase = "archived"
      BY <1>t, <2>1, Paths DEF Bind
    <2>2. CASE phase # "archived"
      BY <1>f, <2>2 DEF Bind
    <2>3. QED
      BY <2>1, <2>2
  <1>3. TypeOK'
    <2>1. UNCHANGED <<up, admitted, lifeVars>> /\ lost' \in BOOLEAN
      BY <1>t DEF Bind, At, Live, Same, NoFacts, NoWorld, NoFault, hireFacts, TypeOK
    <2>2. calls' \in [FireEffects \cup {"register"} -> Nat] /\ faults' \in 0..MaxFaults
      BY <1>t, HireAssumption DEF Bind, At, Live, Same, NoFacts, NoWorld, NoFault, hireFacts, TypeOK
    <2>3. world' \subseteq Things /\ late' \subseteq Things
      BY <1>t DEF Bind, At, Live, Same, NoFacts, NoWorld, NoFault, hireFacts, TypeOK, Things
    <2>4. QED
      BY <1>t, <1>1, <1>2, <2>1, <2>2, <2>3, TypeKept
  <1>4. Retired'
    BY <1>h, <1>t, <1>e DEF Bind, At, Live, Same, NoFacts, NoWorld, NoFault, hireFacts, Retired
  <1>5. Kept
    <2>1. UNCHANGED <<heff, world, calls, admitted, join>> /\ act.pc = "bind"
      BY DEF Bind, At, NoWorld, hireFacts, lifeVars
    <2>2. CASE phase = "archived"
      <3>1. phase' = "archived" /\ principal' = principal /\ act'.pc \in {"retry", "idle", "notify"}
        BY <1>t, <2>2, Paths DEF Bind, hireFacts
      <3>2. QED
        BY <2>1, <3>1 DEF Kept, Bound, Configs
    <2>3. CASE phase # "archived"
      <3>1. phase' = "configuring" /\ principal' = "bound" /\ act'.pc = "slash"
        BY <1>f, <2>3 DEF Bind
      <3>2. QED
        BY <2>1, <3>1 DEF Kept, Bound, Configs
    <2>4. QED
      BY <2>2, <2>3
  <1>6. Registered' /\ Equipped'
    BY <1>h, <1>5, KeptSafe
  <1>7. HireMove
    BY <1>t, Order DEF Bind, At, Live, Same, NoFacts, NoWorld, NoFault, hireFacts, HireMove, TypeOK, Make
  <1>8. QED
    BY <1>3, <1>4, <1>5, <1>6, <1>7 DEF HireInv

\* The commands are registered for a bound principal only.
LEMMA BeginSlashSafe ==
    ASSUME HireInv, BeginSlash, UNCHANGED lifeVars
    PROVE  HireInv' /\ HireMove
  <1>t. TypeOK /\ FactsOK /\ act \in Acts /\ heff \in Heffs /\ faults \in 0..MaxFaults
    BY TypeParts DEF HireInv, FactsOK
  <1>h. Retired /\ Registered /\ Equipped
    BY DEF HireInv
  <1>e. HireEffects = {"reg", "store", "slash", "chan"} /\ EffectStates = {"none", "prepared", "executing", "committed", "action_required"}
    BY DEF HireEffects, EffectStates
  <1>f. /\ heff'["reg"] = heff["reg"] /\ heff'["store"] = heff["store"]
        /\ heff'["slash"] = "committed" => heff["slash"] = "committed"
    BY <1>t, <1>e DEF BeginSlash, Attempt, Heffs
  <1>1. FactsOK'
    BY <1>t, <1>e, HeffTyped DEF BeginSlash, At, Live, Same, NoFacts, NoWorld, NoFault, hireFacts, FactsOK, Phases
  <1>2. act' \in Acts /\ act'.pc \in {"slash", "slashRun", "retry", "idle", "notify"}
    BY <1>t, <1>e, <1>f, Paths DEF BeginSlash, At, Live, Same, NoFacts, NoWorld, NoFault, hireFacts, Bound, Pcs
  <1>3. TypeOK'
    <2>1. UNCHANGED <<up, admitted, lifeVars>> /\ lost' \in BOOLEAN
      BY <1>t DEF BeginSlash, At, Live, Same, NoFacts, NoWorld, NoFault, hireFacts, TypeOK
    <2>2. calls' \in [FireEffects \cup {"register"} -> Nat] /\ faults' \in 0..MaxFaults
      BY <1>t, HireAssumption DEF BeginSlash, At, Live, Same, NoFacts, NoWorld, NoFault, hireFacts, TypeOK
    <2>3. world' \subseteq Things /\ late' \subseteq Things
      BY <1>t DEF BeginSlash, At, Live, Same, NoFacts, NoWorld, NoFault, hireFacts, TypeOK, Things
    <2>4. QED
      BY <1>t, <1>1, <1>2, <2>1, <2>2, <2>3, TypeKept
  <1>4. Retired'
    BY <1>h, <1>t, <1>e, HeffTyped DEF BeginSlash, At, Live, Same, NoFacts, NoWorld, NoFault, hireFacts, Retired
  <1>5. Kept
    BY <1>h, <1>t, <1>e, <1>f, <1>2, HeffTyped DEF BeginSlash, At, Live, Same, NoFacts, NoWorld, NoFault, hireFacts, Kept, Equipped, Bound, Configs, lifeVars
  <1>6. Registered' /\ Equipped'
    BY <1>h, <1>5, KeptSafe
  <1>7. HireMove
    BY <1>t, Order DEF BeginSlash, At, Live, Same, NoFacts, NoWorld, NoFault, hireFacts, HireMove, TypeOK, Make
  <1>8. QED
    BY <1>3, <1>4, <1>5, <1>6, <1>7 DEF HireInv

\* The registration of the commands, done only when it returns.
LEMMA SlashSafe ==
    ASSUME HireInv, Slash, UNCHANGED lifeVars
    PROVE  HireInv' /\ HireMove
  <1>t. TypeOK /\ FactsOK /\ act \in Acts /\ heff \in Heffs /\ faults \in 0..MaxFaults
    BY TypeParts DEF HireInv, FactsOK
  <1>h. Retired /\ Registered /\ Equipped
    BY DEF HireInv
  <1>e. HireEffects = {"reg", "store", "slash", "chan"} /\ EffectStates = {"none", "prepared", "executing", "committed", "action_required"}
    BY DEF HireEffects, EffectStates
  <1>1. FactsOK'
    BY <1>t, <1>e DEF Slash, At, Live, Same, NoFacts, NoWorld, NoFault, hireFacts, Make, Fault, FactsOK, Phases
  <1>2. act' \in Acts /\ act'.pc \in {"slashDone", "retry", "idle", "notify"} /\ (act'.pc = "slashDone" => "slash" \in world')
    BY <1>t, <1>e, Paths DEF Slash, At, Live, Same, NoFacts, NoWorld, NoFault, hireFacts, Make, Fault, Bound, Pcs
  <1>3. TypeOK'
    <2>1. UNCHANGED <<up, admitted, lifeVars>> /\ lost' \in BOOLEAN
      BY <1>t DEF Slash, At, Live, Same, NoFacts, NoWorld, NoFault, hireFacts, Make, Fault, TypeOK
    <2>2. calls' \in [FireEffects \cup {"register"} -> Nat] /\ faults' \in 0..MaxFaults
      BY <1>t, HireAssumption DEF Slash, At, Live, Same, NoFacts, NoWorld, NoFault, hireFacts, Make, Fault, TypeOK
    <2>3. world' \subseteq Things /\ late' \subseteq Things
      BY <1>t DEF Slash, At, Live, Same, NoFacts, NoWorld, NoFault, hireFacts, Make, Fault, TypeOK, Things
    <2>4. QED
      BY <1>t, <1>1, <1>2, <2>1, <2>2, <2>3, TypeKept
  <1>4. Retired'
    BY <1>h, <1>t, <1>e DEF Slash, At, Live, Same, NoFacts, NoWorld, NoFault, hireFacts, Make, Fault, Retired
  <1>5. Registered'
    BY <1>h, <1>t, <1>e, <1>2 DEF Slash, At, Live, Same, NoFacts, NoWorld, NoFault, hireFacts, Make, Fault, Registered, Retired, Bound, TypeOK, Pcs
  <1>6. Equipped'
    BY <1>h, <1>t, <1>e, <1>2 DEF Slash, At, Live, Same, NoFacts, NoWorld, NoFault, hireFacts, Make, Fault, Equipped, Retired, Bound, Configs, Removable, lifeVars, Pcs
  <1>7. HireMove
    BY <1>t, Order DEF Slash, At, Live, Same, NoFacts, NoWorld, NoFault, hireFacts, Make, Fault, HireMove, TypeOK, Make
  <1>8. QED
    BY <1>3, <1>4, <1>5, <1>6, <1>7 DEF HireInv

\* The commands' effect is recorded as committed when they are registered.
LEMMA CommitSlashSafe ==
    ASSUME HireInv, CommitSlash, UNCHANGED lifeVars
    PROVE  HireInv' /\ HireMove
  <1>t. TypeOK /\ FactsOK /\ act \in Acts /\ heff \in Heffs /\ faults \in 0..MaxFaults
    BY TypeParts DEF HireInv, FactsOK
  <1>h. Retired /\ Registered /\ Equipped
    BY DEF HireInv
  <1>e. HireEffects = {"reg", "store", "slash", "chan"} /\ EffectStates = {"none", "prepared", "executing", "committed", "action_required"}
    BY DEF HireEffects, EffectStates
  <1>1. FactsOK'
    BY <1>t, <1>e, TransitionFacts DEF CommitSlash, At, Live, Same, NoFacts, NoWorld, NoFault, hireFacts, FactsOK, Phases
  <1>2. act' \in Acts /\ act'.pc \in {"chan", "retry", "idle", "notify"}
    BY <1>t, <1>e, Paths DEF CommitSlash, At, Live, Same, NoFacts, NoWorld, NoFault, hireFacts, Bound, Pcs
  <1>3. TypeOK'
    <2>1. UNCHANGED <<up, admitted, lifeVars>> /\ lost' \in BOOLEAN
      BY <1>t DEF CommitSlash, At, Live, Same, NoFacts, NoWorld, NoFault, hireFacts, TypeOK
    <2>2. calls' \in [FireEffects \cup {"register"} -> Nat] /\ faults' \in 0..MaxFaults
      BY <1>t, HireAssumption DEF CommitSlash, At, Live, Same, NoFacts, NoWorld, NoFault, hireFacts, TypeOK
    <2>3. world' \subseteq Things /\ late' \subseteq Things
      BY <1>t DEF CommitSlash, At, Live, Same, NoFacts, NoWorld, NoFault, hireFacts, TypeOK, Things
    <2>4. QED
      BY <1>t, <1>1, <1>2, <2>1, <2>2, <2>3, TypeKept
  <1>4. Retired'
    BY <1>h, <1>t, <1>e, TransitionFacts DEF CommitSlash, At, Live, Same, NoFacts, NoWorld, NoFault, hireFacts, Retired
  <1>5. Kept
    BY <1>h, <1>t, <1>e, <1>2, TransitionFacts DEF CommitSlash, At, Live, Same, NoFacts, NoWorld, NoFault, hireFacts, Kept, Equipped, Bound, Configs, lifeVars
  <1>6. Registered' /\ Equipped'
    BY <1>h, <1>5, KeptSafe
  <1>7. HireMove
    BY <1>t, Order DEF CommitSlash, At, Live, Same, NoFacts, NoWorld, NoFault, hireFacts, HireMove, TypeOK, Make
  <1>8. QED
    BY <1>3, <1>4, <1>5, <1>6, <1>7 DEF HireInv

\* The channel's effect is begun for a bound principal only.
LEMMA BeginChannelSafe ==
    ASSUME HireInv, BeginChannel, UNCHANGED lifeVars
    PROVE  HireInv' /\ HireMove
  <1>t. TypeOK /\ FactsOK /\ act \in Acts /\ heff \in Heffs /\ faults \in 0..MaxFaults
    BY TypeParts DEF HireInv, FactsOK
  <1>h. Retired /\ Registered /\ Equipped
    BY DEF HireInv
  <1>e. HireEffects = {"reg", "store", "slash", "chan"} /\ EffectStates = {"none", "prepared", "executing", "committed", "action_required"}
    BY DEF HireEffects, EffectStates
  <1>1. FactsOK'
    BY <1>t, <1>e, TransitionFacts DEF BeginChannel, At, Live, Same, NoFacts, NoWorld, NoFault, hireFacts, FactsOK, Phases
  <1>2. act' \in Acts /\ act'.pc \in {"chan", "chanRun", "slash", "retry", "idle", "notify"}
    BY <1>t, <1>e, Paths DEF BeginChannel, At, Live, Same, NoFacts, NoWorld, NoFault, hireFacts, Bound, Pcs
  <1>3. TypeOK'
    <2>1. UNCHANGED <<up, admitted, lifeVars>> /\ lost' \in BOOLEAN
      BY <1>t DEF BeginChannel, At, Live, Same, NoFacts, NoWorld, NoFault, hireFacts, TypeOK
    <2>2. calls' \in [FireEffects \cup {"register"} -> Nat] /\ faults' \in 0..MaxFaults
      BY <1>t, HireAssumption DEF BeginChannel, At, Live, Same, NoFacts, NoWorld, NoFault, hireFacts, TypeOK
    <2>3. world' \subseteq Things /\ late' \subseteq Things
      BY <1>t DEF BeginChannel, At, Live, Same, NoFacts, NoWorld, NoFault, hireFacts, TypeOK, Things
    <2>4. QED
      BY <1>t, <1>1, <1>2, <2>1, <2>2, <2>3, TypeKept
  <1>4. Retired'
    BY <1>h, <1>t, <1>e, TransitionFacts DEF BeginChannel, At, Live, Same, NoFacts, NoWorld, NoFault, hireFacts, Retired
  <1>5. Kept
    BY <1>h, <1>t, <1>e, <1>2, TransitionFacts DEF BeginChannel, At, Live, Same, NoFacts, NoWorld, NoFault, hireFacts, Kept, Equipped, Bound, Configs, lifeVars
  <1>6. Registered' /\ Equipped'
    BY <1>h, <1>5, KeptSafe
  <1>7. HireMove
    BY <1>t, Order DEF BeginChannel, At, Live, Same, NoFacts, NoWorld, NoFault, hireFacts, HireMove, TypeOK, Make
  <1>8. QED
    BY <1>3, <1>4, <1>5, <1>6, <1>7 DEF HireInv

\* The start of the channel, for a bound principal.
LEMMA StartChannelSafe ==
    ASSUME HireInv, StartChannel, UNCHANGED lifeVars
    PROVE  HireInv' /\ HireMove
  <1>t. TypeOK /\ FactsOK /\ act \in Acts /\ heff \in Heffs /\ faults \in 0..MaxFaults
    BY TypeParts DEF HireInv, FactsOK
  <1>h. Retired /\ Registered /\ Equipped
    BY DEF HireInv
  <1>e. HireEffects = {"reg", "store", "slash", "chan"} /\ EffectStates = {"none", "prepared", "executing", "committed", "action_required"}
    BY DEF HireEffects, EffectStates
  <1>1. FactsOK'
    BY <1>t, <1>e DEF StartChannel, At, Live, Same, NoFacts, NoWorld, NoFault, hireFacts, Make, Fault, FactsOK, Phases
  <1>2. act' \in Acts /\ act'.pc \in {"chanDone", "chanFailed"}
    BY <1>t, <1>e, Paths DEF StartChannel, At, Live, Same, NoFacts, NoWorld, NoFault, hireFacts, Make, Fault, Bound, Pcs
  <1>3. TypeOK'
    <2>1. UNCHANGED <<up, admitted, lifeVars>> /\ lost' \in BOOLEAN
      BY <1>t DEF StartChannel, At, Live, Same, NoFacts, NoWorld, NoFault, hireFacts, Make, Fault, TypeOK
    <2>2. calls' \in [FireEffects \cup {"register"} -> Nat] /\ faults' \in 0..MaxFaults
      BY <1>t, HireAssumption DEF StartChannel, At, Live, Same, NoFacts, NoWorld, NoFault, hireFacts, Make, Fault, TypeOK
    <2>3. world' \subseteq Things /\ late' \subseteq Things
      BY <1>t DEF StartChannel, At, Live, Same, NoFacts, NoWorld, NoFault, hireFacts, Make, Fault, TypeOK, Things
    <2>4. QED
      BY <1>t, <1>1, <1>2, <2>1, <2>2, <2>3, TypeKept
  <1>4. Retired'
    BY <1>h, <1>t, <1>e DEF StartChannel, At, Live, Same, NoFacts, NoWorld, NoFault, hireFacts, Make, Fault, Retired
  <1>5. Registered'
    BY <1>h, <1>t, <1>e, <1>2 DEF StartChannel, At, Live, Same, NoFacts, NoWorld, NoFault, hireFacts, Make, Fault, Registered, Retired, Bound, TypeOK, Pcs
  <1>6. Equipped'
    BY <1>h, <1>t, <1>e, <1>2 DEF StartChannel, At, Live, Same, NoFacts, NoWorld, NoFault, hireFacts, Make, Fault, Equipped, Retired, Bound, Configs, Removable, lifeVars, Pcs
  <1>7. HireMove
    BY <1>t, Order DEF StartChannel, At, Live, Same, NoFacts, NoWorld, NoFault, hireFacts, Make, Fault, HireMove, TypeOK, Make
  <1>8. QED
    BY <1>3, <1>4, <1>5, <1>6, <1>7 DEF HireInv

\* The channel's effect is recorded as committed when it has started.
LEMMA CommitChannelSafe ==
    ASSUME HireInv, CommitChannel, UNCHANGED lifeVars
    PROVE  HireInv' /\ HireMove
  <1>t. TypeOK /\ FactsOK /\ act \in Acts /\ heff \in Heffs /\ faults \in 0..MaxFaults
    BY TypeParts DEF HireInv, FactsOK
  <1>h. Retired /\ Registered /\ Equipped
    BY DEF HireInv
  <1>e. HireEffects = {"reg", "store", "slash", "chan"} /\ EffectStates = {"none", "prepared", "executing", "committed", "action_required"}
    BY DEF HireEffects, EffectStates
  <1>1. FactsOK'
    BY <1>t, <1>e, TransitionFacts DEF CommitChannel, At, Live, Same, NoFacts, NoWorld, NoFault, hireFacts, FactsOK, Phases
  <1>2. act' \in Acts /\ act'.pc \in {"verify"}
    BY <1>t, <1>e, Paths DEF CommitChannel, At, Live, Same, NoFacts, NoWorld, NoFault, hireFacts, Bound, Pcs
  <1>3. TypeOK'
    <2>1. UNCHANGED <<up, admitted, lifeVars>> /\ lost' \in BOOLEAN
      BY <1>t DEF CommitChannel, At, Live, Same, NoFacts, NoWorld, NoFault, hireFacts, TypeOK
    <2>2. calls' \in [FireEffects \cup {"register"} -> Nat] /\ faults' \in 0..MaxFaults
      BY <1>t, HireAssumption DEF CommitChannel, At, Live, Same, NoFacts, NoWorld, NoFault, hireFacts, TypeOK
    <2>3. world' \subseteq Things /\ late' \subseteq Things
      BY <1>t DEF CommitChannel, At, Live, Same, NoFacts, NoWorld, NoFault, hireFacts, TypeOK, Things
    <2>4. QED
      BY <1>t, <1>1, <1>2, <2>1, <2>2, <2>3, TypeKept
  <1>4. Retired'
    BY <1>h, <1>t, <1>e, TransitionFacts DEF CommitChannel, At, Live, Same, NoFacts, NoWorld, NoFault, hireFacts, Retired
  <1>5. Kept
    BY <1>h, <1>t, <1>e, <1>2, TransitionFacts DEF CommitChannel, At, Live, Same, NoFacts, NoWorld, NoFault, hireFacts, Kept, Equipped, Bound, Configs, lifeVars
  <1>6. Registered' /\ Equipped'
    BY <1>h, <1>5, KeptSafe
  <1>7. HireMove
    BY <1>t, Order DEF CommitChannel, At, Live, Same, NoFacts, NoWorld, NoFault, hireFacts, HireMove, TypeOK, Make
  <1>8. QED
    BY <1>3, <1>4, <1>5, <1>6, <1>7 DEF HireInv

\* A channel that did not start makes no claim.
LEMMA ChannelFailedSafe ==
    ASSUME HireInv, ChannelFailed, UNCHANGED lifeVars
    PROVE  HireInv' /\ HireMove
  <1>t. TypeOK /\ FactsOK /\ act \in Acts /\ heff \in Heffs /\ faults \in 0..MaxFaults
    BY TypeParts DEF HireInv, FactsOK
  <1>h. Retired /\ Registered /\ Equipped
    BY DEF HireInv
  <1>e. HireEffects = {"reg", "store", "slash", "chan"} /\ EffectStates = {"none", "prepared", "executing", "committed", "action_required"}
    BY DEF HireEffects, EffectStates
  <1>1. FactsOK'
    BY <1>t, <1>e, TransitionFacts DEF ChannelFailed, At, Live, Same, NoFacts, NoWorld, NoFault, hireFacts, FactsOK, Phases
  <1>2. act' \in Acts /\ act'.pc \in {"slash", "retry", "idle", "notify"}
    BY <1>t, <1>e, Paths DEF ChannelFailed, At, Live, Same, NoFacts, NoWorld, NoFault, hireFacts, Bound, Pcs
  <1>3. TypeOK'
    <2>1. UNCHANGED <<up, admitted, lifeVars>> /\ lost' \in BOOLEAN
      BY <1>t DEF ChannelFailed, At, Live, Same, NoFacts, NoWorld, NoFault, hireFacts, TypeOK
    <2>2. calls' \in [FireEffects \cup {"register"} -> Nat] /\ faults' \in 0..MaxFaults
      BY <1>t, HireAssumption DEF ChannelFailed, At, Live, Same, NoFacts, NoWorld, NoFault, hireFacts, TypeOK
    <2>3. world' \subseteq Things /\ late' \subseteq Things
      BY <1>t DEF ChannelFailed, At, Live, Same, NoFacts, NoWorld, NoFault, hireFacts, TypeOK, Things
    <2>4. QED
      BY <1>t, <1>1, <1>2, <2>1, <2>2, <2>3, TypeKept
  <1>4. Retired'
    BY <1>h, <1>t, <1>e, TransitionFacts DEF ChannelFailed, At, Live, Same, NoFacts, NoWorld, NoFault, hireFacts, Retired
  <1>5. Kept
    BY <1>h, <1>t, <1>e, <1>2, TransitionFacts DEF ChannelFailed, At, Live, Same, NoFacts, NoWorld, NoFault, hireFacts, Kept, Equipped, Bound, Configs, lifeVars
  <1>6. Registered' /\ Equipped'
    BY <1>h, <1>5, KeptSafe
  <1>7. HireMove
    BY <1>t, Order DEF ChannelFailed, At, Live, Same, NoFacts, NoWorld, NoFault, hireFacts, HireMove, TypeOK, Make
  <1>8. QED
    BY <1>3, <1>4, <1>5, <1>6, <1>7 DEF HireInv

\* An employee becomes ready when both effects are committed.
LEMMA VerifySafe ==
    ASSUME HireInv, Verify, UNCHANGED lifeVars
    PROVE  HireInv' /\ HireMove
  <1>t. TypeOK /\ FactsOK /\ act \in Acts /\ heff \in Heffs /\ faults \in 0..MaxFaults
    BY TypeParts DEF HireInv, FactsOK
  <1>h. Retired /\ Registered /\ Equipped
    BY DEF HireInv
  <1>e. HireEffects = {"reg", "store", "slash", "chan"} /\ EffectStates = {"none", "prepared", "executing", "committed", "action_required"}
    BY DEF HireEffects, EffectStates
  <1>1. FactsOK'
    BY <1>t, <1>e DEF Verify, At, Live, Same, NoFacts, NoWorld, NoFault, hireFacts, FactsOK, Phases
  <1>2. act' \in Acts /\ act'.pc \in {"activate", "retry", "idle", "notify"} /\ (act'.pc # "activate" => phase' = phase)
    BY <1>t, <1>e, Paths DEF Verify, At, Live, Same, NoFacts, NoWorld, NoFault, hireFacts, Bound, Pcs
  <1>3. TypeOK'
    <2>1. UNCHANGED <<up, admitted, lifeVars>> /\ lost' \in BOOLEAN
      BY <1>t DEF Verify, At, Live, Same, NoFacts, NoWorld, NoFault, hireFacts, TypeOK
    <2>2. calls' \in [FireEffects \cup {"register"} -> Nat] /\ faults' \in 0..MaxFaults
      BY <1>t, HireAssumption DEF Verify, At, Live, Same, NoFacts, NoWorld, NoFault, hireFacts, TypeOK
    <2>3. world' \subseteq Things /\ late' \subseteq Things
      BY <1>t DEF Verify, At, Live, Same, NoFacts, NoWorld, NoFault, hireFacts, TypeOK, Things
    <2>4. QED
      BY <1>t, <1>1, <1>2, <2>1, <2>2, <2>3, TypeKept
  <1>4. Retired'
    BY <1>h, <1>t, <1>e DEF Verify, At, Live, Same, NoFacts, NoWorld, NoFault, hireFacts, Retired
  <1>5. Kept
    BY <1>h, <1>t, <1>e, <1>2 DEF Verify, At, Live, Same, NoFacts, NoWorld, NoFault, hireFacts, Kept, Equipped, Bound, Configs, lifeVars
  <1>6. Registered' /\ Equipped'
    BY <1>h, <1>5, KeptSafe
  <1>7. HireMove
    BY <1>t, Order DEF Verify, At, Live, Same, NoFacts, NoWorld, NoFault, hireFacts, HireMove, TypeOK, Make
  <1>8. QED
    BY <1>3, <1>4, <1>5, <1>6, <1>7 DEF HireInv

\* The activation moves a ready employee only.
LEMMA ActivateSafe ==
    ASSUME HireInv, Activate, UNCHANGED lifeVars
    PROVE  HireInv' /\ HireMove
  <1>t. TypeOK /\ FactsOK /\ act \in Acts /\ heff \in Heffs /\ faults \in 0..MaxFaults
    BY TypeParts DEF HireInv, FactsOK
  <1>h. Retired /\ Registered /\ Equipped
    BY DEF HireInv
  <1>e. HireEffects = {"reg", "store", "slash", "chan"} /\ EffectStates = {"none", "prepared", "executing", "committed", "action_required"}
    BY DEF HireEffects, EffectStates
  <1>1. FactsOK'
    BY <1>t, <1>e DEF Activate, At, Live, Same, NoFacts, NoWorld, NoFault, hireFacts, Fault, FactsOK, Phases
  <1>2. act' \in Acts /\ act'.pc \in {"retry", "idle", "notify"} /\ (phase = "ready" => act'.pc # "retry")
    BY <1>t, <1>e, Paths DEF Activate, At, Live, Same, NoFacts, NoWorld, NoFault, hireFacts, Fault, Bound, Pcs
  <1>3. TypeOK'
    <2>1. UNCHANGED <<up, admitted, lifeVars>> /\ lost' \in BOOLEAN
      BY <1>t DEF Activate, At, Live, Same, NoFacts, NoWorld, NoFault, hireFacts, Fault, TypeOK
    <2>2. calls' \in [FireEffects \cup {"register"} -> Nat] /\ faults' \in 0..MaxFaults
      BY <1>t, HireAssumption DEF Activate, At, Live, Same, NoFacts, NoWorld, NoFault, hireFacts, Fault, TypeOK
    <2>3. world' \subseteq Things /\ late' \subseteq Things
      BY <1>t DEF Activate, At, Live, Same, NoFacts, NoWorld, NoFault, hireFacts, Fault, TypeOK, Things
    <2>4. QED
      BY <1>t, <1>1, <1>2, <2>1, <2>2, <2>3, TypeKept
  <1>4. Retired'
    BY <1>h, <1>t, <1>e DEF Activate, At, Live, Same, NoFacts, NoWorld, NoFault, hireFacts, Fault, Retired
  <1>5. Kept
    BY <1>h, <1>t, <1>e, <1>2 DEF Activate, At, Live, Same, NoFacts, NoWorld, NoFault, hireFacts, Fault, Kept, Equipped, Bound, Configs, lifeVars
  <1>6. Registered' /\ Equipped'
    BY <1>h, <1>5, KeptSafe
  <1>7. HireMove
    BY <1>t, Order DEF Activate, At, Live, Same, NoFacts, NoWorld, NoFault, hireFacts, Fault, HireMove, TypeOK, Make
  <1>8. QED
    BY <1>3, <1>4, <1>5, <1>6, <1>7 DEF HireInv

\* A retry starts the activity again; the last one disposes of what is open.
LEMMA RetrySafe ==
    ASSUME HireInv, Retry, UNCHANGED lifeVars
    PROVE  HireInv' /\ HireMove
  <1>t. TypeOK /\ FactsOK /\ act \in Acts /\ heff \in Heffs /\ faults \in 0..MaxFaults
    BY TypeParts DEF HireInv, FactsOK
  <1>h. Retired /\ Registered /\ Equipped
    BY DEF HireInv
  <1>e. HireEffects = {"reg", "store", "slash", "chan"} /\ EffectStates = {"none", "prepared", "executing", "committed", "action_required"}
    BY DEF HireEffects, EffectStates
  <1>f. act.tries > 0 => /\ [act EXCEPT !.pc = "start", !.tries = @ - 1] \in Acts
                         /\ [act EXCEPT !.pc = "start", !.tries = @ - 1].pc = "start"
    <2>1. act.tries > 0 => act.tries - 1 \in 0..Retries
      BY <1>t, ActParts, HireAssumption
    <2>2. QED
      BY <1>t, <2>1 DEF Acts, Pcs
  <1>1. FactsOK'
    BY <1>t, <1>e, DisposeFacts DEF Retry, At, Live, Same, NoFacts, NoWorld, NoFault, hireFacts, FactsOK, Phases
  <1>2. act' \in Acts /\ act'.pc \in {"start", "idle", "notify"}
    BY <1>t, <1>e, ActTyped, ActParts, <1>f, Paths DEF Retry, At, Live, Same, NoFacts, NoWorld, NoFault, hireFacts, Bound, Pcs
  <1>3. TypeOK'
    <2>1. UNCHANGED <<up, admitted, lifeVars>> /\ lost' \in BOOLEAN
      BY <1>t DEF Retry, At, Live, Same, NoFacts, NoWorld, NoFault, hireFacts, TypeOK
    <2>2. calls' \in [FireEffects \cup {"register"} -> Nat] /\ faults' \in 0..MaxFaults
      BY <1>t, HireAssumption DEF Retry, At, Live, Same, NoFacts, NoWorld, NoFault, hireFacts, TypeOK
    <2>3. world' \subseteq Things /\ late' \subseteq Things
      BY <1>t DEF Retry, At, Live, Same, NoFacts, NoWorld, NoFault, hireFacts, TypeOK, Things
    <2>4. QED
      BY <1>t, <1>1, <1>2, <2>1, <2>2, <2>3, TypeKept
  <1>4. Retired'
    BY <1>h, <1>t, <1>e, DisposeFacts DEF Retry, At, Live, Same, NoFacts, NoWorld, NoFault, hireFacts, Retired
  <1>5. Kept
    BY <1>h, <1>t, <1>e, <1>f, <1>2, DisposeFacts DEF Retry, At, Live, Same, NoFacts, NoWorld, NoFault, hireFacts, Kept, Equipped, Bound, Configs, lifeVars
  <1>6. Registered' /\ Equipped'
    BY <1>h, <1>5, KeptSafe
  <1>7. HireMove
    BY <1>t, Order DEF Retry, At, Live, Same, NoFacts, NoWorld, NoFault, hireFacts, HireMove, TypeOK, Make
  <1>8. QED
    BY <1>3, <1>4, <1>5, <1>6, <1>7 DEF HireInv

\* The notice changes nothing the invariant speaks of.
LEMMA NotifiedSafe ==
    ASSUME HireInv, Notified, UNCHANGED lifeVars
    PROVE  HireInv' /\ HireMove
  <1>t. TypeOK /\ FactsOK /\ act \in Acts /\ heff \in Heffs /\ faults \in 0..MaxFaults
    BY TypeParts DEF HireInv, FactsOK
  <1>h. Retired /\ Registered /\ Equipped
    BY DEF HireInv
  <1>e. HireEffects = {"reg", "store", "slash", "chan"} /\ EffectStates = {"none", "prepared", "executing", "committed", "action_required"}
    BY DEF HireEffects, EffectStates
  <1>1. FactsOK'
    BY <1>t, <1>e DEF Notified, At, Live, Same, NoFacts, NoWorld, NoFault, hireFacts, FactsOK, Phases
  <1>2. act' \in Acts /\ act'.pc \in {"idle"}
    BY <1>t, <1>e, ActTyped, ActParts, Paths DEF Notified, At, Live, Same, NoFacts, NoWorld, NoFault, hireFacts, Bound, Pcs
  <1>3. TypeOK'
    <2>1. UNCHANGED <<up, admitted, lifeVars>> /\ lost' \in BOOLEAN
      BY <1>t DEF Notified, At, Live, Same, NoFacts, NoWorld, NoFault, hireFacts, TypeOK
    <2>2. calls' \in [FireEffects \cup {"register"} -> Nat] /\ faults' \in 0..MaxFaults
      BY <1>t, HireAssumption DEF Notified, At, Live, Same, NoFacts, NoWorld, NoFault, hireFacts, TypeOK
    <2>3. world' \subseteq Things /\ late' \subseteq Things
      BY <1>t DEF Notified, At, Live, Same, NoFacts, NoWorld, NoFault, hireFacts, TypeOK, Things
    <2>4. QED
      BY <1>t, <1>1, <1>2, <2>1, <2>2, <2>3, TypeKept
  <1>4. Retired'
    BY <1>h, <1>t, <1>e DEF Notified, At, Live, Same, NoFacts, NoWorld, NoFault, hireFacts, Retired
  <1>5. Kept
    BY <1>h, <1>t, <1>e, <1>2 DEF Notified, At, Live, Same, NoFacts, NoWorld, NoFault, hireFacts, Kept, Equipped, Bound, Configs, lifeVars
  <1>6. Registered' /\ Equipped'
    BY <1>h, <1>5, KeptSafe
  <1>7. HireMove
    BY <1>t, Order DEF Notified, At, Live, Same, NoFacts, NoWorld, NoFault, hireFacts, HireMove, TypeOK, Make
  <1>8. QED
    BY <1>3, <1>4, <1>5, <1>6, <1>7 DEF HireInv

\* A channel that goes down takes nothing else with it.
LEMMA ChannelDownSafe ==
    ASSUME HireInv, ChannelDown, UNCHANGED lifeVars
    PROVE  HireInv' /\ HireMove
  <1>t. TypeOK /\ FactsOK /\ act \in Acts /\ heff \in Heffs /\ faults \in 0..MaxFaults
    BY TypeParts DEF HireInv, FactsOK
  <1>h. Retired /\ Registered /\ Equipped
    BY DEF HireInv
  <1>e. HireEffects = {"reg", "store", "slash", "chan"} /\ EffectStates = {"none", "prepared", "executing", "committed", "action_required"}
    BY DEF HireEffects, EffectStates
  <1>1. FactsOK'
    BY <1>t, <1>e DEF ChannelDown, At, Live, Same, NoFacts, NoWorld, NoFault, hireFacts, Fault, FactsOK, Phases
  <1>2. act' \in Acts /\ act'.pc = act.pc
    BY <1>t, <1>e, ActTyped, ActParts, Paths DEF ChannelDown, At, Live, Same, NoFacts, NoWorld, NoFault, hireFacts, Fault, Bound, Pcs
  <1>3. TypeOK'
    <2>1. UNCHANGED <<up, admitted, lifeVars>> /\ lost' \in BOOLEAN
      BY <1>t DEF ChannelDown, At, Live, Same, NoFacts, NoWorld, NoFault, hireFacts, Fault, TypeOK
    <2>2. calls' \in [FireEffects \cup {"register"} -> Nat] /\ faults' \in 0..MaxFaults
      BY <1>t, HireAssumption DEF ChannelDown, At, Live, Same, NoFacts, NoWorld, NoFault, hireFacts, Fault, TypeOK
    <2>3. world' \subseteq Things /\ late' \subseteq Things
      BY <1>t DEF ChannelDown, At, Live, Same, NoFacts, NoWorld, NoFault, hireFacts, Fault, TypeOK, Things
    <2>4. QED
      BY <1>t, <1>1, <1>2, <2>1, <2>2, <2>3, TypeKept
  <1>4. Retired'
    BY <1>h, <1>t, <1>e DEF ChannelDown, At, Live, Same, NoFacts, NoWorld, NoFault, hireFacts, Fault, Retired
  <1>5. Registered'
    BY <1>h, <1>t, <1>e, <1>2 DEF ChannelDown, At, Live, Same, NoFacts, NoWorld, NoFault, hireFacts, Fault, Registered, Retired, Bound, TypeOK, Pcs
  <1>6. Equipped'
    BY <1>h, <1>t, <1>e, <1>2 DEF ChannelDown, At, Live, Same, NoFacts, NoWorld, NoFault, hireFacts, Fault, Equipped, Retired, Bound, Configs, Removable, lifeVars, Pcs
  <1>7. HireMove
    BY <1>t, Order DEF ChannelDown, At, Live, Same, NoFacts, NoWorld, NoFault, hireFacts, Fault, HireMove, TypeOK, Make
  <1>8. QED
    BY <1>3, <1>4, <1>5, <1>6, <1>7 DEF HireInv

\* A Channel that is down is fenced and the employee validated again.
LEMMA MonitorSafe ==
    ASSUME HireInv, Monitor, UNCHANGED lifeVars
    PROVE  HireInv' /\ HireMove
  <1>t. TypeOK /\ FactsOK /\ act \in Acts /\ heff \in Heffs /\ faults \in 0..MaxFaults
    BY TypeParts DEF HireInv, FactsOK
  <1>h. Retired /\ Registered /\ Equipped
    BY DEF HireInv
  <1>e. HireEffects = {"reg", "store", "slash", "chan"} /\ EffectStates = {"none", "prepared", "executing", "committed", "action_required"}
    BY DEF HireEffects, EffectStates
  <1>1. FactsOK'
    BY <1>t, <1>e DEF Monitor, At, Live, Same, NoFacts, NoWorld, NoFault, hireFacts, FactsOK, Phases
  <1>2. act' \in Acts /\ act'.pc \in {"start", "idle", "notify"}
    <2>1. act' = IF act.pc = "idle" THEN Activity(FALSE) ELSE act
      BY DEF Monitor
    <2>2. act.pc \in {"idle", "notify"}
      BY DEF Monitor
    <2>3. Activity(FALSE) \in Acts /\ Activity(FALSE).pc = "start"
      BY <1>t, ActTyped
    <2>4. QED
      BY <1>t, <2>1, <2>2, <2>3
  <1>3. TypeOK'
    <2>1. UNCHANGED <<up, admitted, lifeVars>> /\ lost' \in BOOLEAN
      BY <1>t DEF Monitor, At, Live, Same, NoFacts, NoWorld, NoFault, hireFacts, TypeOK
    <2>2. calls' \in [FireEffects \cup {"register"} -> Nat] /\ faults' \in 0..MaxFaults
      BY <1>t, HireAssumption DEF Monitor, At, Live, Same, NoFacts, NoWorld, NoFault, hireFacts, TypeOK
    <2>3. world' \subseteq Things /\ late' \subseteq Things
      BY <1>t DEF Monitor, At, Live, Same, NoFacts, NoWorld, NoFault, hireFacts, TypeOK, Things
    <2>4. QED
      BY <1>t, <1>1, <1>2, <2>1, <2>2, <2>3, TypeKept
  <1>4. Retired'
    BY <1>h, <1>t, <1>e DEF Monitor, At, Live, Same, NoFacts, NoWorld, NoFault, hireFacts, Retired
  <1>5. Kept
    BY <1>h, <1>t, <1>e, <1>2 DEF Monitor, At, Live, Same, NoFacts, NoWorld, NoFault, hireFacts, Kept, Equipped, Bound, Configs, lifeVars
  <1>6. Registered' /\ Equipped'
    BY <1>h, <1>5, KeptSafe
  <1>7. HireMove
    BY <1>t, Order DEF Monitor, At, Live, Same, NoFacts, NoWorld, NoFault, hireFacts, HireMove, TypeOK, Make
  <1>8. QED
    BY <1>3, <1>4, <1>5, <1>6, <1>7 DEF HireInv

\* Every step of the hire keeps the part of the invariant that is about it.
LEMMA HireSafe ==
    ASSUME HireInv, Hire
    PROVE  HireInv' /\ HireMove
  <1>1. UNCHANGED lifeVars /\ (HireStep \/ ChannelDown \/ Monitor)
    BY DEF Hire
  <1>2. CASE Configure \/ Provision \/ BeginRegister \/ Register \/ CommitRegistered \/ RegisterFailed
    BY <1>1, <1>2, ConfigureSafe, ProvisionSafe, BeginRegisterSafe, RegisterSafe, CommitRegisteredSafe,
       RegisterFailedSafe
  <1>3. CASE BeginStore \/ Put \/ CommitStored \/ StoreFailed \/ Bind
    BY <1>1, <1>3, BeginStoreSafe, PutSafe, CommitStoredSafe, StoreFailedSafe, BindSafe
  <1>4. CASE BeginSlash \/ Slash \/ CommitSlash \/ BeginChannel \/ StartChannel \/ CommitChannel \/ ChannelFailed
    BY <1>1, <1>4, BeginSlashSafe, SlashSafe, CommitSlashSafe, BeginChannelSafe, StartChannelSafe,
       CommitChannelSafe, ChannelFailedSafe
  <1>5. CASE Verify \/ Activate \/ Retry \/ Notified \/ ChannelDown \/ Monitor
    BY <1>1, <1>5, VerifySafe, ActivateSafe, RetrySafe, NotifiedSafe, ChannelDownSafe, MonitorSafe
  <1>6. QED
    BY <1>1, <1>2, <1>3, <1>4, <1>5 DEF HireStep

-----------------------------------------------------------------------------
(***************************************************************************)
(* The retirement                                                          *)
(***************************************************************************)

\* The part of the invariant that is about the retirement.
FireInv == FireAt /\ EffectsOrdered /\ Cleaned

\* Nothing is made that is not noted as late once a retirement is admitted.
LateNoted ==
    /\ late \subseteq late'
    /\ admitted => \A x \in Things : x \in world' \ late' => x \in world \ late

\* What is gone stays gone.
LEMMA GoneStays ==
    ASSUME LateNoted, admitted, NEW x \in Things, Gone(x)
    PROVE  Gone(x)'
  BY DEF LateNoted, Gone

\* What an effect removes is a thing that a hire makes.
LEMMA TargetIsThing == \A e \in FireEffects : Target[e] \in Things
  BY Order, Targets DEF Things

\* Where the thread of the saga may be.
FpcSound ==
    /\ fpc \in {"resume", "unknown", "run", "observe"} => fire.phase = "retiring"
    /\ fpc = "mark" => fire.phase = "action_required"
    /\ fpc = "unknown" => Waiting
    /\ fpc \in {"run", "observe"} =>
          \E e \in FireEffects : /\ Current(e) /\ fire.eff[e] = "executing" /\ ~Skipped(e)
                                 /\ fpc = "run" => calls[e] = 0

\* A step that leaves the record and the thread of the saga leaves them in
\* agreement.
LEMMA FpcSame ==
    ASSUME FireInv, UNCHANGED <<fire, fpc>>, \A e \in FireEffects : calls'[e] = calls[e]
    PROVE  FpcSound'
  <1>1. /\ \A e : Current(e)' <=> Current(e)
        /\ \A e : Skipped(e)' <=> Skipped(e)
        /\ Waiting' <=> Waiting
    BY DEF Current, Remaining, Skipped, Real, Waiting
  <1>2. QED
    BY <1>1 DEF FpcSound, FireInv, FireAt, EffectsOrdered

\* A step that leaves the record of the retirement and removes no secret.
LEMMA FireKept ==
    ASSUME TypeOK, FireInv, UNCHANGED <<fire, admitted>>, FpcSound', LateNoted,
           \A e \in FireEffects : calls'[e] = calls[e],
           "secret" \in world => "secret" \in world'
    PROVE  FireInv'
  <1>1. FireAt'
    BY DEF FireInv, FireAt, FpcSound
  <1>2. EffectsOrdered'
    <2>1. Real' <=> Real
      BY DEF Real
    <2>2. QED
      BY <2>1 DEF FireInv, EffectsOrdered, FpcSound
  <1>3. Cleaned'
    <2>1. admitted \in BOOLEAN /\ fire \in Fires
      BY DEF TypeOK, Fires
    <2>2. \A e \in FireEffects : ~Skipped(e)' /\ fire'.eff[e] = "committed" => Gone(Target[e])'
      <3> SUFFICES ASSUME NEW e \in FireEffects, ~Skipped(e), fire.eff[e] = "committed"
                   PROVE  Gone(Target[e])'
        BY DEF Skipped, Real
      <3>1. Gone(Target[e]) /\ Target[e] \in Things
        BY TargetIsThing DEF FireInv, Cleaned
      <3>2. CASE admitted
        BY <3>1, <3>2, GoneStays
      <3>3. CASE ~admitted
        BY <3>3 DEF FireInv, FireAt
      <3>4. QED
        BY <3>2, <3>3
    <2>3. (Real /\ "secret" \notin world => fire.eff["credential_destroy"] \notin {"none", "prepared"})'
      BY DEF FireInv, Cleaned, Real
    <2>4. (admitted /\ ~Real => \A x \in Removable : Gone(x))'
      BY GoneStays DEF FireInv, Cleaned, Real, Removable, Things
    <2>5. (fire.mode = "safe_abort" => Gone("app"))'
      <3> SUFFICES ASSUME fire.mode = "safe_abort" PROVE Gone("app")'
        OBVIOUS
      <3>1. admitted /\ Gone("app") /\ "app" \in Things
        BY DEF FireInv, FireAt, Cleaned, Things
      <3>2. QED
        BY <3>1, GoneStays
    <2>6. QED
      BY <2>2, <2>3, <2>4, <2>5 DEF Cleaned
  <1>4. QED
    BY <1>1, <1>2, <1>3 DEF FireInv

\* No step of the hire disturbs the retirement: what it makes is noted.
LEMMA HireKeepsFire ==
    ASSUME TypeOK, FireInv, HireMove
    PROVE  FireInv'
  <1>1. UNCHANGED <<fire, fpc, admitted>> /\ \A e \in FireEffects : calls'[e] = calls[e]
    BY DEF HireMove, lifeVars
  <1>2. LateNoted /\ ("secret" \in world => "secret" \in world')
    BY DEF HireMove, Make, LateNoted
  <1>3. FpcSound'
    BY <1>1, FpcSame
  <1>4. QED
    BY <1>1, <1>2, <1>3, FireKept

\* The record of the retirement, as the steps of the saga leave it.
LEMMA EffectSet ==
    ASSUME fire \in Fires, NEW e \in FireEffects, NEW s \in EffectStates, SetEffect(e, s)
    PROVE  /\ fire' \in Fires /\ fire'.eff[e] = s
           /\ \A d \in FireEffects : d # e => fire'.eff[d] = fire.eff[d]
           /\ fire'.mode = fire.mode /\ fire'.confirmed = fire.confirmed
           /\ fire'.phase = IF s = "action_required" THEN s ELSE fire.phase
  <1>1. fire' = [fire EXCEPT !.eff[e] = s, !.phase = IF s = "action_required" THEN s ELSE @]
    BY DEF SetEffect
  <1>2. QED
    BY <1>1 DEF Fires, EffectStates

\* Setting an effect that is not committed does not move the loop.
LEMMA CurrentStays ==
    ASSUME NEW e \in FireEffects, fire.eff[e] # "committed", fire'.eff[e] # "committed",
           \A d \in FireEffects : d # e => fire'.eff[d] = fire.eff[d]
    PROVE  \A d : Current(d)' <=> Current(d)
  <1>1. \A i \in DOMAIN FIRE_EFFECT_ORDER : FIRE_EFFECT_ORDER[i] \in FireEffects
    BY DEF FireEffects, Range
  <1>2. Remaining' = Remaining
    BY <1>1 DEF Remaining
  <1>3. QED
    BY <1>2 DEF Current

\* Where the steps of the saga leave everything but the retirement.
FireOnly ==
    /\ UNCHANGED <<up, phase, poisoned, heff, disposed, chall, principal, act, admitted, late, lost, join, crashes>>
    /\ quiet' \in BOOLEAN /\ faults' \in 0..MaxFaults
    /\ calls'["register"] = calls["register"] /\ calls' \in [FireEffects \cup {"register"} -> Nat]
    /\ world' \subseteq world

\* The record of the retirement says what the thread of the saga may do, and
\* the hire is as it was: the employee is retired, so nothing is claimed of what
\* the saga removes.
LEMMA FireOnlySafe ==
    ASSUME HireInv, admitted, FireOnly, fire' \in Fires, "app" \in world => "app" \in world',
           fpc' \in {"idle", "resume", "unknown", "run", "observe", "mark"}
    PROVE  HireInv'
  <1>1. TypeOK'
    BY DEF HireInv, FireOnly, TypeOK, Fires
  <1>2. Retired' /\ Registered'
    BY DEF HireInv, FireOnly, Retired, Registered
  <1>3. Equipped'
    BY DEF HireInv, FireOnly, Equipped
  <1>4. QED
    BY <1>1, <1>2, <1>3 DEF HireInv

\* Where effects are executed they are begun in their order.
Begun == Real => \A i, j \in DOMAIN FIRE_EFFECT_ORDER :
            i < j /\ fire.eff[FIRE_EFFECT_ORDER[j]] # "none" => fire.eff[FIRE_EFFECT_ORDER[i]] = "committed"

\* They stay so when the one the loop is at, or one that was begun, moves.
LEMMA BegunKept ==
    ASSUME Begun, fire'.mode = fire.mode, NEW e \in FireEffects, fire.eff[e] # "committed",
           Current(e) \/ fire.eff[e] # "none" \/ ~Real,
           \A d \in FireEffects : d # e => fire'.eff[d] = fire.eff[d]
    PROVE  Begun'
  <1> SUFFICES ASSUME Real, NEW i \in DOMAIN FIRE_EFFECT_ORDER, NEW j \in DOMAIN FIRE_EFFECT_ORDER,
                      i < j, fire'.eff[FIRE_EFFECT_ORDER[j]] # "none"
               PROVE  fire'.eff[FIRE_EFFECT_ORDER[i]] = "committed"
    BY DEF Begun, Real
  <1>1. /\ FIRE_EFFECT_ORDER[i] \in FireEffects /\ FIRE_EFFECT_ORDER[j] \in FireEffects
        /\ i \in 1..6 /\ j \in 1..6 /\ FIRE_EFFECT_ORDER[i] # FIRE_EFFECT_ORDER[j]
    BY Order DEF FireEffects, Range
  <1>2. CASE FIRE_EFFECT_ORDER[j] = e
    <2>1. fire.eff[FIRE_EFFECT_ORDER[i]] = "committed"
      BY <1>2, CurrentFacts DEF Begun
    <2>2. QED
      BY <1>1, <1>2, <2>1
  <1>3. CASE FIRE_EFFECT_ORDER[j] # e
    <2>1. fire.eff[FIRE_EFFECT_ORDER[i]] = "committed"
      BY <1>1, <1>3 DEF Begun
    <2>2. QED
      BY <1>1, <2>1
  <1>4. QED
    BY <1>2, <1>3

\* What is committed is cleaned up, and what is removed is not the hire's.
LEMMA CleanedKept ==
    ASSUME FireInv, admitted, admitted', world' \subseteq world, late' = late, fire'.mode = fire.mode,
           \A e \in FireEffects :
              fire'.eff[e] = "committed" /\ ~Skipped(e) => fire.eff[e] = "committed" \/ Gone(Target[e]),
           Real /\ "secret" \notin world' => fire'.eff["credential_destroy"] \notin {"none", "prepared"}
    PROVE  Cleaned'
  <1>1. \A x : Gone(x) => Gone(x)'
    BY DEF Gone
  <1>2. /\ Real' <=> Real
        /\ \A e : Skipped(e)' <=> Skipped(e)
    BY DEF Skipped, Real
  <1>3. \A e \in FireEffects : ~Skipped(e)' /\ fire'.eff[e] = "committed" => Gone(Target[e])'
    BY <1>1, <1>2 DEF FireInv, Cleaned
  <1>4. (admitted /\ ~Real => \A x \in Removable : Gone(x))'
    BY <1>1, <1>2 DEF FireInv, Cleaned, Removable
  <1>5. (fire.mode = "safe_abort" => Gone("app"))'
    BY <1>1 DEF FireInv, Cleaned
  <1>6. QED
    BY <1>2, <1>3, <1>4, <1>5 DEF Cleaned

\* A step of the saga that moves one effect on and makes no call.
LEMMA EffectMoves ==
    ASSUME HireInv, FireInv, admitted, NEW e \in FireEffects, NEW s \in EffectStates \ {"none"},
           SetEffect(e, s), fire.eff[e] # "committed", fire.phase = "retiring",
           Current(e) \/ fire.eff[e] # "none" \/ ~Real,
           s = "prepared" => fire.eff[e] = "none",
           s = "committed" => Skipped(e) \/ Gone(Target[e]),
           UNCHANGED <<world, late, calls, admitted>>,
           fpc' \in {"resume", "unknown", "mark", "run"},
           fpc' = "mark" <=> s = "action_required",
           fpc' = "unknown" => Waiting,
           fpc' = "run" => Current(e) /\ s = "executing" /\ ~Skipped(e) /\ fire.eff[e] = "prepared"
    PROVE  FireInv'
  <1>t. fire \in Fires /\ \A d \in FireEffects : fire.eff[d] \in EffectStates
    BY DEF HireInv, TypeOK, Fires
  <1>1. /\ fire' \in Fires /\ fire'.eff[e] = s
        /\ \A d \in FireEffects : d # e => fire'.eff[d] = fire.eff[d]
        /\ fire'.mode = fire.mode /\ fire'.confirmed = fire.confirmed
        /\ fire'.phase = IF s = "action_required" THEN s ELSE fire.phase
    BY <1>t, EffectSet
  <1>2. FireAt'
    BY <1>1 DEF FireInv, FireAt, Waiting
  <1>3. EffectsOrdered'
    <2>1. \A d \in FireEffects : calls'[d] <= 1
      BY DEF FireInv, EffectsOrdered
    <2>2. \A d \in FireEffects : fire'.eff[d] \in {"none", "prepared"} => calls'[d] = 0
      BY <1>1 DEF FireInv, EffectsOrdered
    <2>3. Begun'
      BY <1>1, BegunKept DEF FireInv, EffectsOrdered, Begun
    <2>4. ASSUME fpc' \in {"run", "observe"}
          PROVE  Current(e)' /\ fire'.eff[e] = "executing" /\ ~Skipped(e)' /\ calls'[e] = 0
      <3>1. Current(e) /\ s = "executing" /\ ~Skipped(e) /\ fire.eff[e] = "prepared"
        BY <2>4
      <3>2. Current(e)'
        BY <1>1, <3>1, CurrentStays
      <3>3. ~Skipped(e)'
        BY <1>1, <3>1 DEF Skipped, Real
      <3>4. QED
        BY <1>1, <3>1, <3>2, <3>3 DEF FireInv, EffectsOrdered
    <2>5. QED
      BY <2>1, <2>2, <2>3, <2>4 DEF EffectsOrdered, Begun
  <1>4. Cleaned'
    <2>1. \A d \in FireEffects :
             fire'.eff[d] = "committed" /\ ~Skipped(d) => fire.eff[d] = "committed" \/ Gone(Target[d])
      BY <1>1
    <2>2. Real /\ "secret" \notin world' => fire'.eff["credential_destroy"] \notin {"none", "prepared"}
      <3>1. "credential_destroy" \in FireEffects
        BY Order
      <3>2. QED
        BY <1>1, <3>1 DEF FireInv, Cleaned
    <2>3. QED
      BY <1>1, <2>1, <2>2, CleanedKept
  <1>5. QED
    BY <1>2, <1>3, <1>4 DEF FireInv

\* The thread of the saga runs only for an admitted retirement.
LEMMA SagaRuns ==
    ASSUME FireInv, TypeOK, fpc # "idle"
    PROVE  admitted /\ (fpc # "mark" => fire.phase = "retiring") /\ (fpc = "mark" => fire.phase = "action_required")
  BY DEF FireInv, FireAt, TypeOK

\* A step that changes only the record of the saga.
LEMMA OnlyFireSafe ==
    ASSUME HireInv, FireInv, admitted, OnlyFire, fire' \in Fires,
           fpc' \in {"idle", "resume", "unknown", "run", "observe", "mark"}
    PROVE  HireInv' /\ UNCHANGED <<world, late, calls, admitted>>
  <1>1. UNCHANGED <<hireVars, join, crashes>>
    BY DEF OnlyFire
  <1>2. UNCHANGED <<world, late, calls, admitted>>
    BY <1>1 DEF hireVars
  <1>3. FireOnly
    BY <1>1 DEF FireOnly, hireVars, hireFacts, HireInv, TypeOK
  <1>4. QED
    BY <1>2, <1>3, FireOnlySafe

\* A request that nobody can clean up for is reported or left as it is.
LEMMA ResumeUnknownSafe ==
    ASSUME HireInv, FireInv, ResumeUnknown
    PROVE  HireInv' /\ FireInv'
  <1>1. admitted /\ fire.phase = "retiring" /\ fire' = fire /\ fpc' \in {"idle", "unknown"} /\ Waiting /\ fire \in Fires
    BY SagaRuns DEF ResumeUnknown, HireInv, TypeOK, Fires
  <1>2. HireInv' /\ UNCHANGED <<world, late, calls, admitted>>
    BY <1>1, OnlyFireSafe DEF ResumeUnknown
  <1>3. FpcSound' /\ LateNoted
    BY <1>1, <1>2 DEF FpcSound, Waiting, LateNoted
  <1>4. QED
    BY <1>1, <1>2, <1>3, FireKept DEF HireInv

\* _transition() and _action_required() of the request that waits.
LEMMA ReportUnknownSafe ==
    ASSUME HireInv, FireInv, ReportUnknown
    PROVE  HireInv' /\ FireInv'
  <1>1. /\ admitted /\ fire.phase = "retiring" /\ Waiting /\ fire \in Fires /\ ~Real
        /\ "credential_destroy" \in FireEffects
    BY SagaRuns, Order DEF ReportUnknown, HireInv, TypeOK, Fires, FireInv, FireAt, Waiting, Real
  <1>2. ASSUME NEW s \in EffectStates \ {"none"}, SetEffect("credential_destroy", s),
               fire.eff["credential_destroy"] # "committed",
               s = "prepared" => fire.eff["credential_destroy"] = "none", s # "committed",
               fpc' \in {"unknown", "mark"}, fpc' = "mark" <=> s = "action_required"
        PROVE  HireInv' /\ FireInv'
    <2>1. fire' \in Fires
      BY <1>1, <1>2, EffectSet
    <2>2. HireInv' /\ UNCHANGED <<world, late, calls, admitted>>
      BY <1>1, <1>2, <2>1, OnlyFireSafe DEF ReportUnknown
    <2>3. QED
      BY <1>1, <1>2, <2>2, EffectMoves
  <1>3. QED
    BY <1>2 DEF ReportUnknown, EffectStates

\* PREPARED of the effect the loop is at.
LEMMA PrepareEffectSafe ==
    ASSUME HireInv, FireInv, PrepareEffect
    PROVE  HireInv' /\ FireInv'
  <1>1. PICK e \in FireEffects : /\ AtEffect(e) /\ fire.eff[e] = "none" /\ SetEffect(e, "prepared")
                                 /\ UNCHANGED fpc /\ OnlyFire
    BY DEF PrepareEffect
  <1>2. fpc = "resume" /\ Current(e) /\ admitted /\ fire.phase = "retiring" /\ fire \in Fires
        /\ "prepared" \in EffectStates \ {"none"}
    BY <1>1, SagaRuns DEF AtEffect, HireInv, TypeOK, Fires, EffectStates
  <1>3. fire' \in Fires
    BY <1>1, <1>2, EffectSet
  <1>4. HireInv' /\ UNCHANGED <<world, late, calls, admitted>>
    BY <1>1, <1>2, <1>3, OnlyFireSafe
  <1>5. QED
    BY <1>1, <1>2, <1>4, EffectMoves

\* EXECUTING of the effect the loop is at.
LEMMA BeginEffectSafe ==
    ASSUME HireInv, FireInv, BeginEffect
    PROVE  HireInv' /\ FireInv'
  <1>1. PICK e \in FireEffects : /\ AtEffect(e) /\ fire.eff[e] = "prepared" /\ SetEffect(e, "executing")
                                 /\ fpc' = (IF Skipped(e) THEN "resume" ELSE "run") /\ OnlyFire
    BY DEF BeginEffect
  <1>2. fpc = "resume" /\ Current(e) /\ admitted /\ fire.phase = "retiring" /\ fire \in Fires
        /\ "executing" \in EffectStates \ {"none"}
    BY <1>1, SagaRuns DEF AtEffect, HireInv, TypeOK, Fires, EffectStates
  <1>3. fire' \in Fires
    BY <1>1, <1>2, EffectSet
  <1>4. HireInv' /\ UNCHANGED <<world, late, calls, admitted>>
    BY <1>1, <1>2, <1>3, OnlyFireSafe
  <1>5. QED
    BY <1>1, <1>2, <1>4, EffectMoves

\* An effect with nothing to clean up is committed.
LEMMA SkipEffectSafe ==
    ASSUME HireInv, FireInv, SkipEffect
    PROVE  HireInv' /\ FireInv'
  <1>1. PICK e \in FireEffects : /\ AtEffect(e) /\ fire.eff[e] = "executing" /\ Skipped(e)
                                 /\ SetEffect(e, "committed") /\ UNCHANGED fpc /\ OnlyFire
    BY DEF SkipEffect
  <1>2. fpc = "resume" /\ Current(e) /\ admitted /\ fire.phase = "retiring" /\ fire \in Fires
        /\ "committed" \in EffectStates \ {"none"}
    BY <1>1, SagaRuns DEF AtEffect, HireInv, TypeOK, Fires, EffectStates
  <1>3. fire' \in Fires
    BY <1>1, <1>2, EffectSet
  <1>4. HireInv' /\ UNCHANGED <<world, late, calls, admitted>>
    BY <1>1, <1>2, <1>3, OnlyFireSafe
  <1>5. QED
    BY <1>1, <1>2, <1>4, EffectMoves

\* _reconcile_executing() only looks.
LEMMA ReconcileEffectSafe ==
    ASSUME HireInv, FireInv, ReconcileEffect
    PROVE  HireInv' /\ FireInv'
  <1>1. PICK e \in FireEffects : /\ AtEffect(e) /\ fire.eff[e] = "executing" /\ ~Skipped(e)
                                 /\ fpc' = "observe" /\ UNCHANGED fire /\ OnlyFire
    BY DEF ReconcileEffect
  <1>2. fpc = "resume" /\ Current(e) /\ admitted /\ fire.phase = "retiring" /\ fire \in Fires /\ fire' = fire
    BY <1>1, SagaRuns DEF AtEffect, HireInv, TypeOK, Fires
  <1>3. HireInv' /\ UNCHANGED <<world, late, calls, admitted>>
    BY <1>1, <1>2, OnlyFireSafe
  <1>4. Current(e)' /\ ~Skipped(e)'
    BY <1>1, <1>2 DEF Current, Remaining, Skipped, Real
  <1>5. FpcSound' /\ LateNoted
    BY <1>1, <1>2, <1>3, <1>4 DEF FpcSound, LateNoted
  <1>6. QED
    BY <1>2, <1>3, <1>5, FireKept DEF HireInv

\* The types after a step, part by part.
LEMMA TypeFrom ==
    ASSUME FactsOK', act' \in Acts, fire' \in Fires, up' \in {"up", "down", "blocked"},
           admitted' \in BOOLEAN, lost' \in BOOLEAN, join' \in BOOLEAN,
           world' \subseteq Things, late' \subseteq Things,
           calls' \in [FireEffects \cup {"register"} -> Nat],
           fpc' \in {"idle", "resume", "unknown", "run", "observe", "mark"},
           faults' \in 0..MaxFaults, crashes' \in 0..MaxCrashes
    PROVE  TypeOK'
  BY DEF TypeOK, FactsOK, Acts, Heffs, Fires

\* The effect at fpc "run" is the one the loop is at, and was not called before.
LEMMA RunsCurrent ==
    ASSUME FireInv, fpc \in {"run", "observe"}, NEW e \in FireEffects, Current(e)
    PROVE  fire.eff[e] = "executing" /\ ~Skipped(e) /\ (fpc = "run" => calls[e] = 0)
  <1>1. PICK d \in FireEffects : /\ Current(d) /\ fire.eff[d] = "executing" /\ ~Skipped(d)
                                 /\ fpc = "run" => calls[d] = 0
    BY DEF FireInv, EffectsOrdered
  <1>2. d = e
    BY <1>1, CurrentFacts
  <1>3. QED
    BY <1>1, <1>2

\* The effect is executed, for the first time.
LEMMA RunEffectSafe ==
    ASSUME HireInv, FireInv, RunEffect
    PROVE  HireInv' /\ FireInv'
  <1>1. PICK e \in FireEffects : /\ Current(e) /\ calls' = [calls EXCEPT ![e] = @ + 1]
                                 /\ \/ world' = world \ {Target[e]} /\ NoFault
                                    \/ UNCHANGED world /\ Fault
    BY DEF RunEffect
  <1>2. /\ fpc = "run" /\ fpc' = "observe" /\ fire' = fire /\ admitted /\ admitted' = admitted
        /\ late' = late /\ fire.phase = "retiring" /\ fire \in Fires /\ calls \in [FireEffects \cup {"register"} -> Nat]
        /\ faults \in 0..MaxFaults /\ TypeOK
    BY SagaRuns DEF RunEffect, HireInv, TypeOK, Fires
  <1>3. fire.eff[e] = "executing" /\ ~Skipped(e) /\ calls[e] = 0
    BY <1>1, <1>2, RunsCurrent
  <1>4. /\ Target[e] # "app" /\ (Target[e] = "secret" => e = "credential_destroy")
        /\ e # "register" /\ "credential_destroy" \in FireEffects
    BY Order, Targets
  <1>5. /\ calls' \in [FireEffects \cup {"register"} -> Nat] /\ calls'["register"] = calls["register"]
        /\ calls'[e] = 1 /\ \A d \in FireEffects : d # e => calls'[d] = calls[d]
    BY <1>1, <1>2, <1>3, <1>4
  <1>6. HireInv'
    <2>1. faults' \in 0..MaxFaults
      BY <1>1, <1>2, HireAssumption DEF NoFault, Fault
    <2>2. FireOnly
      BY <1>1, <1>2, <1>5, <2>1 DEF FireOnly, RunEffect, hireFacts, TypeOK
    <2>3. "app" \in world => "app" \in world'
      BY <1>1, <1>4
    <2>4. QED
      BY <1>2, <2>2, <2>3, FireOnlySafe
  <1>7. FireAt'
    BY <1>2 DEF FireInv, FireAt, Waiting
  <1>8. EffectsOrdered'
    <2>1. \A d \in FireEffects : calls'[d] <= 1
      BY <1>5 DEF FireInv, EffectsOrdered
    <2>2. \A d \in FireEffects : fire'.eff[d] \in {"none", "prepared"} => calls'[d] = 0
      BY <1>2, <1>3, <1>5 DEF FireInv, EffectsOrdered
    <2>3. Current(e)' /\ ~Skipped(e)' /\ (Real' <=> Real)
      BY <1>1, <1>2, <1>3 DEF Current, Remaining, Skipped, Real
    <2>4. QED
      BY <1>2, <1>3, <2>1, <2>2, <2>3 DEF FireInv, EffectsOrdered
  <1>9. Cleaned'
    <2>1. world' \subseteq world
      BY <1>1
    <2>2. Real /\ "secret" \notin world' => fire'.eff["credential_destroy"] \notin {"none", "prepared"}
      BY <1>1, <1>2, <1>3, <1>4 DEF FireInv, Cleaned
    <2>3. QED
      BY <1>2, <2>1, <2>2, CleanedKept
  <1>10. QED
    BY <1>6, <1>7, <1>8, <1>9 DEF FireInv

\* Only what is seen to be gone is committed; the rest is reported.
LEMMA ObserveEffectSafe ==
    ASSUME HireInv, FireInv, ObserveEffect
    PROVE  HireInv' /\ FireInv'
  <1>1. PICK e \in FireEffects :
           /\ Current(e)
           /\ \/ /\ Target[e] \notin world /\ NoFault
                 /\ SetEffect(e, "committed") /\ fpc' = "resume"
              \/ /\ IF Target[e] \in world THEN NoFault ELSE Fault
                 /\ SetEffect(e, "action_required") /\ fpc' = "mark"
    BY DEF ObserveEffect
  <1>2. /\ fpc = "observe" /\ admitted /\ fire.phase = "retiring" /\ fire \in Fires /\ TypeOK
        /\ faults \in 0..MaxFaults /\ UNCHANGED <<world, late, calls, admitted>>
        /\ {"committed", "action_required"} \subseteq EffectStates \ {"none"}
    BY SagaRuns DEF ObserveEffect, HireInv, TypeOK, Fires, EffectStates
  <1>3. fire.eff[e] = "executing"
    BY <1>1, <1>2, RunsCurrent
  <1>4. PICK s \in {"committed", "action_required"} :
           /\ SetEffect(e, s) /\ fpc' \in {"resume", "mark"} /\ (fpc' = "mark" <=> s = "action_required")
           /\ s = "committed" => Gone(Target[e])
    BY <1>1 DEF Gone
  <1>5. fire' \in Fires
    BY <1>2, <1>4, EffectSet
  <1>6. HireInv'
    <2>1. faults' \in 0..MaxFaults
      BY <1>1, <1>2, HireAssumption DEF NoFault, Fault
    <2>2. FireOnly
      BY <1>2, <2>1 DEF FireOnly, ObserveEffect, hireFacts, TypeOK
    <2>3. QED
      BY <1>2, <1>4, <1>5, <2>2, FireOnlySafe
  <1>7. FireInv'
    BY <1>1, <1>2, <1>3, <1>4, EffectMoves
  <1>8. QED
    BY <1>6, <1>7

\* The principal is marked: the employee is retired and claims nothing.
LEMMA MarkDestroyedSafe ==
    ASSUME HireInv, FireInv, MarkDestroyed
    PROVE  HireInv' /\ FireInv'
  <1>1. admitted /\ ~poisoned /\ TypeOK
    BY SagaRuns DEF MarkDestroyed, Live, HireInv
  <1>2. phase \notin Bound
    BY <1>1 DEF HireInv, Retired, Bound
  <1>3. /\ UNCHANGED <<up, phase, poisoned, heff, disposed, chall, world, act, admitted, calls, late, lost, faults>>
        /\ UNCHANGED <<fire, fpc, join, crashes>> /\ principal' = "destroyed" /\ quiet' = FALSE
    BY DEF MarkDestroyed, lifeVars
  <1>4. TypeOK'
    <2>1. FactsOK'
      BY <1>1, <1>3, TypeParts DEF FactsOK
    <2>2. QED
      BY <1>1, <1>3, <2>1, TypeParts, TypeFrom
  <1>5. Retired' /\ Registered' /\ Equipped'
    BY <1>1, <1>2, <1>3 DEF HireInv, Retired, Registered, Equipped, Bound
  <1>6. FpcSound' /\ LateNoted
    BY <1>3, FpcSame DEF LateNoted
  <1>7. QED
    BY <1>1, <1>3, <1>4, <1>5, <1>6, FireKept DEF HireInv

\* The employee shows that its cleanup failed.
LEMMA MarkFiredSafe ==
    ASSUME HireInv, FireInv, MarkFired
    PROVE  HireInv' /\ FireInv'
  <1>1. /\ TypeOK /\ UNCHANGED <<up, poisoned, heff, disposed, chall, principal, world, act, admitted, calls, late,
                                 lost, faults, fire, join, crashes>>
        /\ fpc' = "idle" /\ quiet' = FALSE /\ phase' \in {"archived", "action_required"}
    BY DEF MarkFired, HireInv
  <1>2. TypeOK'
    <2>1. FactsOK'
      BY <1>1, TypeParts DEF FactsOK, Phases
    <2>2. QED
      BY <1>1, <2>1, TypeParts, TypeFrom
  <1>3. Retired' /\ Registered' /\ Equipped'
    BY <1>1 DEF HireInv, Retired, Registered, Equipped, Bound
  <1>4. FpcSound' /\ LateNoted
    BY <1>1 DEF FpcSound, LateNoted
  <1>5. QED
    BY <1>1, <1>2, <1>3, <1>4, FireKept DEF HireInv

\* The record of the retirement moves to another phase and no effect is undone.
LEMMA PhaseMoves ==
    ASSUME HireInv, FireInv, admitted, fire' \in Fires, fire'.mode = fire.mode,
           UNCHANGED <<world, late, calls, admitted>>, NEW e \in FireEffects,
           fire.eff[e] \notin {"none", "prepared"} \/ ~Real,
           fire'.eff[e] = "committed", fire.eff[e] = "committed" \/ Skipped(e) \/ Gone(Target[e]),
           \A d \in FireEffects : d # e => fire'.eff[d] = fire.eff[d],
           fpc' \in {"idle", "resume"}
    PROVE  EffectsOrdered' /\ Cleaned'
  <1>1. Begun'
    <2>1. CASE fire.eff[e] = "committed"
      <3>1. \A d \in FireEffects : fire'.eff[d] = fire.eff[d]
        BY <2>1
      <3>2. \A i \in DOMAIN FIRE_EFFECT_ORDER : FIRE_EFFECT_ORDER[i] \in FireEffects
        BY DEF FireEffects, Range
      <3>3. QED
        BY <3>1, <3>2 DEF FireInv, EffectsOrdered, Begun, Real
    <2>2. CASE fire.eff[e] # "committed"
      BY <2>2, BegunKept DEF FireInv, EffectsOrdered, Begun
    <2>3. QED
      BY <2>1, <2>2
  <1>2. EffectsOrdered'
    BY <1>1 DEF FireInv, EffectsOrdered, Begun
  <1>3. "credential_destroy" \in FireEffects
    BY Order
  <1>4. Real /\ "secret" \notin world' => fire'.eff["credential_destroy"] \notin {"none", "prepared"}
    BY <1>3 DEF FireInv, Cleaned
  <1>5. Cleaned'
    BY <1>4, CleanedKept
  <1>6. QED
    BY <1>2, <1>5

\* mark_archived(): every effect is committed.
LEMMA ArchiveSafe ==
    ASSUME HireInv, FireInv, Archive
    PROVE  HireInv' /\ FireInv'
  <1>1. /\ TypeOK /\ UNCHANGED <<up, poisoned, heff, disposed, chall, principal, world, act, admitted, calls, late,
                                 lost, faults, join, crashes>>
        /\ fpc' = "idle" /\ quiet' = FALSE /\ phase' = "archived" /\ ~Waiting /\ Remaining = {}
        /\ fire' = [fire EXCEPT !.phase = "archived"] /\ admitted /\ fire \in Fires
    BY SagaRuns DEF Archive, HireInv, TypeOK, Fires
  <1>2. /\ fire' \in Fires /\ fire'.phase = "archived" /\ fire'.mode = fire.mode
        /\ fire'.confirmed = fire.confirmed /\ fire'.eff = fire.eff
    BY <1>1 DEF Fires
  <1>3. \A e \in FireEffects : fire.eff[e] = "committed"
    BY <1>1 DEF Remaining, FireEffects, Range
  <1>4. TypeOK'
    <2>1. FactsOK'
      BY <1>1, TypeParts DEF FactsOK, Phases
    <2>2. QED
      BY <1>1, <1>2, <2>1, TypeParts, TypeFrom
  <1>5. Retired' /\ Registered' /\ Equipped'
    BY <1>1 DEF HireInv, Retired, Registered, Equipped, Bound
  <1>6. FireAt'
    BY <1>1, <1>2, <1>3 DEF FireInv, FireAt, Waiting
  <1>7. EffectsOrdered' /\ Cleaned'
    <2>1. "archive_move" \in FireEffects
      BY Order
    <2>2. QED
      BY <1>1, <1>2, <1>3, <2>1, PhaseMoves
  <1>8. QED
    BY <1>4, <1>5, <1>6, <1>7 DEF HireInv, FireInv

\* _retry_action_required(): the effect that failed is committed if it is seen
\* to be done.
LEMMA FireAgainSafe ==
    ASSUME HireInv, FireInv, FireAgain
    PROVE  HireInv' /\ FireInv'
  <1>1. PICK e \in FireEffects :
           /\ fire.eff[e] = "action_required" /\ Target[e] \notin world
           /\ fire' = [fire EXCEPT !.eff[e] = "committed", !.phase = "retiring"]
    BY DEF FireAgain
  <1>2. fire.phase = "action_required" /\ fpc' = "resume" /\ OnlyFire /\ fire \in Fires
    BY DEF FireAgain, HireInv, TypeOK, Fires
  <1>3. /\ fire' \in Fires /\ fire'.phase = "retiring" /\ fire'.mode = fire.mode
        /\ fire'.confirmed = fire.confirmed /\ fire'.eff[e] = "committed"
        /\ \A d \in FireEffects : d # e => fire'.eff[d] = fire.eff[d]
    BY <1>1, <1>2 DEF Fires, EffectStates
  <1>4. admitted
    BY <1>2 DEF FireInv, FireAt
  <1>5. HireInv' /\ UNCHANGED <<world, late, calls, admitted>>
    BY <1>2, <1>3, <1>4, OnlyFireSafe
  <1>6. FireAt'
    BY <1>2, <1>3, <1>4, <1>5 DEF FireInv, FireAt, Waiting
  <1>7. Gone(Target[e])
    BY <1>1 DEF Gone
  <1>8. EffectsOrdered' /\ Cleaned'
    BY <1>1, <1>2, <1>3, <1>4, <1>5, <1>7, PhaseMoves
  <1>9. QED
    BY <1>5, <1>6, <1>8 DEF FireInv

\* An administrator confirms that the unknown app was disposed of.
LEMMA ConfirmSafe ==
    ASSUME HireInv, FireInv, Confirm
    PROVE  HireInv' /\ FireInv'
  <1>1. /\ fire.phase = "action_required" /\ fpc' = "resume" /\ OnlyFire /\ fire \in Fires
        /\ fire.mode = "external_unknown" /\ ~Real /\ "credential_destroy" \in FireEffects
        /\ fire' = [fire EXCEPT !.eff["credential_destroy"] = "committed",
                                !.phase = "retiring", !.confirmed = TRUE]
    BY Order DEF Confirm, HireInv, TypeOK, Fires, Waiting, Real
  <1>2. /\ fire' \in Fires /\ fire'.phase = "retiring" /\ fire'.mode = fire.mode
        /\ fire'.eff["credential_destroy"] = "committed"
        /\ \A d \in FireEffects : d # "credential_destroy" => fire'.eff[d] = fire.eff[d]
    BY <1>1 DEF Fires, EffectStates
  <1>3. admitted
    BY <1>1 DEF FireInv, FireAt
  <1>4. HireInv' /\ UNCHANGED <<world, late, calls, admitted>>
    BY <1>1, <1>2, <1>3, OnlyFireSafe
  <1>5. FireAt'
    BY <1>1, <1>2, <1>3, <1>4 DEF FireInv, FireAt
  <1>6. Skipped("credential_destroy")
    BY <1>1 DEF Skipped
  <1>7. EffectsOrdered' /\ Cleaned'
    BY <1>1, <1>2, <1>3, <1>4, <1>6, PhaseMoves
  <1>8. QED
    BY <1>4, <1>5, <1>7 DEF FireInv

\* admit(): what there is to clean up is classified while nothing was removed.
LEMMA AdmitSafe ==
    ASSUME HireInv, FireInv, Admit
    PROVE  HireInv' /\ FireInv'
  <1>1. /\ TypeOK /\ ~admitted /\ admitted' = TRUE /\ fpc' = "resume" /\ phase' = "retiring" /\ quiet' = FALSE
        /\ UNCHANGED <<up, poisoned, chall, principal, world, act, calls, late, lost, faults, join, crashes>>
        /\ fire' = [fire EXCEPT !.phase = "retiring", !.mode = CleanupMode]
        /\ heff' = Dispose(heff) /\ disposed' = (disposed \/ Open(heff) # {})
    BY DEF Admit, HireInv
  <1>2. fire \in Fires /\ heff \in Heffs /\ CleanupMode \in {"bound", "recoverable", "safe_abort", "external_unknown"}
    BY <1>1, TypeParts DEF FactsOK, CleanupMode
  <1>3. /\ fire' \in Fires /\ fire'.phase = "retiring" /\ fire'.mode = CleanupMode
        /\ fire'.eff = fire.eff
    BY <1>1, <1>2 DEF Fires
  <1>4. /\ heff' \in Heffs
        /\ heff'["reg"] \in {"none", "prepared"} => heff["reg"] \in {"none", "prepared"}
        /\ heff'["reg"] = "committed" => heff["reg"] = "committed"
    BY <1>1, <1>2, DisposeFacts DEF HireEffects
  <1>5. TypeOK'
    <2>1. disposed' \in BOOLEAN
      BY <1>1
    <2>2. FactsOK'
      BY <1>1, <1>4, <2>1, TypeParts DEF FactsOK, Phases
    <2>3. QED
      BY <1>1, <1>3, <2>2, TypeParts, TypeFrom
  <1>6. Retired' /\ Registered' /\ Equipped'
    BY <1>1, <1>4 DEF HireInv, Retired, Registered, Equipped, Bound
  <1>7. \A e \in FireEffects : fire.eff[e] = "none"
    BY <1>1 DEF FireInv, FireAt
  <1>8. FireAt'
    BY <1>1, <1>2, <1>3 DEF FireInv, FireAt
  <1>9. EffectsOrdered'
    <2>1. \A i \in DOMAIN FIRE_EFFECT_ORDER : FIRE_EFFECT_ORDER[i] \in FireEffects
      BY DEF FireEffects, Range
    <2>2. QED
      BY <1>1, <1>3, <1>7, <2>1 DEF FireInv, EffectsOrdered
  <1>10. Cleaned'
    <2>1. Real' => "secret" \in world
      BY <1>1, <1>3 DEF HireInv, Equipped, CleanupMode, Real
    <2>2. ~Real' => \A x \in Removable : Gone(x)'
      <3> SUFFICES ASSUME ~Real' PROVE \A x \in Removable : Gone(x)'
        OBVIOUS
      <3>1. principal # "bound"
        BY <1>3 DEF CleanupMode, Real
      <3>2. world \cap Removable = {}
        BY <1>1, <3>1 DEF HireInv, Equipped
      <3>3. QED
        BY <1>1, <3>2 DEF Gone
    <2>3. fire'.mode = "safe_abort" => Gone("app")'
      BY <1>1, <1>3 DEF HireInv, Registered, CleanupMode, Gone
    <2>4. QED
      BY <1>1, <1>3, <1>7, <2>1, <2>2, <2>3 DEF Cleaned
  <1>11. QED
    BY <1>5, <1>6, <1>8, <1>9, <1>10 DEF HireInv, FireInv

-----------------------------------------------------------------------------
(***************************************************************************)
(* The world around it                                                     *)
(***************************************************************************)

\* Attempts begin and end; only an active employee gets one.
LEMMA WorkSafe ==
    ASSUME HireInv, FireInv, Work
    PROVE  HireInv' /\ FireInv'
  <1>1. /\ TypeOK /\ Live /\ UNCHANGED <<up, hireFacts, act, admitted, calls, lost, faults, fire, fpc, crashes, late, join>>
        /\ \/ phase = "active" /\ world' = world \cup {"work"}
           \/ world' = world \ {"work"}
    BY DEF Work, World, HireInv
  <1>2. UNCHANGED <<phase, poisoned, heff, disposed, chall, quiet, principal>> /\ ~poisoned
    BY <1>1 DEF hireFacts, Live
  <1>3. phase = "active" => ~admitted /\ principal = "bound"
    BY <1>2 DEF HireInv, Retired, Equipped, Bound
  <1>4. TypeOK'
    <2>1. FactsOK' /\ world' \subseteq Things
      BY <1>1, <1>2, TypeParts DEF FactsOK, Things
    <2>2. QED
      BY <1>1, <2>1, TypeParts, TypeFrom
  <1>5. Retired' /\ Registered'
    BY <1>1, <1>2 DEF HireInv, Retired, Registered
  <1>6. Equipped'
    BY <1>1, <1>2, <1>3 DEF HireInv, Equipped
  <1>7. FpcSound'
    BY <1>1, FpcSame
  <1>8. LateNoted /\ ("secret" \in world => "secret" \in world')
    BY <1>1, <1>3 DEF LateNoted
  <1>9. QED
    BY <1>1, <1>4, <1>5, <1>6, <1>7, <1>8, FireKept DEF HireInv

\* The Bot is being added to a group.
LEMMA BeginJoinSafe ==
    ASSUME HireInv, FireInv, BeginJoin
    PROVE  HireInv' /\ FireInv'
  <1>1. /\ TypeOK /\ UNCHANGED <<up, hireFacts, world, act, admitted, calls, lost, faults, fire, fpc, crashes, late>>
        /\ phase = "active" /\ join' = TRUE
    BY DEF BeginJoin, World, HireInv
  <1>2. UNCHANGED <<phase, poisoned, heff, disposed, chall, quiet, principal>> /\ principal = "bound"
    BY <1>1 DEF hireFacts, HireInv, Equipped, Bound
  <1>3. TypeOK'
    <2>1. FactsOK'
      BY <1>2, <1>1, TypeParts DEF FactsOK
    <2>2. QED
      BY <1>1, <2>1, TypeParts, TypeFrom
  <1>4. Retired' /\ Registered' /\ Equipped'
    BY <1>1, <1>2 DEF HireInv, Retired, Registered, Equipped
  <1>5. FpcSound' /\ LateNoted
    BY <1>1, FpcSame DEF LateNoted
  <1>6. QED
    BY <1>1, <1>3, <1>4, <1>5, FireKept DEF HireInv

\* It is added, maybe after the retirement was admitted.
LEMMA JoinSafe ==
    ASSUME HireInv, FireInv, Join
    PROVE  HireInv' /\ FireInv'
  <1>1. /\ TypeOK /\ UNCHANGED <<up, hireFacts, act, admitted, calls, lost, faults, fire, fpc, crashes>>
        /\ join = TRUE /\ join' = FALSE /\ Make("member")
    BY DEF Join, HireInv, TypeOK
  <1>2. UNCHANGED <<phase, poisoned, heff, disposed, chall, quiet, principal>>
    BY <1>1 DEF hireFacts
  <1>3. TypeOK'
    <2>1. FactsOK' /\ world' \subseteq Things /\ late' \subseteq Things
      BY <1>1, <1>2, TypeParts DEF FactsOK, Things, Make
    <2>2. QED
      BY <1>1, <2>1, TypeParts, TypeFrom
  <1>4. Retired' /\ Registered'
    BY <1>1, <1>2 DEF HireInv, Retired, Registered, Make
  <1>5. Equipped'
    BY <1>1, <1>2 DEF HireInv, Equipped, Make
  <1>6. FpcSound'
    BY <1>1, FpcSame
  <1>7. LateNoted /\ ("secret" \in world => "secret" \in world')
    BY <1>1 DEF LateNoted, Make
  <1>8. QED
    BY <1>1, <1>3, <1>4, <1>5, <1>6, <1>7, FireKept DEF HireInv

\* What a failed effect left is removed by somebody else.
LEMMA SettleSafe ==
    ASSUME HireInv, FireInv, Settle
    PROVE  HireInv' /\ FireInv'
  <1>1. PICK e \in FireEffects : /\ fire.eff[e] = "action_required" /\ world' = world \ {Target[e]}
    BY DEF Settle, World
  <1>2. /\ TypeOK /\ UNCHANGED <<up, hireFacts, act, admitted, calls, lost, faults, fire, fpc, crashes, late, join>>
        /\ fire.phase = "action_required" /\ fpc = "idle" /\ fire \in Fires
    BY DEF Settle, World, HireInv, TypeOK, Fires
  <1>3. admitted
    BY <1>2 DEF FireInv, FireAt
  <1>4. Target[e] # "app" /\ (Target[e] = "secret" => e = "credential_destroy")
    BY Order, Targets
  <1>5. HireInv'
    <2>1. FireOnly
      BY <1>1, <1>2 DEF FireOnly, hireFacts, TypeOK
    <2>2. QED
      BY <1>1, <1>2, <1>3, <1>4, <2>1, FireOnlySafe
  <1>6. FireAt' /\ EffectsOrdered'
    <2>1. FpcSound' /\ (Real' <=> Real)
      BY <1>2, FpcSame DEF Real
    <2>2. QED
      BY <1>2, <2>1 DEF FireInv, FireAt, EffectsOrdered, FpcSound
  <1>7. Cleaned'
    <2>1. Real /\ "secret" \notin world' => fire'.eff["credential_destroy"] \notin {"none", "prepared"}
      BY <1>1, <1>2, <1>4 DEF FireInv, Cleaned
    <2>2. QED
      BY <1>1, <1>2, <1>3, <2>1, CleanedKept
  <1>8. QED
    BY <1>5, <1>6, <1>7 DEF FireInv

\* The process ends, its threads and its Channel with it.
LEMMA CrashSafe ==
    ASSUME HireInv, FireInv, Crash
    PROVE  HireInv' /\ FireInv'
  <1>1. PICK m \in {{}, {"member"}} :
           /\ m # {} => join
           /\ world' = (world \ {"work", "channel"}) \cup m
           /\ late' = IF admitted THEN late \cup m ELSE late
    BY DEF Crash
  <1>2. /\ TypeOK /\ UNCHANGED <<hireFacts, admitted, calls, lost, faults, fire>>
        /\ up' = "down" /\ act' = NoActivity /\ fpc' = "idle" /\ join' = FALSE
        /\ crashes < MaxCrashes /\ crashes' = crashes + 1
    BY DEF Crash, HireInv
  <1>3. /\ UNCHANGED <<phase, poisoned, heff, disposed, chall, quiet, principal>>
        /\ act' \in Acts /\ act'.pc = "idle"
    BY <1>2, ActTyped, TypeParts DEF hireFacts
  <1>4. TypeOK'
    <2>1. FactsOK' /\ world' \subseteq Things /\ late' \subseteq Things
      BY <1>1, <1>2, <1>3, TypeParts DEF FactsOK, Things
    <2>2. crashes' \in 0..MaxCrashes
      BY <1>2, TypeParts, LifecycleAssumption
    <2>3. QED
      BY <1>2, <1>3, <2>1, <2>2, TypeParts, TypeFrom
  <1>5. Retired' /\ Registered'
    BY <1>1, <1>2, <1>3 DEF HireInv, Retired, Registered
  <1>6. Equipped'
    <2>1. (phase \in Bound => principal = "bound")'
      BY <1>3 DEF HireInv, Equipped
    <2>2. (phase \in {"ready", "active"} =>
             /\ act.pc \in {"activate", "idle", "notify"} /\ (phase = "active" => act.pc # "activate")
             /\ heff["slash"] = "committed" /\ heff["chan"] = "committed")'
      BY <1>3 DEF HireInv, Equipped
    <2>3. ASSUME ~admitted
          PROVE  /\ (heff["store"] = "committed" \/ principal = "bound") => "secret" \in world'
                 /\ heff["slash"] = "committed" => "slash" \in world'
                 /\ world' \cap Removable # {} => principal = "bound"
      BY <1>1, <2>3 DEF HireInv, Equipped, Removable
    <2>4. QED
      BY <1>2, <1>3, <2>1, <2>2, <2>3 DEF Equipped, Configs
  <1>7. FpcSound'
    BY <1>2 DEF FpcSound
  <1>8. LateNoted /\ ("secret" \in world => "secret" \in world')
    BY <1>1 DEF LateNoted
  <1>9. QED
    BY <1>2, <1>4, <1>5, <1>6, <1>7, <1>8, FireKept DEF HireInv

\* What recovery of the hire leaves: the facts of the journal, by the phase it
\* finds them in.
LEMMA RecoverFacts ==
    ASSUME HireInv, RecoverHire, up = "down", UNCHANGED <<world, admitted, calls, join>>,
           act'.pc \in {"start", "idle"}
    PROVE  FactsOK' /\ up' \in {"up", "blocked"} /\ Retired' /\ Registered' /\ Equipped'
  <1>t. FactsOK /\ heff \in Heffs /\ Retired /\ Registered /\ Equipped
    BY TypeParts DEF HireInv, FactsOK
  <1>e. /\ HireEffects = {"reg", "store", "slash", "chan"}
        /\ EffectStates = {"none", "prepared", "executing", "committed", "action_required"}
    BY DEF HireEffects, EffectStates
  <1>1. ASSUME UNCHANGED hireFacts, up' \in {"up", "blocked"}
        PROVE  FactsOK' /\ Retired' /\ Registered' /\ Equipped'
    <2>1. UNCHANGED <<phase, poisoned, heff, disposed, chall, quiet, principal>>
      BY <1>1 DEF hireFacts
    <2>2. FactsOK' /\ Retired'
      BY <1>t, <2>1 DEF FactsOK, Retired
    <2>3. CASE phase \notin {"ready", "active"} \/ act'.pc = "idle"
      <3>1. Kept
        BY <1>t, <2>1, <2>3 DEF Kept, Equipped, Bound, Configs
      <3>2. QED
        BY <1>t, <2>2, <3>1, KeptSafe
    <2>4. CASE phase \in {"ready", "active"} /\ act'.pc = "start"
      BY <1>1, <2>1, <2>4 DEF RecoverHire, RecoverConfigured, RecoverBind, RecoverUnknown, RecoverUntouched,
         Pending, NoActivity
    <2>5. QED
      BY <2>2, <2>3, <2>4
  <1>2. CASE /\ ~poisoned /\ phase \in {"provisioning", "retiring"} /\ RecoverBind
    <2>1. /\ heff' = [heff EXCEPT !["store"] = "committed"] /\ heff["reg"] = "committed" /\ CanBind
          /\ principal' = IF principal = "none" THEN "bound" ELSE principal
          /\ phase' = IF principal = "none" THEN "configuring" ELSE phase
          /\ poisoned' = (principal = "none" /\ phase = "retiring")
          /\ UNCHANGED <<disposed, chall, quiet>> /\ up' \in {"up", "blocked"}
      BY <1>2 DEF RecoverBind
    <2>2. /\ heff' \in Heffs /\ heff'["reg"] = heff["reg"] /\ heff'["slash"] = heff["slash"]
          /\ heff'["store"] = "committed"
      BY <1>t, <1>e, <2>1 DEF Heffs
    <2>3. poisoned' \in BOOLEAN
      BY <2>1
    <2>4. FactsOK'
      BY <1>t, <2>1, <2>2, <2>3 DEF FactsOK, Phases
    <2>5. Retired'
      BY <1>t, <1>2, <2>1 DEF Retired
    <2>6. Registered'
      BY <1>t, <2>1, <2>2 DEF Registered
    <2>7. Equipped'
      <3>1. ~admitted => "secret" \in world
        BY <1>t, <2>1 DEF CanBind, Equipped
      <3>2. phase' \in Bound => principal' = "bound"
        BY <1>2, <2>1 DEF Bound
      <3>3. phase' \notin {"ready", "active"}
        BY <1>2, <2>1
      <3>4. ~admitted => (heff["slash"] = "committed" => "slash" \in world)
                         /\ (join \/ world \cap Removable # {} => principal = "bound")
        BY <1>t DEF Equipped
      <3>5. principal = "bound" => principal' = "bound"
        BY <2>1
      <3>6. act'.pc \notin {"receipt", "bind", "slashDone"} /\ act'.pc \notin Configs
        BY DEF Configs
      <3>7. QED
        BY <2>2, <3>1, <3>2, <3>3, <3>4, <3>5, <3>6 DEF Equipped
    <2>8. QED
      BY <2>1, <2>4, <2>5, <2>6, <2>7
  <1>3. ASSUME ~poisoned, UNCHANGED <<poisoned, principal>>, up' = "up", FactsOK',
               phase' = "action_required" \/ (phase \in Bound /\ phase' \in {"configuring", "validating"}),
               \A e \in HireEffects : heff'[e] = heff[e] \/ heff'[e] = "action_required"
        PROVE  FactsOK' /\ Retired' /\ Registered' /\ Equipped'
    <2>1. Retired'
      BY <1>t, <1>3 DEF Retired, Bound
    <2>2. Kept
      BY <1>t, <1>e, <1>3 DEF Kept, Equipped, Bound, Configs
    <2>3. QED
      BY <1>t, <1>3, <2>1, <2>2, KeptSafe
  <1>4. CASE ~poisoned /\ RecoverUnknown
    <2>1. heff' = Dispose(heff) /\ phase' = "action_required" /\ up' = "up"
          /\ UNCHANGED <<poisoned, chall, quiet, principal>> /\ disposed' = (disposed \/ Open(heff) # {})
      BY <1>4 DEF RecoverUnknown
    <2>2. disposed' \in BOOLEAN
      BY <2>1
    <2>3. FactsOK'
      BY <1>t, <2>1, <2>2, DisposeFacts DEF FactsOK, Phases
    <2>4. QED
      BY <1>t, <1>3, <1>4, <2>1, <2>3, DisposeFacts
  <1>5. CASE ~poisoned /\ RecoverConfigured
    <2>1. /\ phase \in Bound /\ up' = "up" /\ UNCHANGED <<poisoned, principal>>
          /\ phase' \in {"action_required", "configuring", "validating"}
          /\ heff' = Dispose(heff) \/ heff' = heff
          /\ disposed' = (disposed \/ Open(heff) # {}) \/ disposed' = disposed
          /\ quiet' = FALSE \/ quiet' = TRUE
          /\ chall' \in {"reopened", chall}
      BY <1>5 DEF RecoverConfigured, Bound
    <2>2. disposed' \in BOOLEAN /\ quiet' \in BOOLEAN
      BY <1>t, <2>1 DEF FactsOK
    <2>3. FactsOK'
      BY <1>t, <2>1, <2>2, DisposeFacts DEF FactsOK, Phases
    <2>4. QED
      BY <1>t, <1>3, <1>5, <2>1, <2>3, DisposeFacts
  <1>6. QED
    BY <1>1, <1>2, <1>4, <1>5 DEF RecoverHire, RecoverUntouched

\* recover(): the hire is reconciled and the retirement goes on.
LEMMA RecoverSafe ==
    ASSUME HireInv, FireInv, Recover
    PROVE  HireInv' /\ FireInv'
  <1>1. /\ TypeOK /\ up = "down" /\ RecoverHire
        /\ UNCHANGED <<world, admitted, calls, late, faults, fire, join, crashes>>
        /\ fpc' \in {"idle", "resume", "mark"}
        /\ fpc' = "resume" => fire.phase = "retiring"
        /\ fpc' = "mark" => fire.phase = "action_required"
    BY DEF Recover, HireInv
  <1>2. act' \in Acts /\ act'.pc \in {"start", "idle"} /\ lost' \in BOOLEAN
    BY <1>1, ActTyped, TypeParts DEF RecoverHire
  <1>3. FactsOK' /\ up' \in {"up", "blocked"} /\ Retired' /\ Registered' /\ Equipped'
    BY <1>1, <1>2, RecoverFacts
  <1>4. TypeOK'
    BY <1>1, <1>2, <1>3, TypeParts, TypeFrom
  <1>5. FpcSound' /\ LateNoted
    BY <1>1 DEF FpcSound, LateNoted
  <1>6. QED
    BY <1>1, <1>3, <1>4, <1>5, FireKept DEF HireInv

-----------------------------------------------------------------------------
(***************************************************************************)
(* The theorems                                                            *)
(***************************************************************************)

\* An employee that start_hire() has just admitted.
LEMMA InitLife == Init => LifeInv
  <1> SUFFICES ASSUME Init PROVE LifeInv
    OBVIOUS
  <1>1. /\ up = "up" /\ phase = "provisioning" /\ poisoned = FALSE /\ disposed = FALSE /\ chall = "none"
        /\ quiet = FALSE /\ principal = "none" /\ world = {"dir"} /\ act = Activity(FALSE)
        /\ admitted = FALSE /\ late = {} /\ lost = FALSE /\ faults = 0
        /\ heff = [e \in HireEffects |-> "none"]
        /\ calls = [c \in FireEffects \cup {"register"} |-> 0]
        /\ fire = [phase |-> "none", mode |-> "none", confirmed |-> FALSE, eff |-> [e \in FireEffects |-> "none"]]
        /\ fpc = "idle" /\ join = FALSE /\ crashes = 0
    BY DEF Init, HireInit
  <1>2. act \in Acts /\ act.pc = "start"
    BY <1>1, HireAssumption DEF Activity, Acts, Pcs
  <1>3. heff["reg"] = "none" /\ heff["store"] = "none" /\ heff["slash"] = "none"
    BY <1>1 DEF HireEffects
  <1>4. /\ calls["register"] = 0 /\ \A e \in FireEffects : calls[e] = 0 /\ fire.eff[e] = "none"
    BY <1>1
  <1>5. TypeOK
    <2>1. fire \in Fires /\ calls \in [FireEffects \cup {"register"} -> Nat] /\ heff \in Heffs
      BY <1>1 DEF Fires, Heffs, EffectStates
    <2>2. faults \in 0..MaxFaults /\ crashes \in 0..MaxCrashes
      BY <1>1, HireAssumption, LifecycleAssumption
    <2>3. QED
      BY <1>1, <1>2, <2>1, <2>2 DEF TypeOK, Acts, Heffs, Fires, Phases, Things
  <1>6. Retired /\ Registered
    <2>1. admitted = FALSE /\ "app" \notin world /\ phase \notin Bound
      BY <1>1 DEF Bound
    <2>2. Retired
      BY <2>1 DEF Retired
    <2>3. Registered
      BY <1>2, <1>3, <1>4, <2>1 DEF Registered
    <2>4. QED
      BY <2>2, <2>3
  <1>7. Equipped
    BY <1>1, <1>2, <1>3 DEF Equipped, Bound, Configs, Removable
  <1>8. FireAt /\ Cleaned
    BY <1>1, <1>4 DEF FireAt, Cleaned, Real, Waiting
  <1>9. EffectsOrdered
    BY <1>1, <1>4 DEF EffectsOrdered, Real
  <1>10. QED
    BY <1>5, <1>6, <1>7, <1>8, <1>9 DEF LifeInv

\* Every step keeps the invariant.
LEMMA StepLife == LifeInv /\ [Next]_vars => LifeInv'
  <1> SUFFICES ASSUME LifeInv, [Next]_vars PROVE LifeInv'
    OBVIOUS
  <1>1. HireInv /\ FireInv
    BY DEF LifeInv, HireInv, FireInv
  <1>2. ASSUME HireInv', FireInv' PROVE LifeInv'
    BY <1>2 DEF LifeInv, HireInv, FireInv
  <1>3. CASE UNCHANGED vars
    BY <1>3 DEF LifeInv, vars, hireVars, hireFacts, lifeVars, TypeOK, Retired, Registered, Equipped, FireAt,
       EffectsOrdered, Cleaned, Waiting, Current, Remaining, Skipped, Real, Gone
  <1>4. CASE Hire
    BY <1>1, <1>2, <1>4, HireSafe, HireKeepsFire DEF HireInv
  <1>5. CASE FireStep
    <2>1. CASE ResumeUnknown \/ ReportUnknown \/ PrepareEffect \/ BeginEffect \/ SkipEffect \/ ReconcileEffect
      BY <1>1, <1>2, <2>1, ResumeUnknownSafe, ReportUnknownSafe, PrepareEffectSafe, BeginEffectSafe,
         SkipEffectSafe, ReconcileEffectSafe
    <2>2. CASE RunEffect \/ ObserveEffect \/ MarkDestroyed \/ MarkFired \/ Archive
      BY <1>1, <1>2, <2>2, RunEffectSafe, ObserveEffectSafe, MarkDestroyedSafe, MarkFiredSafe, ArchiveSafe
    <2>3. QED
      BY <1>5, <2>1, <2>2 DEF FireStep
  <1>6. CASE Admit \/ FireAgain \/ Confirm
    BY <1>1, <1>2, <1>6, AdmitSafe, FireAgainSafe, ConfirmSafe
  <1>7. CASE Work \/ BeginJoin \/ Join \/ Settle \/ Crash \/ Recover
    BY <1>1, <1>2, <1>7, WorkSafe, BeginJoinSafe, JoinSafe, SettleSafe, CrashSafe, RecoverSafe
  <1>8. QED
    BY <1>3, <1>4, <1>5, <1>6, <1>7 DEF Next

\* The invariant holds throughout the life of an employee, whatever calls fail,
\* however often its hire is retried and its process restarted.
THEOREM LifeInvariant == Spec => []LifeInv
BY InitLife, StepLife, PTL DEF Spec

\* Once _admit() has recorded a retirement, no step of the configuration, of
\* _monitor_channels() or of recovery brings the employee back.
THEOREM RetirementIsFinal == Spec => []RetiredStaysRetired
<1>1. LifeInv => RetiredStaysRetired
  BY DEF LifeInv, Retired, RetiredStaysRetired, Dead
<1> QED BY <1>1, LifeInvariant, PTL

\* The registrar and every effect of a retirement are called at most once,
\* whatever crashes between the call and the record of its outcome.
THEOREM NoCallTwice == Spec => []CalledOnce
<1>1. LifeInv => CalledOnce
  <2> SUFFICES ASSUME LifeInv, NEW c \in DOMAIN calls PROVE calls[c] <= 1
    BY DEF CalledOnce
  <2>1. c \in FireEffects \/ c = "register"
    BY DEF LifeInv, TypeOK
  <2>2. QED
    BY <2>1 DEF LifeInv, Registered, EffectsOrdered
<1> QED BY <1>1, LifeInvariant, PTL

\* What the invariant says of the world.
LEMMA LifeMatches == LifeInv => WorldMatches
  <1> SUFFICES ASSUME LifeInv PROVE WorldMatches
    OBVIOUS
  <1>t. TypeOK /\ fire \in Fires /\ world \subseteq Things
    BY DEF LifeInv, TypeOK, Fires
  <1>1. ActiveIsEquipped
    <2> SUFFICES ASSUME phase = "active"
                 PROVE  /\ principal = "bound" /\ {"app", "secret", "slash"} \subseteq world
                        /\ heff["slash"] = "committed" /\ heff["chan"] = "committed"
      BY DEF ActiveIsEquipped
    <2>1. ~admitted
      BY DEF LifeInv, Retired
    <2>2. QED
      BY <2>1 DEF LifeInv, Registered, Equipped, Bound
  <1>2. CleanedBeforeDestroyed
    <2> SUFFICES ASSUME Real, "secret" \notin world, NEW x \in world \cap Removable PROVE x \in late
      BY DEF CleanedBeforeDestroyed, Removable
    <2>1. fire.eff["credential_destroy"] # "none"
      BY DEF LifeInv, Cleaned
    <2>2. \A i \in 1..4 : fire.eff[FIRE_EFFECT_ORDER[i]] = "committed"
      BY <2>1, Order DEF LifeInv, EffectsOrdered
    <2>3. /\ fire.eff["execution_quiesce"] = "committed" /\ fire.eff["slash_cleanup"] = "committed"
          /\ fire.eff["channel_stop"] = "committed" /\ fire.eff["membership_cleanup"] = "committed"
      BY <2>2, Order
    <2>4. Gone("work") /\ Gone("slash") /\ Gone("channel") /\ Gone("member")
      BY <2>3, Order, Targets DEF LifeInv, Cleaned, Skipped
    <2>5. QED
      BY <2>4 DEF Gone, Removable
  <1>3. ASSUME fire.phase = "archived"
        PROVE  /\ Gone("dir") /\ (Real => Gone("secret")) /\ \A x \in Removable : Gone(x)
    <2>1. admitted /\ \A e \in FireEffects : fire.eff[e] = "committed"
      BY <1>3 DEF LifeInv, FireAt
    <2>2. Gone("dir")
      BY <2>1, Order, Targets DEF LifeInv, Cleaned, Skipped
    <2>3. CASE Real
      BY <2>1, <2>2, <2>3, Order, Targets DEF LifeInv, Cleaned, Skipped, Removable
    <2>4. CASE ~Real
      BY <2>1, <2>2, <2>4 DEF LifeInv, Cleaned
    <2>5. QED
      BY <2>3, <2>4
  <1>4. ArchivedIsClean
    <2> SUFFICES ASSUME fire.phase = "archived", NEW x \in world \ late
                 PROVE  x \in {"app"} \cup (IF Real THEN {} ELSE {"secret"})
      BY DEF ArchivedIsClean
    <2>1. x \in Things
      BY <1>t
    <2>2. QED
      BY <1>3, <2>1 DEF Things, Removable, Gone
  <1>5. AppNotForgotten
    <2> SUFFICES ASSUME fire.phase = "archived", "app" \in world \ late PROVE Real \/ fire.confirmed
      BY DEF AppNotForgotten
    <2>1. fire.mode \in {"bound", "recoverable", "safe_abort", "external_unknown"}
      BY <1>t DEF LifeInv, FireAt, Fires
    <2>2. fire.mode # "safe_abort"
      BY DEF LifeInv, Cleaned, Gone
    <2>3. QED
      BY <2>1, <2>2 DEF LifeInv, FireAt, Real
  <1>6. QED
    BY <1>t, <1>1, <1>2, <1>4, <1>5 DEF WorldMatches

\* What the journal says of an employee is true outside of it: an active one has
\* its principal, secret and commands; the credential is destroyed after all
\* that needs it; an archived employee leaves nothing that nobody knows of.
THEOREM RecordsMatchWorld == Spec => []WorldMatches
BY LifeMatches, LifeInvariant, PTL
================================================================================
