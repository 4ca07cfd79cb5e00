--------------------------- MODULE RestartGateProofs ---------------------------
(***************************************************************************)
(* Proofs about RestartGate, for any number of runs, restart requests,     *)
(* service processes and faults.                                           *)
(***************************************************************************)
EXTENDS RestartGate, FiniteSetTheorems, TLAPS

Names == 0 .. Instances

\* The flocks exclude: one worker has the admission lock, and no callback
\* runs while one has the drain lock as well.
LocksExclude ==
    /\ \A v, w \in AdmissionWriters : v = w
    /\ DrainWriters # {} => DrainReaders = {}

\* A script at work belongs to a worker that waits for it or was killed, and
\* remembers a process from its start to the end of its clean-up.
ScriptsOwned ==
    \A w \in Workers :
        /\ AtWork(w) => pc[w] \in {"op", "killed"}
        /\ pc[w] = "killed" => w \in killed
        /\ pc[w] = "op" => script[w] # "none"
        /\ child[w] # 0 => script[w] \in {"wait", "watch", "cleanup"}

\* A process that closes has canceled its waiters.
ClosingCanceled == \A p \in Procs : srv[p] = "closing" => p \in canceled

\* Generations are handed out once: what was settled, what a request names and
\* what a service became ready with are not newer than the last one, and the
\* one that is ready is not settled, is the newest a service became ready
\* with, and belongs to the service the requests for it were made to.
GenerationsOrdered ==
    /\ gen.id <= issued
    /\ \A g \in settled : g <= issued
    /\ \A w \in Workers : job[w].expected <= issued
    /\ \A p \in Procs : born[p] <= issued
    /\ gen.status = "READY" =>
          /\ gen.id > 0 /\ gen.id \notin settled
          /\ \A p \in Procs : born[p] <= gen.id
          /\ \A w \in Workers : gen.id = job[w].expected => gen.owner = job[w].target

\* Whoever is named by a file or in a worker's memory has been started.
Started(p) == p = 0 \/ srv[p] # "none"

NamesStarted ==
    /\ Started(proof) /\ Started(gen.owner)
    /\ \A w \in Workers : Started(job[w].seen) /\ Started(job[w].target) /\ Started(child[w])

\* The child of a script is not the service its worker was asked to restart.
ChildIsNew ==
    \A w \in Workers : pc[w] = "op" /\ child[w] # 0 => child[w] # job[w].target

Down == \A p \in Procs : ~Live(p)

\* No service is live, or only one that a failed start has left running.
DownOrLeft == \A p \in Procs : Live(p) => p \in left

\* While no worker was killed there is one service at a time: it is down when
\* a script starts one and when a worker consumes the generation, unless it
\* was left by the start that has failed.
OneService ==
    /\ \A p, q \in Procs : Live(p) /\ Live(q) => p = q
    /\ \A w \in Workers :
          /\ script[w] = "start" => Down
          /\ pc[w] = "publish" => Down \/ (script[w] = "fail" /\ DownOrLeft)
          /\ pc[w] = "op" /\ script[w] = "ok" /\ Current(w) => Down
          /\ pc[w] = "op" /\ script[w] = "fail" /\ Current(w) => DownOrLeft
          /\ script[w] \in {"wait", "watch", "cleanup"} =>
                \A p \in Procs : Live(p) => p = child[w]

\* A service that has published itself is the one the files name, or one that
\* was left and whose generation was overwritten.
FilesName ==
    /\ \A p \in Procs : srv[p] \in {"proof", "up", "ready"} => proof = p
    /\ \A p \in Procs : srv[p] \in {"up", "ready"} =>
          gen.owner = p \/ (p \in left /\ gen.status = "FAILED")

Undisturbed == killed = {} => OneService /\ FilesName

GateInv ==
    /\ TypeOK
    /\ LocksExclude
    /\ ScriptsOwned
    /\ ClosingCanceled
    /\ GenerationsOrdered
    /\ OncePerGeneration
    /\ NoForcedStop
    /\ NamesStarted
    /\ ChildIsNew
    /\ Undisturbed

-----------------------------------------------------------------------------
(***************************************************************************)
(* Who changes what                                                        *)
(***************************************************************************)

ServiceAct(p) == ServiceStep(p) \/ Crash(p) \/ OperatorStart(p)
TaskAct(t)    == GuardStep(t) \/ Finish(t) \/ (\E p \in Procs : Submit(t, p))
WorkerAct(w)  == SnapshotProof(w) \/ WorkerStep(w) \/ Expire(w) \/ Kill(w)

\* Every step is one of a service, a run, a worker or a script.
LEMMA NextCases ==
    ASSUME [Next]_vars
    PROVE  \/ \E p \in Procs : ServiceAct(p)
           \/ \E t \in Tasks : TaskAct(t)
           \/ \E w \in Workers : WorkerAct(w)
           \/ \E w \in Workers : ScriptStep(w)
           \/ UNCHANGED vars
BY DEF Next, ServiceAct, TaskAct, WorkerAct

\* A service does not touch what workers and scripts remember.
LEMMA ServiceFrame ==
    ASSUME NEW p \in Procs, ServiceAct(p) PROVE UNCHANGED <<workerVars, scriptVars>>
BY DEF ServiceAct, ServiceStep, PublishProof, PublishParticipating, MarkReady, Fence, Exit, Crash,
       OperatorStart

\* A run only moves itself.
LEMMA TaskFrame ==
    ASSUME NEW t \in Tasks, TaskAct(t)
    PROVE  UNCHANGED <<srvVars, fileVars, workerVars, scriptVars>>
BY DEF TaskAct, GuardStep, Admit, Begin, Step, Refuse, Finish, Submit

\* A worker changes neither a service nor a run.
LEMMA WorkerFrame ==
    ASSUME NEW w \in Workers, WorkerAct(w)
    PROVE  UNCHANGED <<srvVars, taskVars, proof, born, forced, left>>
BY DEF WorkerAct, WorkerStep, SnapshotProof, Snapshot, PinProof, Pin, Validate, TakeAdmission,
       TakeDrain, LockTimeout, Revalidate, Decide, OpTimeout, OpDone, Publish, Expire, Kill,
       Check, Move, Elsewhere, fileVars, scriptVars

\* A script changes neither a file nor a worker.
LEMMA ScriptFrame ==
    ASSUME NEW w \in Workers, ScriptStep(w)
    PROVE  UNCHANGED <<fileVars, workerVars, canceled, crashes>>
<1>1. CASE Stop(w) BY <1>1 DEF Stop
<1>2. CASE ForceStop(w) BY <1>2 DEF ForceStop
<1>3. CASE Stopped(w) BY <1>3 DEF Stopped, srvVars
<1>4. CASE Start(w) BY <1>4 DEF Start
<1>5. CASE Ready(w) BY <1>5 DEF Ready, srvVars
<1>6. CASE NotReady(w) BY <1>6 DEF NotReady
<1>7. CASE CleanedUp(w) BY <1>7 DEF CleanedUp, srvVars
<1> QED BY <1>1, <1>2, <1>3, <1>4, <1>5, <1>6, <1>7 DEF ScriptStep

-----------------------------------------------------------------------------
(***************************************************************************)
(* Types                                                                   *)
(***************************************************************************)

Points == Ended \cup {"idle", "snapshot", "spawned", "pin", "begin",
                  "admission", "drain", "held", "checked", "op", "publish"}
Jobs == [expected : Nat, target : Names, seen : Names, pinned : Names]
Gens == [id : Nat, owner : Names, status : {"NONE", "PARTICIPATING", "READY", "FAILED"}]
Scripts == {"none", "stop", "stopping", "start", "wait", "watch", "cleanup", "ok", "fail"}

ServiceTypes == srv \in [Procs -> Phases] /\ canceled \subseteq Procs /\ crashes \in Nat
TaskTypes    == /\ task \in [Tasks -> {"new", "admission", "drain", "body", "over"}]
                /\ home \in [Tasks -> Names]
FileTypes    == proof \in Names /\ issued \in Nat /\ born \in [Procs -> Nat] /\ gen \in Gens
WorkerTypes  == /\ pc \in [Workers -> Points] /\ job \in [Workers -> Jobs]
                /\ late \subseteq Workers /\ killed \subseteq Workers /\ settled \subseteq Nat
ScriptTypes  == /\ script \in [Workers -> Scripts] /\ child \in [Workers -> Names]
                /\ forced \subseteq Workers /\ left \subseteq Names

\* TypeOK, by owner.
LEMMA TypeParts ==
    TypeOK <=> ServiceTypes /\ TaskTypes /\ FileTypes /\ WorkerTypes /\ ScriptTypes
BY DEF TypeOK, ServiceTypes, TaskTypes, FileTypes, WorkerTypes, ScriptTypes, Points, Jobs, Gens,
       Scripts, Names

\* The same of the state after a step.
LEMMA TypePartsNext ==
    ServiceTypes' /\ TaskTypes' /\ FileTypes' /\ WorkerTypes' /\ ScriptTypes' => TypeOK'
BY DEF TypeOK, ServiceTypes, TaskTypes, FileTypes, WorkerTypes, ScriptTypes, Points, Jobs, Gens,
       Scripts, Names

\* The names in the files and in a worker's memory are 0 or a process.
LEMMA NamesTyped == 0 \in Names /\ NoJob \in Jobs /\ Procs \subseteq Names
BY RestartGateAssumption DEF Names, Jobs, NoJob, Procs

\* Wherever a worker goes.
LEMMA GoTypes ==
    ASSUME WorkerTypes, NEW w \in Workers, NEW l \in Points, NEW j \in Jobs, Go(w, l, j)
    PROVE  pc' \in [Workers -> Points] /\ job' \in [Workers -> Jobs] /\ late' \subseteq Workers
BY NamesTyped DEF WorkerTypes, Go

\* A worker that checks a proof remembers it, or ends.
LEMMA CheckTypes ==
    ASSUME WorkerTypes, FileTypes, NEW w \in Workers, NEW l \in Points, Check(w, l)
    PROVE  WorkerTypes'
<1>1. [job[w] EXCEPT !.seen = proof] \in Jobs BY DEF WorkerTypes, FileTypes, Jobs
<1>2. pc' \in [Workers -> Points] /\ job' \in [Workers -> Jobs] /\ late' \subseteq Workers
  <2>1. CASE Valid(w) BY <1>1, <2>1, GoTypes DEF Check
  <2>2. CASE ~Valid(w) BY <2>2, GoTypes, NamesTyped DEF Check, Points, Ended
  <2> QED BY <2>1, <2>2
<1> QED BY <1>2 DEF Check, Elsewhere, WorkerTypes

\* A worker that moves on keeps its job.
LEMMA MoveTypes ==
    ASSUME WorkerTypes, NEW w \in Workers, NEW l \in Points, Move(w, l) PROVE WorkerTypes'
<1>1. job[w] \in Jobs BY DEF WorkerTypes
<1>2. pc' \in [Workers -> Points] /\ job' \in [Workers -> Jobs] /\ late' \subseteq Workers
  BY <1>1, GoTypes DEF Move
<1> QED BY <1>2 DEF Move, Elsewhere, WorkerTypes

\* What a worker does keeps the types.
LEMMA WorkerTypeStep ==
    ASSUME TypeOK, NEW w \in Workers, WorkerAct(w) PROVE TypeOK'
<1>0. ServiceTypes /\ TaskTypes /\ FileTypes /\ WorkerTypes /\ ScriptTypes BY TypeParts
<1>1. ServiceTypes' /\ TaskTypes' BY <1>0, WorkerFrame DEF ServiceTypes, TaskTypes, srvVars, taskVars
<1>2. job[w] \in Jobs /\ gen \in Gens BY <1>0 DEF WorkerTypes, FileTypes
<1> USE DEF fileVars, scriptVars
<1>3. CASE SnapshotProof(w) \/ PinProof(w) \/ Validate(w) \/ Revalidate(w)
  <2>1. PICK l \in Points : Check(w, l)
    BY <1>3 DEF SnapshotProof, PinProof, Validate, Revalidate, Points
  <2>2. WorkerTypes' BY <1>0, <2>1, CheckTypes
  <2>3. FileTypes' /\ ScriptTypes' BY <1>0, <2>1 DEF Check, FileTypes, ScriptTypes
  <2> QED BY <1>1, <2>2, <2>3, TypePartsNext
<1>4. CASE Snapshot(w)
  <2>1. PICK l \in Points, j \in Jobs : Go(w, l, j)
    <3>1. [NoJob EXCEPT !.expected = gen.id, !.target = job[w].seen] \in Jobs
      BY <1>2, NamesTyped DEF Jobs, NoJob, Gens
    <3> QED BY <1>4, <3>1, NamesTyped DEF Snapshot, Points, Ended
  <2>2. WorkerTypes' BY <1>0, <1>4, <2>1, GoTypes DEF Snapshot, Elsewhere, WorkerTypes
  <2>3. FileTypes' /\ ScriptTypes' BY <1>0, <1>4 DEF Snapshot, FileTypes, ScriptTypes
  <2> QED BY <1>1, <2>2, <2>3, TypePartsNext
<1>5. CASE Pin(w)
  <2>1. PICK l \in Points, j \in Jobs : Go(w, l, j)
    <3>1. [job[w] EXCEPT !.pinned = IF Current(w) THEN job[w].seen ELSE 0] \in Jobs
      BY <1>2, NamesTyped DEF Jobs
    <3> QED BY <1>5, <3>1 DEF Pin, Points
  <2>2. WorkerTypes' BY <1>0, <1>5, <2>1, GoTypes DEF Pin, Elsewhere, WorkerTypes
  <2>3. FileTypes' /\ ScriptTypes' BY <1>0, <1>5 DEF Pin, FileTypes, ScriptTypes
  <2> QED BY <1>1, <2>2, <2>3, TypePartsNext
<1>6. CASE TakeAdmission(w) \/ TakeDrain(w) \/ LockTimeout(w)
  <2>1. PICK l \in Points : Move(w, l)
    BY <1>6 DEF TakeAdmission, TakeDrain, LockTimeout, Points, Ended
  <2>2. WorkerTypes' BY <1>0, <2>1, MoveTypes
  <2>3. FileTypes' /\ ScriptTypes' BY <1>0, <2>1 DEF Move, FileTypes, ScriptTypes
  <2> QED BY <1>1, <2>2, <2>3, TypePartsNext
<1>7. CASE Decide(w)
  <2>1. CASE \E l \in {"error", "COALESCED", "TIMED_OUT"} : Move(w, l)
    <3>1. PICK l \in Points : Move(w, l) BY <2>1 DEF Points, Ended
    <3>2. WorkerTypes' BY <1>0, <3>1, MoveTypes
    <3>3. FileTypes' /\ ScriptTypes' BY <1>0, <3>1 DEF Move, FileTypes, ScriptTypes
    <3> QED BY <1>1, <3>2, <3>3, TypePartsNext
  <2>2. CASE /\ Go(w, "op", job[w]) /\ script' = [script EXCEPT ![w] = "stop"]
             /\ Elsewhere /\ UNCHANGED <<fileVars, settled, child, forced, left>>
    <3>1. "op" \in Points BY DEF Points
    <3>2. WorkerTypes' BY <1>0, <1>2, <2>2, <3>1, GoTypes DEF Elsewhere, WorkerTypes
    <3>3. FileTypes' /\ ScriptTypes' BY <1>0, <2>2 DEF FileTypes, ScriptTypes, Scripts
    <3> QED BY <1>1, <3>2, <3>3, TypePartsNext
  <2> QED BY <1>7, <2>1, <2>2 DEF Decide
<1>8. CASE OpTimeout(w)
  <2>1. "TIMED_OUT" \in Points BY DEF Points, Ended
  <2>2. WorkerTypes' BY <1>0, <1>8, <2>1, GoTypes, NamesTyped DEF OpTimeout, Elsewhere, WorkerTypes
  <2>3. FileTypes' /\ ScriptTypes'
    BY <1>0, <1>8, NamesTyped DEF OpTimeout, FileTypes, ScriptTypes, Scripts
  <2> QED BY <1>1, <2>2, <2>3, TypePartsNext
<1>9. CASE OpDone(w)
  <2>1. PICK l \in Points, j \in Jobs : Go(w, l, j)
    BY <1>2, <1>9, NamesTyped DEF OpDone, Return, Points, Ended
  <2>2. settled' \subseteq Nat
    BY <1>0, <1>2, <1>9 DEF OpDone, Return, WorkerTypes, Jobs
  <2>3. WorkerTypes' BY <1>0, <1>9, <2>1, <2>2, GoTypes DEF OpDone, Elsewhere, WorkerTypes
  <2>4. FileTypes' /\ ScriptTypes' BY <1>0, <1>9 DEF OpDone, FileTypes, ScriptTypes
  <2> QED BY <1>1, <2>3, <2>4, TypePartsNext
<1>10. CASE Publish(w)
  <2>1. PICK l \in Points, j \in Jobs : Go(w, l, j)
    BY <1>10, NamesTyped DEF Publish, Return, Points, Ended
  <2>2. settled' \subseteq Nat BY <1>0, <1>2, <1>10 DEF Publish, Return, WorkerTypes, Jobs
  <2>3. WorkerTypes' BY <1>0, <1>10, <2>1, <2>2, GoTypes DEF Publish, Elsewhere, WorkerTypes
  <2>4. issued' \in Nat /\ gen' \in Gens
    BY <1>0, <1>2, <1>10 DEF Publish, PublishNew, FileTypes, Gens, Jobs
  <2>5. FileTypes' /\ ScriptTypes' BY <1>0, <1>10, <2>4 DEF Publish, FileTypes, ScriptTypes
  <2> QED BY <1>1, <2>3, <2>5, TypePartsNext
<1>11. CASE Expire(w)
  <2>1. WorkerTypes' BY <1>0, <1>11 DEF Expire, Elsewhere, WorkerTypes
  <2>2. FileTypes' /\ ScriptTypes' BY <1>0, <1>11 DEF Expire, FileTypes, ScriptTypes
  <2> QED BY <1>1, <2>1, <2>2, TypePartsNext
<1>12. CASE Kill(w)
  <2>1. "killed" \in Points BY DEF Points, Ended
  <2>2. WorkerTypes' BY <1>0, <1>12, <2>1, GoTypes, NamesTyped DEF Kill, WorkerTypes
  <2>3. FileTypes' /\ ScriptTypes' BY <1>0, <1>12 DEF Kill, FileTypes, ScriptTypes
  <2> QED BY <1>1, <2>2, <2>3, TypePartsNext
<1> QED BY <1>3, <1>4, <1>5, <1>6, <1>7, <1>8, <1>9, <1>10, <1>11, <1>12 DEF WorkerAct, WorkerStep

\* The files, the processes, the runs and the workers keep their types.
LEMMA TypeStep == ASSUME TypeOK, [Next]_vars PROVE TypeOK'
<1>0. ServiceTypes /\ TaskTypes /\ FileTypes /\ WorkerTypes /\ ScriptTypes BY TypeParts
<1> USE DEF srvVars, taskVars, fileVars, workerVars, scriptVars
<1>1. ASSUME NEW p \in Procs, ServiceAct(p) PROVE TypeOK'
  <2>1. WorkerTypes' /\ ScriptTypes' BY <1>0, <1>1, ServiceFrame DEF WorkerTypes, ScriptTypes
  <2>2. ServiceTypes'
    BY <1>0, <1>1 DEF ServiceTypes, Phases, ServiceAct, ServiceStep, PublishProof,
       PublishParticipating, MarkReady, Fence, Exit, Crash, Die, OperatorStart
  <2>3. TaskTypes'
    BY <1>0, <1>1, NamesTyped DEF TaskTypes, ServiceAct, ServiceStep, PublishProof,
       PublishParticipating, MarkReady, Fence, Exit, Crash, Die, Over, OperatorStart
  <2>4. FileTypes'
    <3>1. p \in Names BY NamesTyped
    <3> QED BY <1>0, <1>1, <3>1 DEF FileTypes, Gens, ServiceAct, ServiceStep, PublishProof,
       PublishParticipating, MarkReady, PublishNew, Fence, Exit, Crash, OperatorStart
  <2> QED BY <2>1, <2>2, <2>3, <2>4, TypePartsNext
<1>2. ASSUME NEW t \in Tasks, TaskAct(t) PROVE TypeOK'
  <2>1. WorkerTypes' /\ ScriptTypes' /\ ServiceTypes' /\ FileTypes'
    BY <1>0, <1>2, TaskFrame DEF WorkerTypes, ScriptTypes, ServiceTypes, FileTypes
  <2>2. TaskTypes'
    BY <1>0, <1>2, NamesTyped DEF TaskTypes, TaskAct, GuardStep, Admit, Begin, Step, Refuse, Finish,
       Over, Submit
  <2> QED BY <2>1, <2>2, TypePartsNext
<1>3. ASSUME NEW w \in Workers, WorkerAct(w) PROVE TypeOK' BY <1>3, WorkerTypeStep
<1>4. ASSUME NEW w \in Workers, ScriptStep(w) PROVE TypeOK'
  <2>1. WorkerTypes' /\ FileTypes' BY <1>0, <1>4, ScriptFrame DEF WorkerTypes, FileTypes
  <2>2. ServiceTypes' /\ TaskTypes' /\ ScriptTypes'
    <3>0. child[w] \in Names BY <1>0 DEF ScriptTypes
    <3> USE DEF ServiceTypes, TaskTypes, ScriptTypes, Scripts, Phases, Run
    <3>1. CASE Stop(w) BY <1>0, <3>1, NamesTyped DEF Stop, Terminate
    <3>2. CASE ForceStop(w)
      <4>1. PICK P : Die(P) BY <3>2 DEF ForceStop
      <4> QED BY <1>0, <3>2, <4>1, NamesTyped DEF ForceStop, Die, Over
    <3>3. CASE Stopped(w) BY <1>0, <3>3, NamesTyped DEF Stopped
    <3>4. CASE Start(w) BY <1>0, <3>4, NamesTyped DEF Start, Idle
    <3>5. CASE Ready(w) BY <1>0, <3>5, NamesTyped DEF Ready
    <3>6. CASE NotReady(w) BY <1>0, <3>0, <3>6, NamesTyped DEF NotReady, Terminate
    <3>7. CASE CleanedUp(w) BY <1>0, <3>7, NamesTyped DEF CleanedUp
    <3> QED BY <1>4, <3>1, <3>2, <3>3, <3>4, <3>5, <3>6, <3>7 DEF ScriptStep
  <2> QED BY <2>1, <2>2, TypePartsNext
<1>5. CASE UNCHANGED vars
  BY <1>0, <1>5, TypePartsNext
  DEF vars, ServiceTypes, TaskTypes, FileTypes, WorkerTypes, ScriptTypes
<1> QED BY <1>1, <1>2, <1>3, <1>4, <1>5, NextCases

-----------------------------------------------------------------------------
(***************************************************************************)
(* How workers and scripts move                                            *)
(***************************************************************************)

\* A worker moves nobody but itself.
LEMMA WorkerAlone ==
    ASSUME TypeOK, NEW w \in Workers, WorkerAct(w), NEW v \in Workers, v # w
    PROVE  /\ pc'[v] = pc[v] /\ job'[v] = job[v]
           /\ script'[v] = script[v] /\ child'[v] = child[v]
<1> USE DEF TypeOK, Go, scriptVars
<1>1. CASE SnapshotProof(w) BY <1>1 DEF SnapshotProof, Check
<1>2. CASE PinProof(w) BY <1>2 DEF PinProof, Check
<1>3. CASE Validate(w) BY <1>3 DEF Validate, Check
<1>4. CASE Revalidate(w) BY <1>4 DEF Revalidate, Check
<1>5. CASE Snapshot(w) BY <1>5 DEF Snapshot
<1>6. CASE Pin(w) BY <1>6 DEF Pin
<1>7. CASE TakeAdmission(w) \/ TakeDrain(w) \/ LockTimeout(w)
  BY <1>7 DEF TakeAdmission, TakeDrain, LockTimeout, Move
<1>8. CASE Decide(w) BY <1>8 DEF Decide, Move
<1>9. CASE OpTimeout(w) BY <1>9 DEF OpTimeout
<1>10. CASE OpDone(w) BY <1>10 DEF OpDone, Return
<1>11. CASE Publish(w) BY <1>11 DEF Publish, Return
<1>12. CASE Expire(w) \/ Kill(w) BY <1>12 DEF Expire, Kill
<1> QED BY <1>1, <1>2, <1>3, <1>4, <1>5, <1>6, <1>7, <1>8, <1>9, <1>10, <1>11, <1>12
        DEF WorkerAct, WorkerStep

\* Where a worker goes from where it is.
LEMMA WorkerPath ==
    ASSUME TypeOK, NEW w \in Workers, WorkerAct(w)
    PROVE  \/ /\ pc[w] \notin {"drain", "held", "checked", "op", "publish"} \cup Ended
              /\ pc'[w] \notin {"drain", "held", "checked", "op", "publish", "killed"}
              /\ UNCHANGED <<settled, gen, issued, script, child, killed>>
           \/ /\ pc[w] = "admission" /\ pc'[w] = "drain" /\ CanAdmit(w)
              /\ UNCHANGED <<settled, gen, issued, script, child, killed>>
           \/ /\ pc[w] = "drain" /\ pc'[w] = "held" /\ CanDrain(w)
              /\ UNCHANGED <<settled, gen, issued, script, child, killed>>
           \/ /\ pc[w] \in {"drain", "held", "checked"} /\ pc'[w] \in Ended \ {"killed"}
              /\ UNCHANGED <<settled, gen, issued, script, child, killed>>
           \/ /\ pc[w] = "held" /\ pc'[w] = "checked"
              /\ UNCHANGED <<settled, gen, issued, script, child, killed>>
           \/ /\ pc[w] = "checked" /\ pc'[w] = "op" /\ gen.owner = job[w].seen /\ Current(w)
              /\ job'[w] = job[w] /\ script' = [script EXCEPT ![w] = "stop"]
              /\ UNCHANGED <<settled, gen, issued, child, killed>>
           \/ OpTimeout(w)
           \/ OpDone(w)
           \/ Publish(w)
           \/ Expire(w)
           \/ Kill(w)
<1> USE DEF TypeOK, Go, fileVars, scriptVars, Elsewhere, Ended
<1>1. CASE SnapshotProof(w) \/ PinProof(w) \/ Validate(w)
  BY <1>1 DEF SnapshotProof, PinProof, Validate, Check
<1>4. CASE Revalidate(w) BY <1>4 DEF Revalidate, Check
<1>5. CASE Snapshot(w) BY <1>5 DEF Snapshot
<1>6. CASE Pin(w) BY <1>6 DEF Pin
<1>7. CASE TakeAdmission(w) BY <1>7 DEF TakeAdmission, Move
<1>8. CASE TakeDrain(w) BY <1>8 DEF TakeDrain, Move
<1>9. CASE LockTimeout(w) BY <1>9 DEF LockTimeout, Move
<1>10. CASE Decide(w) BY <1>10 DEF Decide, Move
<1> QED BY <1>1, <1>4, <1>5, <1>6, <1>7, <1>8, <1>9, <1>10 DEF WorkerAct, WorkerStep

\* What a worker remembers: nothing, or more of the same request.
LEMMA WorkerMemory ==
    ASSUME TypeOK, NEW w \in Workers, WorkerAct(w)
    PROVE  \/ job'[w] = NoJob
           \/ /\ job'[w].expected = job[w].expected /\ job'[w].target = job[w].target
              /\ job'[w].seen \in {job[w].seen, proof}
           \/ /\ job'[w].expected = gen.id /\ job'[w].target = gen.owner /\ job'[w].seen = 0
              /\ gen.status = "READY" /\ UNCHANGED <<gen, issued, settled>>
              /\ pc'[w] = "spawned"
<1> USE DEF TypeOK, Go
<1>1. CASE SnapshotProof(w) \/ PinProof(w) \/ Validate(w) \/ Revalidate(w)
  BY <1>1 DEF SnapshotProof, PinProof, Validate, Revalidate, Check
<1>5. CASE Snapshot(w)
  <2>1. CASE gen.owner = job[w].seen /\ gen.status = "READY"
    <3>1. job'[w] = [NoJob EXCEPT !.expected = gen.id, !.target = job[w].seen] /\ pc'[w] = "spawned"
      BY <1>5, <2>1 DEF Snapshot, Ended
    <3>2. UNCHANGED <<gen, issued, settled>> BY <1>5 DEF Snapshot, fileVars
    <3> QED BY <2>1, <3>1, <3>2 DEF NoJob
  <2>2. CASE ~(gen.owner = job[w].seen /\ gen.status = "READY")
    BY <1>5, <2>2 DEF Snapshot, Ended
  <2> QED BY <2>1, <2>2
<1>6. CASE Pin(w) BY <1>6 DEF Pin
<1>7. CASE TakeAdmission(w) \/ TakeDrain(w) \/ LockTimeout(w)
  BY <1>7 DEF TakeAdmission, TakeDrain, LockTimeout, Move
<1>8. CASE Decide(w) BY <1>8 DEF Decide, Move
<1>9. CASE OpTimeout(w) BY <1>9 DEF OpTimeout
<1>10. CASE OpDone(w) BY <1>10 DEF OpDone, Return
<1>11. CASE Publish(w) BY <1>11 DEF Publish, Return, Ended
<1>12. CASE Expire(w) \/ Kill(w) BY <1>12 DEF Expire, Kill
<1> QED BY <1>1, <1>5, <1>6, <1>7, <1>8, <1>9, <1>10, <1>11, <1>12
        DEF WorkerAct, WorkerStep

\* A script that moves is at work, and moves no other.
LEMMA ScriptAlone ==
    ASSUME TypeOK, NEW w \in Workers, ScriptStep(w)
    PROVE  /\ AtWork(w)
           /\ script'[w] # "none"
           /\ child'[w] # 0 => script'[w] \in {"wait", "watch", "cleanup"} \/ UNCHANGED <<script, child>>
           /\ \A v \in Workers \ {w} : script'[v] = script[v] /\ child'[v] = child[v]
<1> USE DEF TypeOK, Run, AtWork
<1>1. CASE Stop(w) BY <1>1 DEF Stop
<1>2. CASE ForceStop(w) BY <1>2 DEF ForceStop
<1>3. CASE Stopped(w) BY <1>3 DEF Stopped
<1>4. CASE Start(w) BY <1>4 DEF Start
<1>5. CASE Ready(w) BY <1>5 DEF Ready
<1>6. CASE NotReady(w) BY <1>6 DEF NotReady
<1>7. CASE CleanedUp(w) BY <1>7 DEF CleanedUp
<1> QED BY <1>1, <1>2, <1>3, <1>4, <1>5, <1>6, <1>7 DEF ScriptStep

-----------------------------------------------------------------------------
(***************************************************************************)
(* Each part of the invariant                                              *)
(***************************************************************************)

\* Runs end with their process or by themselves; they enter a callback only
\* past a free drain lock.
LEMMA BodyEntry ==
    ASSUME TypeOK, [Next]_vars
    PROVE  DrainReaders' \subseteq DrainReaders \/ (DrainWriters = {} /\ UNCHANGED pc)
<1> USE DEF TypeOK, DrainReaders
<1>1. ASSUME NEW p \in Procs, ServiceAct(p) PROVE DrainReaders' \subseteq DrainReaders
  <2>1. CASE Crash(p) BY <2>1 DEF Crash, Die, Over
  <2>2. CASE ServiceStep(p) \/ OperatorStart(p)
    BY <2>2 DEF ServiceStep, OperatorStart, PublishProof, PublishParticipating, MarkReady, Fence, Exit,
       taskVars
  <2> QED BY <1>1, <2>1, <2>2 DEF ServiceAct
<1>2. ASSUME NEW t \in Tasks, TaskAct(t)
      PROVE  DrainReaders' \subseteq DrainReaders \/ (DrainWriters = {} /\ UNCHANGED pc)
  <2>1. CASE Begin(t) BY <2>1 DEF Begin, Step, workerVars
  <2>2. CASE Admit(t) \/ Refuse(t) \/ Finish(t) \/ \E p \in Procs : Submit(t, p)
    BY <2>2 DEF Admit, Step, Refuse, Finish, Over, Submit
  <2> QED BY <1>2, <2>1, <2>2 DEF TaskAct, GuardStep
<1>3. ASSUME NEW w \in Workers, WorkerAct(w) PROVE DrainReaders' \subseteq DrainReaders
  BY <1>3, WorkerFrame DEF taskVars
<1>4. ASSUME NEW w \in Workers, ScriptStep(w) PROVE DrainReaders' \subseteq DrainReaders
  <2>1. CASE ForceStop(w)
    <3>1. PICK P : Die(P) BY <2>1 DEF ForceStop
    <3> QED BY <3>1 DEF Die, Over
  <2>2. CASE Stop(w) \/ Stopped(w) \/ Start(w) \/ Ready(w) \/ NotReady(w) \/ CleanedUp(w)
    BY <2>2 DEF Stop, Stopped, Start, Ready, NotReady, CleanedUp, taskVars
  <2> QED BY <1>4, <2>1, <2>2 DEF ScriptStep
<1>5. CASE UNCHANGED vars BY <1>5 DEF vars, taskVars
<1> QED BY <1>1, <1>2, <1>3, <1>4, <1>5, NextCases

\* Who is not a worker leaves the workers where they are.
LEMMA WorkersStay ==
    ASSUME [Next]_vars
    PROVE  (\E w \in Workers : WorkerAct(w)) \/ UNCHANGED <<workerVars>>
<1>1. ASSUME NEW p \in Procs, ServiceAct(p) PROVE UNCHANGED <<workerVars>> BY <1>1, ServiceFrame
<1>2. ASSUME NEW t \in Tasks, TaskAct(t) PROVE UNCHANGED <<workerVars>> BY <1>2, TaskFrame
<1>3. ASSUME NEW w \in Workers, ScriptStep(w) PROVE UNCHANGED <<workerVars>> BY <1>3, ScriptFrame
<1>4. CASE UNCHANGED vars BY <1>4 DEF vars, workerVars
<1> QED BY <1>1, <1>2, <1>3, <1>4, NextCases

\* The locks exclude after a step as before it: task_guard() and
\* _exclusive_guard() take each only where it is free.
LEMMA LockStep == ASSUME TypeOK, LocksExclude, [Next]_vars PROVE LocksExclude'
<1> USE DEF LocksExclude
<1>1. ASSUME NEW w \in Workers, WorkerAct(w) PROVE LocksExclude'
  <2>1. UNCHANGED task BY <1>1, WorkerFrame DEF taskVars
  <2>2. \A v \in Workers \ {w} : pc'[v] = pc[v] BY <1>1, WorkerAlone
  <2>3. w \in AdmissionWriters' => w \in AdmissionWriters \/ AdmissionWriters = {}
    <3> USE DEF AdmissionWriters, TypeOK
    <3>1. CASE OpTimeout(w) \/ OpDone(w) \/ Publish(w)
      BY <3>1 DEF OpTimeout, OpDone, Publish, Return, Go
    <3>2. CASE Expire(w) BY <3>2 DEF Expire
    <3>3. CASE Kill(w) BY <3>3 DEF Kill, Go
    <3> QED BY <1>1, <3>1, <3>2, <3>3, WorkerPath DEF Ended, CanAdmit
  <2>4. w \in DrainWriters' => w \in DrainWriters \/ DrainReaders = {}
    <3> USE DEF DrainWriters, TypeOK
    <3>1. CASE OpTimeout(w) \/ OpDone(w) \/ Publish(w)
      BY <3>1 DEF OpTimeout, OpDone, Publish, Return, Go
    <3>2. CASE Expire(w) BY <3>2 DEF Expire
    <3>3. CASE Kill(w) BY <3>3 DEF Kill, Go
    <3> QED BY <1>1, <3>1, <3>2, <3>3, WorkerPath DEF Ended, CanDrain
  <2>5. \A v, u \in AdmissionWriters' : v = u
    BY <2>2, <2>3 DEF AdmissionWriters
  <2>6. DrainWriters' # {} => DrainReaders' = {}
    BY <2>1, <2>2, <2>4 DEF DrainWriters, DrainReaders
  <2> QED BY <2>5, <2>6
<1>2. CASE UNCHANGED <<workerVars>>
  <2>1. AdmissionWriters' = AdmissionWriters /\ DrainWriters' = DrainWriters
    BY <1>2 DEF workerVars, AdmissionWriters, DrainWriters
  <2> QED BY <2>1, BodyEntry
<1> QED BY <1>1, <1>2, WorkersStay

\* A script keeps its owner.
LEMMA OwnerStep == ASSUME TypeOK, ScriptsOwned, [Next]_vars PROVE ScriptsOwned'
<1> USE DEF ScriptsOwned, AtWork
<1>1. ASSUME NEW p \in Procs, ServiceAct(p) PROVE ScriptsOwned'
  BY <1>1, ServiceFrame DEF workerVars, scriptVars
<1>2. ASSUME NEW t \in Tasks, TaskAct(t) PROVE ScriptsOwned'
  BY <1>2, TaskFrame DEF workerVars, scriptVars
<1>3. ASSUME NEW w \in Workers, WorkerAct(w) PROVE ScriptsOwned'
  <2>1. \A v \in Workers \ {w} :
           pc'[v] = pc[v] /\ script'[v] = script[v] /\ child'[v] = child[v]
    BY <1>3, WorkerAlone
  <2>2. killed \subseteq killed'
    BY <1>3, WorkerPath DEF OpTimeout, OpDone, Publish, Expire, Kill, Elsewhere
  <2>3. /\ script'[w] \notin {"none", "ok", "fail"} => pc'[w] \in {"op", "killed"}
        /\ pc'[w] = "killed" => w \in killed'
        /\ pc'[w] = "op" => script'[w] # "none"
        /\ child'[w] # 0 => script'[w] \in {"wait", "watch", "cleanup"}
    <3> USE DEF TypeOK, scriptVars, Go, Elsewhere
    <3>1. CASE OpTimeout(w) BY <3>1 DEF OpTimeout
    <3>2. CASE OpDone(w) BY <3>2 DEF OpDone, Return
    <3>3. CASE Publish(w) BY <3>3 DEF Publish, Return
    <3>4. CASE Expire(w) BY <3>4 DEF Expire
    <3>5. CASE Kill(w) BY <3>5 DEF Kill
    <3> QED BY <1>3, <3>1, <3>2, <3>3, <3>4, <3>5, WorkerPath DEF Ended
  <2> QED BY <2>1, <2>2, <2>3
<1>4. ASSUME NEW w \in Workers, ScriptStep(w) PROVE ScriptsOwned'
  BY <1>4, ScriptFrame, ScriptAlone DEF workerVars
<1>5. CASE UNCHANGED vars BY <1>5 DEF vars, workerVars, scriptVars
<1> QED BY <1>1, <1>2, <1>3, <1>4, <1>5, NextCases

\* Processes begin to close by Fence only, and are not forgotten.
LEMMA ClosingStep == ASSUME TypeOK, ClosingCanceled, [Next]_vars PROVE ClosingCanceled'
<1> USE DEF TypeOK, ClosingCanceled
<1>1. ASSUME NEW p \in Procs, ServiceAct(p) PROVE ClosingCanceled'
  BY <1>1 DEF ServiceAct, ServiceStep, PublishProof, PublishParticipating, MarkReady, Fence, Exit, Crash,
     Die, OperatorStart
<1>2. ASSUME NEW t \in Tasks, TaskAct(t) PROVE ClosingCanceled' BY <1>2, TaskFrame DEF srvVars
<1>3. ASSUME NEW w \in Workers, WorkerAct(w) PROVE ClosingCanceled' BY <1>3, WorkerFrame DEF srvVars
<1>4. ASSUME NEW w \in Workers, ScriptStep(w) PROVE ClosingCanceled'
  <2>1. CASE ForceStop(w)
    <3>1. PICK P : Die(P) BY <2>1 DEF ForceStop
    <3> QED BY <2>1, <3>1 DEF ForceStop, Die
  <2>2. CASE Stop(w) \/ Stopped(w) \/ Start(w) \/ Ready(w) \/ NotReady(w) \/ CleanedUp(w)
    BY <2>2 DEF Stop, Stopped, Start, Ready, NotReady, CleanedUp, Terminate, Idle, srvVars
  <2> QED BY <1>4, <2>1, <2>2 DEF ScriptStep
<1>5. CASE UNCHANGED vars BY <1>5 DEF vars, srvVars
<1> QED BY <1>1, <1>2, <1>3, <1>4, <1>5, NextCases


\* A process that was started stays started.
LEMMA StartedStays ==
    ASSUME TypeOK, [Next]_vars, NEW p \in Procs, srv[p] # "none" PROVE srv'[p] # "none"
<1> USE DEF TypeOK
<1>1. ASSUME NEW q \in Procs, ServiceAct(q) PROVE srv'[p] # "none"
  BY <1>1 DEF ServiceAct, ServiceStep, PublishProof, PublishParticipating, MarkReady, Fence, Exit, Crash,
     Die, OperatorStart
<1>2. ASSUME NEW t \in Tasks, TaskAct(t) PROVE srv'[p] # "none" BY <1>2, TaskFrame DEF srvVars
<1>3. ASSUME NEW w \in Workers, WorkerAct(w) PROVE srv'[p] # "none" BY <1>3, WorkerFrame DEF srvVars
<1>4. ASSUME NEW w \in Workers, ScriptStep(w) PROVE srv'[p] # "none"
  <2>1. CASE ForceStop(w)
    <3>1. PICK P : Die(P) BY <2>1 DEF ForceStop
    <3> QED BY <3>1 DEF Die
  <2>2. CASE Stop(w) \/ Stopped(w) \/ Start(w) \/ Ready(w) \/ NotReady(w) \/ CleanedUp(w)
    BY <2>2 DEF Stop, Stopped, Start, Ready, NotReady, CleanedUp, Terminate, Idle, srvVars
  <2> QED BY <1>4, <2>1, <2>2 DEF ScriptStep
<1>5. CASE UNCHANGED vars BY <1>5 DEF vars, srvVars
<1> QED BY <1>1, <1>2, <1>3, <1>4, <1>5, NextCases

\* What the files and the workers name stays started, and what they come to
\* name is the process that writes, or named by a file before.
LEMMA NamesStep == ASSUME TypeOK, NamesStarted, [Next]_vars PROVE NamesStarted'
<1>0. ASSUME NEW n \in Names, Started(n) PROVE Started(n)'
  BY <1>0, StartedStays DEF Started, Names, Procs
<1>t. /\ proof \in Names /\ gen.owner \in Names
      /\ \A w \in Workers : job[w].seen \in Names /\ job[w].target \in Names /\ child[w] \in Names
  BY DEF TypeOK, Names
<1>s. /\ Started(proof)' \/ ~UNCHANGED proof
      /\ Started(gen.owner)' \/ ~UNCHANGED gen
  BY <1>0, <1>t DEF NamesStarted, Started
<1>k. \A w \in Workers : /\ srv'[job[w].seen] # "none" \/ job[w].seen = 0
                         /\ srv'[job[w].target] # "none" \/ job[w].target = 0
                         /\ srv'[child[w]] # "none" \/ child[w] = 0
  BY <1>0, <1>t DEF NamesStarted, Started
<1>f. /\ srv'[proof] # "none" \/ proof = 0
      /\ srv'[gen.owner] # "none" \/ gen.owner = 0
  BY <1>0, <1>t DEF NamesStarted, Started
<1> USE DEF NamesStarted, Started
<1>1. ASSUME NEW p \in Procs, ServiceAct(p) PROVE NamesStarted'
  <2>1. UNCHANGED <<job, child>> BY <1>1, ServiceFrame DEF workerVars, scriptVars
  <2>2. proof' \in {proof, p} /\ gen'.owner \in {gen.owner, p} /\ (proof' # proof => srv'[p] # "none")
        /\ (gen'.owner # gen.owner => srv'[p] # "none")
    BY <1>1 DEF ServiceAct, ServiceStep, PublishProof, PublishParticipating, MarkReady, PublishNew, Fence,
       Exit, Crash, OperatorStart, fileVars, TypeOK
  <2> QED BY <1>k, <1>f, <2>1, <2>2
<1>2. ASSUME NEW t \in Tasks, TaskAct(t) PROVE NamesStarted'
  BY <1>2, TaskFrame DEF srvVars, fileVars, workerVars, scriptVars
<1>3. ASSUME NEW w \in Workers, WorkerAct(w) PROVE NamesStarted'
  <2>1. UNCHANGED <<srv, proof>> BY <1>3, WorkerFrame DEF srvVars
  <2>2. \A v \in Workers \ {w} : job'[v] = job[v] /\ child'[v] = child[v] BY <1>3, WorkerAlone
  <2>3. job'[w].seen \in {0, job[w].seen, proof} /\ job'[w].target \in {0, job[w].target, gen.owner}
    BY <1>3, WorkerMemory DEF NoJob
  <2>4. child'[w] \in {0, child[w]} /\ gen'.owner \in {gen.owner, job[w].seen}
    BY <1>3, WorkerPath DEF OpTimeout, OpDone, Publish, PublishNew, Expire, Kill, fileVars, scriptVars,
       TypeOK
  <2> QED BY <1>k, <1>f, <2>1, <2>2, <2>3, <2>4
<1>4. ASSUME NEW w \in Workers, ScriptStep(w) PROVE NamesStarted'
  <2>1. UNCHANGED <<proof, gen, job>> BY <1>4, ScriptFrame DEF fileVars, workerVars
  <2>2. \A v \in Workers \ {w} : child'[v] = child[v] BY <1>4, ScriptAlone
  <2>3. child'[w] \in {0, child[w]} \/ srv'[child'[w]] # "none"
    <3> USE DEF TypeOK, Run
    <3>1. CASE Stop(w) BY <3>1 DEF Stop
    <3>2. CASE ForceStop(w) BY <3>2 DEF ForceStop
    <3>3. CASE Stopped(w) BY <3>3 DEF Stopped
    <3>4. CASE Start(w) BY <3>4 DEF Start, Idle
    <3>5. CASE Ready(w) BY <3>5 DEF Ready
    <3>6. CASE NotReady(w) BY <3>6 DEF NotReady
    <3>7. CASE CleanedUp(w) BY <3>7 DEF CleanedUp
    <3> QED BY <1>4, <3>1, <3>2, <3>3, <3>4, <3>5, <3>6, <3>7 DEF ScriptStep
  <2> QED BY <1>k, <1>f, <2>1, <2>2, <2>3
<1>5. CASE UNCHANGED vars
  BY <1>5 DEF vars, srvVars, fileVars, workerVars, scriptVars
<1> QED BY <1>1, <1>2, <1>3, <1>4, <1>5, NextCases

\* The process a script starts was not running when the request was made.
LEMMA ChildStep ==
    ASSUME TypeOK, ScriptsOwned, NamesStarted, ChildIsNew, [Next]_vars PROVE ChildIsNew'
<1> USE DEF ChildIsNew
<1>1. ASSUME NEW p \in Procs, ServiceAct(p) PROVE ChildIsNew'
  BY <1>1, ServiceFrame DEF workerVars, scriptVars
<1>2. ASSUME NEW t \in Tasks, TaskAct(t) PROVE ChildIsNew'
  BY <1>2, TaskFrame DEF workerVars, scriptVars
<1>3. ASSUME NEW w \in Workers, WorkerAct(w) PROVE ChildIsNew'
  <2>1. \A v \in Workers \ {w} : pc'[v] = pc[v] /\ job'[v] = job[v] /\ child'[v] = child[v]
    BY <1>3, WorkerAlone
  <2>2. pc'[w] = "op" /\ child'[w] # 0 => pc[w] = "op" /\ child'[w] = child[w] /\ job'[w] = job[w]
    <3> USE DEF TypeOK, Go, scriptVars
    <3>1. CASE OpTimeout(w) BY <3>1 DEF OpTimeout
    <3>2. CASE OpDone(w) BY <3>2 DEF OpDone, Return
    <3>3. CASE Publish(w) BY <3>3 DEF Publish, Return
    <3>4. CASE Expire(w) BY <3>4 DEF Expire
    <3>5. CASE Kill(w) BY <3>5 DEF Kill
    <3> QED BY <1>3, <3>1, <3>2, <3>3, <3>4, <3>5, WorkerPath DEF Ended, ScriptsOwned, AtWork
  <2> QED BY <2>1, <2>2
<1>4. ASSUME NEW w \in Workers, ScriptStep(w) PROVE ChildIsNew'
  <2>1. UNCHANGED <<pc, job>> BY <1>4, ScriptFrame DEF workerVars
  <2>2. \A v \in Workers \ {w} : child'[v] = child[v] BY <1>4, ScriptAlone
  <2>3. child'[w] \in {0, child[w]} \/ (child'[w] \in Procs /\ srv[child'[w]] = "none")
    <3> USE DEF TypeOK, Run
    <3>1. CASE Stop(w) BY <3>1 DEF Stop
    <3>2. CASE ForceStop(w) BY <3>2 DEF ForceStop
    <3>3. CASE Stopped(w) BY <3>3 DEF Stopped
    <3>4. CASE Start(w) BY <3>4 DEF Start, Idle
    <3>5. CASE Ready(w) BY <3>5 DEF Ready
    <3>6. CASE NotReady(w) BY <3>6 DEF NotReady
    <3>7. CASE CleanedUp(w) BY <3>7 DEF CleanedUp
    <3> QED BY <1>4, <3>1, <3>2, <3>3, <3>4, <3>5, <3>6, <3>7 DEF ScriptStep
  <2> QED BY <2>1, <2>2, <2>3 DEF NamesStarted, Started
<1>5. CASE UNCHANGED vars BY <1>5 DEF vars, workerVars, scriptVars
<1> QED BY <1>1, <1>2, <1>3, <1>4, <1>5, NextCases

\* A service publishes the next generation or none.
LEMMA GenerationStep == ASSUME TypeOK, GenerationsOrdered, [Next]_vars PROVE GenerationsOrdered'
<1>0. /\ issued \in Nat /\ gen.id \in Nat /\ settled \subseteq Nat /\ born \in [Procs -> Nat]
      /\ gen \in [id : Nat, owner : 0 .. Instances,
                   status : {"NONE", "PARTICIPATING", "READY", "FAILED"}]
      /\ \A w \in Workers : job[w].expected \in Nat
  BY DEF TypeOK
<1> USE DEF GenerationsOrdered
<1>1. ASSUME NEW p \in Procs, ServiceAct(p) PROVE GenerationsOrdered'
  <2>1. UNCHANGED <<job, settled>> BY <1>1, ServiceFrame DEF workerVars
  <2>2. CASE MarkReady(p) BY <1>0, <2>1, <2>2 DEF MarkReady, PublishNew
  <2>3. CASE PublishParticipating(p)
    <3>1. /\ gen' = [id |-> issued + 1, owner |-> p, status |-> "PARTICIPATING"]
          /\ issued' = issued + 1 /\ UNCHANGED born
      BY <2>3 DEF PublishParticipating, PublishNew
    <3>2. gen'.status # "READY" /\ gen'.id = issued' /\ issued' \in Nat BY <1>0, <3>1
    <3>3. \A n \in Nat : n <= issued => n <= issued' BY <1>0, <3>1
    <3>4. \A g \in settled' : g <= issued' BY <1>0, <2>1, <3>3
    <3>5. \A w \in Workers : job'[w].expected <= issued' BY <1>0, <2>1, <3>3
    <3>6. \A q \in Procs : born'[q] <= issued' BY <1>0, <3>1, <3>3
    <3> QED BY <3>2, <3>4, <3>5, <3>6
  <2>4. CASE UNCHANGED <<gen, issued, born>> BY <2>1, <2>4
  <2> QED BY <1>1, <2>2, <2>3, <2>4
      DEF ServiceAct, ServiceStep, PublishProof, Fence, Exit, Crash, OperatorStart, fileVars
<1>2. ASSUME NEW t \in Tasks, TaskAct(t) PROVE GenerationsOrdered'
  BY <1>2, TaskFrame DEF fileVars, workerVars
<1>3. ASSUME NEW w \in Workers, WorkerAct(w) PROVE GenerationsOrdered'
  <2>1. UNCHANGED born BY <1>3, WorkerFrame
  <2>2. \A v \in Workers \ {w} : job'[v] = job[v] BY <1>3, WorkerAlone
  <2>3. \/ job'[w].expected = 0
        \/ job'[w].expected = job[w].expected /\ job'[w].target = job[w].target
        \/ /\ job'[w].expected = gen.id /\ job'[w].target = gen.owner
           /\ UNCHANGED <<gen, issued, settled>>
    BY <1>3, WorkerMemory DEF NoJob
  <2>4. \/ UNCHANGED <<gen, issued, settled>>
        \/ /\ UNCHANGED <<gen, issued>> /\ settled' = settled \cup {job[w].expected}
           /\ ~Current(w)
        \/ /\ gen' = [id |-> issued + 1, owner |-> job[w].seen, status |-> "READY"]
           /\ issued' = issued + 1 /\ settled' = settled \cup {job[w].expected}
        \/ /\ gen' = [id |-> job[w].expected, owner |-> job[w].seen, status |-> "FAILED"]
           /\ UNCHANGED issued /\ settled' = settled \cup {job[w].expected}
    BY <1>3, WorkerPath
    DEF OpTimeout, OpDone, Publish, Return, PublishNew, Expire, Kill, fileVars
  <2>5. gen'.id <= issued' /\ (\A g \in settled' : g <= issued') /\ issued <= issued'
    <3>1. job[w].expected <= issued /\ issued' \in {issued, issued + 1} BY <2>4
    <3>2. gen'.id <= issued' BY <1>0, <2>4, <3>1
    <3>3. settled' \subseteq settled \cup {job[w].expected} BY <2>4
    <3>4. \A g \in settled' : g \in Nat /\ g <= issued BY <1>0, <3>1, <3>3
    <3>5. issued <= issued' /\ issued' \in Nat BY <1>0, <3>1
    <3> QED BY <1>0, <3>2, <3>4, <3>5
  <2>6. (\A v \in Workers : job'[v].expected <= issued') /\ (\A p \in Procs : born'[p] <= issued')
    <3>1. \A v \in Workers : job'[v].expected \in {0, job[v].expected, gen.id} BY <2>2, <2>3
    <3> QED BY <1>0, <2>1, <2>4, <2>5, <3>1
  <2>7. ASSUME gen'.status = "READY"
        PROVE  /\ gen'.id > 0 /\ gen'.id \notin settled'
               /\ \A p \in Procs : born'[p] <= gen'.id
               /\ \A v \in Workers : gen'.id = job'[v].expected => gen'.owner = job'[v].target
    <3>1. CASE gen' = [id |-> issued + 1, owner |-> job[w].seen, status |-> "READY"]
               /\ issued' = issued + 1 /\ settled' = settled \cup {job[w].expected}
      BY <1>0, <2>1, <2>2, <2>3, <3>1
    <3>2. CASE UNCHANGED gen
      BY <1>0, <2>1, <2>2, <2>3, <2>4, <2>7, <3>2 DEF Current
    <3> QED BY <2>4, <2>7, <3>1, <3>2
  <2> QED BY <2>5, <2>6, <2>7
<1>4. ASSUME NEW w \in Workers, ScriptStep(w) PROVE GenerationsOrdered'
  BY <1>4, ScriptFrame DEF fileVars, workerVars
<1>5. CASE UNCHANGED vars BY <1>5 DEF vars, fileVars, workerVars
<1> QED BY <1>1, <1>2, <1>3, <1>4, <1>5, NextCases


\* A restart is not started for a generation that is settled, nor settled by
\* another worker while one is at it.
LEMMA OnceStep ==
    ASSUME TypeOK, LocksExclude, GenerationsOrdered, OncePerGeneration, [Next]_vars
    PROVE  OncePerGeneration'
<1> USE DEF OncePerGeneration
<1>1. ASSUME NEW w \in Workers, WorkerAct(w) PROVE OncePerGeneration'
  <2>1. \A v \in Workers \ {w} : pc'[v] = pc[v] /\ job'[v] = job[v] BY <1>1, WorkerAlone
  <2>2. settled' = settled \/ (pc[w] \in {"op", "publish"} /\ pc'[w] # "op")
    <3>1. CASE OpDone(w) BY <3>1 DEF OpDone, Return, Go, TypeOK
    <3>2. CASE Publish(w) BY <3>2 DEF Publish, Return, Go, TypeOK
    <3>3. CASE OpTimeout(w) \/ Expire(w) \/ Kill(w) BY <3>3 DEF OpTimeout, Expire, Kill
    <3> QED BY <1>1, <3>1, <3>2, <3>3, WorkerPath
  <2>3. \A v \in Workers \ {w} : pc[w] \in {"op", "publish"} => pc[v] # "op"
    BY DEF LocksExclude, AdmissionWriters
  <2>4. pc'[w] = "op" => job'[w].expected \notin settled
    <3> USE DEF TypeOK, Go
    <3>1. CASE OpDone(w) BY <3>1 DEF OpDone, Return
    <3>2. CASE Publish(w) BY <3>2 DEF Publish, Return
    <3>3. CASE OpTimeout(w) BY <3>3 DEF OpTimeout
    <3>4. CASE Expire(w) BY <3>4 DEF Expire
    <3>5. CASE Kill(w) BY <3>5 DEF Kill
    <3> QED BY <1>1, <3>1, <3>2, <3>3, <3>4, <3>5, WorkerPath DEF Ended, GenerationsOrdered, Current
  <2> QED BY <2>1, <2>2, <2>3, <2>4
<1>2. CASE UNCHANGED <<workerVars>> BY <1>2 DEF workerVars
<1> QED BY <1>1, <1>2, WorkersStay

\* A process that closes and lives on is kept by a callback alone, because it
\* has canceled its waiters; and the drain lock of the worker whose script it
\* is keeps every callback out.
LEMMA ForcedStep ==
    ASSUME TypeOK, LocksExclude, ScriptsOwned, ClosingCanceled, NoForcedStop, [Next]_vars
    PROVE  NoForcedStop'
<1>1. ASSUME NEW p \in Procs, ServiceAct(p) PROVE NoForcedStop'
  BY <1>1, ServiceFrame DEF NoForcedStop, workerVars, scriptVars
<1>2. ASSUME NEW t \in Tasks, TaskAct(t) PROVE NoForcedStop'
  BY <1>2, TaskFrame DEF NoForcedStop, workerVars, scriptVars
<1>3. ASSUME NEW w \in Workers, WorkerAct(w) PROVE NoForcedStop'
  <2>1. UNCHANGED forced BY <1>3, WorkerFrame
  <2>2. \A v \in Workers \ {w} : pc'[v] = pc[v] BY <1>3, WorkerAlone
  <2>3. killed \subseteq killed'
    BY <1>3, WorkerPath DEF OpTimeout, OpDone, Publish, Expire, Kill, Elsewhere
  <2>4. pc[w] # "TIMED_OUT"
    BY <1>3, WorkerPath DEF OpTimeout, OpDone, Publish, Expire, Kill, Ended
  <2> QED BY <2>1, <2>2, <2>3, <2>4 DEF NoForcedStop
<1>4. ASSUME NEW w \in Workers, ScriptStep(w) PROVE NoForcedStop'
  <2>1. UNCHANGED <<pc, killed>> BY <1>4, ScriptFrame DEF workerVars
  <2>2. CASE ForceStop(w)
    <3>1. SUFFICES ASSUME killed = {} PROVE FALSE BY <2>1 DEF NoForcedStop
    <3>2. AtWork(w) BY <2>2 DEF ForceStop, AtWork
    <3>3. pc[w] = "op" BY <3>1, <3>2 DEF ScriptsOwned
    <3>4. DrainReaders = {} BY <3>3 DEF LocksExclude, DrainWriters
    <3>5. PICK p \in Procs : Stuck(p) BY <2>2 DEF ForceStop
    <3>6. p \in canceled BY <3>5 DEF Stuck, ClosingCanceled
    <3>7. PICK t \in Tasks : task[t] = "body" BY <3>5, <3>6 DEF Stuck, Unfinished
    <3> QED BY <3>4, <3>7 DEF DrainReaders
  <2>3. CASE Stop(w) \/ Stopped(w) \/ Start(w) \/ Ready(w) \/ NotReady(w) \/ CleanedUp(w)
    BY <2>1, <2>3 DEF Stop, Stopped, Start, Ready, NotReady, CleanedUp, NoForcedStop
  <2> QED BY <1>4, <2>2, <2>3 DEF ScriptStep
<1>5. CASE UNCHANGED vars BY <1>5 DEF vars, workerVars, scriptVars, NoForcedStop
<1> QED BY <1>1, <1>2, <1>3, <1>4, <1>5, NextCases


\* While none was killed, a script at work keeps every other worker out.
LEMMA SoleScript ==
    ASSUME LocksExclude, ScriptsOwned, killed = {}, NEW w \in Workers, AtWork(w)
    PROVE  /\ pc[w] = "op"
           /\ \A v \in Workers \ {w} : ~AtWork(v) /\ pc[v] \notin {"op", "publish"}
<1>1. \A v \in Workers : AtWork(v) => pc[v] = "op" BY DEF ScriptsOwned
<1> QED BY <1>1 DEF LocksExclude, AdmissionWriters

\* Where nobody comes alive and no generation comes back, one service stays one.
LEMMA FewerStay ==
    ASSUME OneService, UNCHANGED <<pc, script, child, left>>,
           \A p \in Procs : Live(p)' => Live(p),
           \A w \in Workers : Current(w)' => Current(w)
    PROVE  OneService'
BY DEF OneService, Down, DownOrLeft

\* A service publishes itself, ends or is started where there is none.
LEMMA ServiceUndisturbed ==
    ASSUME GateInv, killed = {}, NEW p \in Procs, ServiceAct(p) PROVE OneService' /\ FilesName'
<1> USE DEF GateInv
<1>1. UNCHANGED <<pc, job, script, child, left, killed>>
  BY ServiceFrame DEF workerVars, scriptVars
<1>2. OneService /\ FilesName BY DEF Undisturbed
<1>3. \A q \in Procs : Live(q) => (Live(p) => q = p) BY <1>2 DEF OneService
<1>4. \A w \in Workers : Current(w)' => Current(w)
  <2>1. CASE MarkReady(p)
    BY <1>1, <2>1 DEF MarkReady, PublishNew, Current, GenerationsOrdered, TypeOK
  <2>2. CASE PublishParticipating(p)
    BY <1>1, <2>2 DEF PublishParticipating, PublishNew, Current, TypeOK
  <2>3. CASE UNCHANGED gen BY <1>1, <2>3 DEF Current
  <2> QED BY <2>1, <2>2, <2>3
      DEF ServiceAct, ServiceStep, PublishProof, Fence, Exit, Crash, OperatorStart, fileVars
<1>5. CASE OperatorStart(p)
  <2>1. \A q \in Procs : Live(q)' => q = p BY <1>5 DEF OperatorStart, Live, TypeOK
  <2>2. \A w \in Workers : ~AtWork(w) /\ pc[w] \notin {"op", "publish"} BY <1>5 DEF OperatorStart
  <2>3. OneService' BY <1>1, <2>1, <2>2 DEF OneService, AtWork
  <2>4. FilesName' BY <1>1, <1>2, <1>5 DEF OperatorStart, FilesName, Live, TypeOK
  <2> QED BY <2>3, <2>4
<1>6. CASE Crash(p)
  <2>1. \A q \in Procs : Live(q)' => Live(q) BY <1>6 DEF Crash, Die, Live, TypeOK
  <2>2. FilesName' BY <1>1, <1>2, <1>6 DEF Crash, Die, FilesName, fileVars, TypeOK
  <2> QED BY <1>1, <1>2, <1>4, <2>1, <2>2, FewerStay
<1>7. CASE ServiceStep(p)
  <2>1. \A q \in Procs : Live(q)' => Live(q)
    BY <1>7 DEF ServiceStep, PublishProof, PublishParticipating, MarkReady, Fence, Exit, Live, TypeOK
  <2>2. Live(p)
    BY <1>7 DEF ServiceStep, PublishProof, PublishParticipating, MarkReady, Fence, Exit, Live, TypeOK
  <2>3. \A q \in Procs \ {p} : srv'[q] = srv[q] /\ ~Live(q)
    BY <1>3, <1>7, <2>2
    DEF ServiceStep, PublishProof, PublishParticipating, MarkReady, Fence, Exit, TypeOK
  <2>4. \A q \in Procs \ {p} : srv'[q] \notin {"proof", "up", "ready"}
    BY <2>3 DEF Live
  <2>5. /\ srv'[p] \in {"proof", "up", "ready"} => proof' = p
        /\ srv'[p] \in {"up", "ready"} => gen'.owner = p
    BY <1>2, <1>7 DEF FilesName, ServiceStep, PublishProof, PublishParticipating, PublishNew, MarkReady,
       Fence, Exit, TypeOK
  <2>6. FilesName' BY <2>4, <2>5 DEF FilesName
  <2> QED BY <1>1, <1>2, <1>4, <2>1, <2>6, FewerStay
<1> QED BY <1>5, <1>6, <1>7 DEF ServiceAct

\* A worker writes the generation only of a service that is down, or writes
\* FAILED over one that was left.
LEMMA WorkerUndisturbed ==
    ASSUME GateInv, killed = {}, killed' = {}, NEW w \in Workers, WorkerAct(w)
    PROVE  OneService' /\ FilesName'
<1> USE DEF GateInv
<1>1. UNCHANGED <<srv, proof, left>> BY WorkerFrame DEF srvVars
<1>2. OneService /\ FilesName BY DEF Undisturbed
<1>3. \A v \in Workers \ {w} : /\ pc'[v] = pc[v] /\ job'[v] = job[v]
                               /\ script'[v] = script[v] /\ child'[v] = child[v]
  BY WorkerAlone
<1>4. (Down' <=> Down) /\ (DownOrLeft' <=> DownOrLeft) BY <1>1 DEF Down, DownOrLeft, Live
<1>5. CASE Publish(w)
  <2>1. Down \/ (script[w] = "fail" /\ DownOrLeft) BY <1>2, <1>5 DEF OneService, Publish
  <2>2. script[w] = "fail" => gen'.status = "FAILED" BY <1>5 DEF Publish
  <2>3. FilesName' BY <1>1, <1>2, <2>1, <2>2 DEF FilesName, Down, DownOrLeft, Live
  <2>4. pc'[w] \notin {"op", "publish"} /\ script' = script /\ child' = child
    BY <1>5 DEF Publish, Return, Go, TypeOK, scriptVars
  <2>5. \A v \in Workers \ {w} : pc'[v] \notin {"op", "publish"}
    BY <1>3, <1>5 DEF Publish, LocksExclude, AdmissionWriters
  <2>6. OneService' BY <1>1, <1>2, <1>4, <2>4, <2>5 DEF OneService, Live
  <2> QED BY <2>3, <2>6
<1>6. CASE UNCHANGED gen
  <2>1. FilesName' BY <1>1, <1>2, <1>6 DEF FilesName
  <2>2. \A v \in Workers \ {w} : Current(v)' => Current(v) BY <1>3, <1>6 DEF Current
  <2>3. /\ script'[w] \notin {"start", "wait", "watch", "cleanup"} \/ (script'[w] = script[w] /\ child'[w] = child[w])
        /\ pc'[w] = "publish" => Down \/ (script'[w] = "fail" /\ DownOrLeft)
        /\ pc'[w] = "op" /\ script'[w] = "ok" /\ Current(w)' => Down
        /\ pc'[w] = "op" /\ script'[w] = "fail" /\ Current(w)' => DownOrLeft
    <3> USE DEF TypeOK, Go, scriptVars
    <3>1. CASE OpTimeout(w) BY <3>1 DEF OpTimeout
    <3>2. CASE OpDone(w)
      <4>1. script[w] \in {"ok", "fail"} BY <3>2 DEF OpDone, AtWork, ScriptsOwned
      <4> QED BY <1>2, <3>2, <4>1 DEF OpDone, Return, OneService
    <3>3. CASE Publish(w) BY <1>5, <3>3 DEF Publish, Return
    <3>4. CASE Expire(w) BY <1>2, <1>6, <3>4 DEF Expire, OneService, Current
    <3>5. CASE Kill(w) BY <3>5 DEF Kill
    <3> QED BY <3>1, <3>2, <3>3, <3>4, <3>5, WorkerPath DEF Ended
  <2>4. OneService' BY <1>1, <1>2, <1>3, <1>4, <2>2, <2>3 DEF OneService, Live
  <2> QED BY <2>1, <2>4
<1> QED BY <1>5, <1>6, WorkerPath DEF OpTimeout, OpDone, Expire, Kill, fileVars

\* A script starts a service where there is none, and its service is ready
\* only with a generation of its own; a start that fails leaves at most it.
LEMMA ScriptUndisturbed ==
    ASSUME GateInv, killed = {}, NEW w \in Workers, ScriptStep(w) PROVE OneService' /\ FilesName'
<1> USE DEF GateInv
<1>1. UNCHANGED <<proof, gen, pc, job, killed>> BY ScriptFrame DEF fileVars, workerVars
<1>2. OneService /\ FilesName BY DEF Undisturbed
<1>3. /\ AtWork(w) /\ pc[w] = "op"
      /\ \A v \in Workers \ {w} : ~AtWork(v) /\ pc[v] \notin {"op", "publish"}
  BY ScriptAlone, SoleScript
<1>4. \A v \in Workers \ {w} : script'[v] = script[v] BY ScriptAlone
<1>5. \A v \in Workers \ {w} : /\ script'[v] \notin {"start", "wait", "watch", "cleanup"}
                               /\ pc'[v] \notin {"op", "publish"}
  BY <1>1, <1>3, <1>4 DEF AtWork
<1>6. pc'[w] = "op" BY <1>1, <1>3
<1>7. SUFFICES /\ \A p, q \in Procs : Live(p)' /\ Live(q)' => p = q
               /\ script'[w] = "start" => Down'
               /\ script'[w] = "ok" /\ Current(w) => Down'
               /\ script'[w] = "fail" /\ Current(w) => DownOrLeft'
               /\ script'[w] \in {"wait", "watch", "cleanup"} => \A p \in Procs : Live(p)' => p = child'[w]
               /\ FilesName'
  BY <1>1, <1>5, <1>6 DEF OneService, Current
<1> USE DEF TypeOK
<1>8. CASE Stop(w) \/ (NotReady(w) /\ script[w] = "wait")
  <2>1. \A p \in Procs : /\ Live(p)' => Live(p)
                         /\ srv'[p] \in {"proof", "up", "ready"} => srv'[p] = srv[p]
    BY <1>8 DEF Stop, NotReady, Terminate, Live
  <2>2. UNCHANGED left BY <1>8 DEF Stop, NotReady
  <2>3. FilesName' BY <1>1, <1>2, <2>1, <2>2 DEF FilesName
  <2>4. \/ script'[w] = "stopping"
        \/ script'[w] = "cleanup" /\ child'[w] = child[w] /\ script[w] = "wait"
    BY <1>8 DEF Stop, NotReady, Run
  <2> QED BY <1>2, <2>1, <2>3, <2>4 DEF OneService
<1>14. CASE NotReady(w) /\ script[w] = "watch"
  <2>1. /\ UNCHANGED srv /\ script'[w] = "fail"
        /\ left' = left \cup {child[w]}
    BY <1>14 DEF NotReady, Run
  <2>2. FilesName' BY <1>1, <1>2, <2>1 DEF FilesName
  <2>3. DownOrLeft' BY <1>2, <1>14, <2>1 DEF DownOrLeft, OneService, Live
  <2> QED BY <1>2, <2>1, <2>2, <2>3 DEF OneService, Live
<1>9. CASE ForceStop(w)
  <2>1. PICK P : Die(P) BY <1>9 DEF ForceStop
  <2>2. \A p \in Procs : /\ Live(p)' => Live(p)
                         /\ srv'[p] \in {"proof", "up", "ready"} => srv'[p] = srv[p]
    BY <2>1 DEF Die, Live
  <2>3. FilesName' BY <1>1, <1>2, <1>9, <2>2 DEF FilesName, ForceStop
  <2>4. UNCHANGED <<script, child>> /\ script[w] \in {"stopping", "cleanup"} BY <1>9 DEF ForceStop
  <2> QED BY <1>2, <2>2, <2>3, <2>4 DEF OneService
<1>10. CASE Stopped(w)
  <2>1. UNCHANGED <<srv, left>> /\ Down /\ script'[w] = "start" BY <1>10 DEF Stopped, srvVars, Down, Run
  <2> QED BY <1>1, <1>2, <2>1 DEF Down, Live, FilesName
<1>11. CASE Start(w)
  <2>1. Down /\ UNCHANGED left BY <1>2, <1>11 DEF Start, OneService
  <2>2. CASE UNCHANGED srv /\ script' = [script EXCEPT ![w] = "fail"]
    BY <1>1, <1>2, <2>1, <2>2 DEF Down, DownOrLeft, Live, FilesName
  <2>3. ASSUME NEW p \in Procs, srv' = [srv EXCEPT ![p] = "boot"],
               script'[w] \in {"wait", "watch"}, child'[w] = p
        PROVE  /\ \A q \in Procs : Live(q)' => q = p
               /\ FilesName'
    BY <1>1, <1>2, <2>1, <2>3 DEF Down, Live, FilesName
  <2>4. CASE \E p \in Idle : /\ srv' = [srv EXCEPT ![p] = "boot"]
                             /\ Run(w, "wait", p) \/ Run(w, "watch", p)
    <3>1. PICK p \in Procs : /\ srv' = [srv EXCEPT ![p] = "boot"]
                             /\ Run(w, "wait", p) \/ Run(w, "watch", p)
      BY <2>4 DEF Idle
    <3>2. script'[w] \in {"wait", "watch"} /\ child'[w] = p BY <3>1 DEF Run
    <3> QED BY <2>3, <3>1, <3>2
  <2> QED BY <1>11, <2>2, <2>4 DEF Start, Run
<1>12. CASE Ready(w)
  <2>1. UNCHANGED <<srv, left>> /\ script'[w] \in {"ok", "fail"} BY <1>12 DEF Ready, Run, srvVars
  <2>2. PICK p \in Procs : Live(p) /\ gen.owner = p /\ gen.status = "READY"
    BY <1>12 DEF Ready, Live
  <2>3. p = child[w] BY <1>2, <1>12, <2>2 DEF Ready, OneService
  <2>4. child[w] # job[w].target BY <1>3, <2>2, <2>3 DEF ChildIsNew, Procs
  <2>5. ~Current(w) BY <2>2, <2>3, <2>4 DEF Current, GenerationsOrdered
  <2> QED BY <1>1, <1>2, <2>1, <2>5 DEF OneService, Live, FilesName
<1>13. CASE CleanedUp(w)
  <2>1. UNCHANGED <<srv, left>> /\ script'[w] = "fail" /\ Down
    BY <1>2, <1>13 DEF CleanedUp, Run, srvVars, OneService, Down
  <2> QED BY <1>1, <1>2, <2>1 DEF Down, DownOrLeft, Live, FilesName
<1>15. NotReady(w) => script[w] \in {"wait", "watch"} BY DEF NotReady
<1> QED BY <1>8, <1>9, <1>10, <1>11, <1>12, <1>13, <1>14, <1>15 DEF ScriptStep

\* While no worker was killed there is one service, and the files name it.
LEMMA UndisturbedStep == ASSUME GateInv, [Next]_vars PROVE Undisturbed'
<1> USE DEF GateInv
<1>1. ASSUME NEW p \in Procs, ServiceAct(p) PROVE Undisturbed'
  BY <1>1, ServiceFrame, ServiceUndisturbed DEF Undisturbed, workerVars
<1>2. ASSUME NEW t \in Tasks, TaskAct(t) PROVE Undisturbed'
  BY <1>2, TaskFrame
  DEF Undisturbed, OneService, FilesName, Down, DownOrLeft, Live, Current, srvVars, fileVars, workerVars, scriptVars
<1>3. ASSUME NEW w \in Workers, WorkerAct(w) PROVE Undisturbed'
  <2>1. killed \subseteq killed'
    BY <1>3, WorkerPath DEF OpTimeout, OpDone, Publish, Expire, Kill, Elsewhere
  <2> QED BY <1>3, <2>1, WorkerUndisturbed DEF Undisturbed
<1>4. ASSUME NEW w \in Workers, ScriptStep(w) PROVE Undisturbed'
  BY <1>4, ScriptFrame, ScriptUndisturbed DEF Undisturbed, workerVars
<1>5. CASE UNCHANGED vars
  BY <1>5 DEF vars, Undisturbed, OneService, FilesName, Down, DownOrLeft, Live, Current, srvVars, fileVars, workerVars,
     scriptVars
<1> QED BY <1>1, <1>2, <1>3, <1>4, <1>5, NextCases

-----------------------------------------------------------------------------
(***************************************************************************)
(* Theorems                                                                *)
(***************************************************************************)

\* The service starts alone, with no file written and nobody at the gate.
LEMMA InitGate == Init => GateInv
<1> SUFFICES ASSUME Init PROVE GateInv OBVIOUS
<1> USE DEF Init
<1>1. TypeOK BY RestartGateAssumption DEF TypeOK, Procs, Phases, NoJob, Ended
<1>2. LocksExclude BY DEF LocksExclude, AdmissionWriters, DrainWriters
<1>3. ScriptsOwned /\ ClosingCanceled BY DEF ScriptsOwned, ClosingCanceled, AtWork
<1>4. GenerationsOrdered BY DEF GenerationsOrdered, NoJob
<1>5. OncePerGeneration /\ NoForcedStop BY DEF OncePerGeneration, NoForcedStop
<1>6. NamesStarted /\ ChildIsNew BY DEF NamesStarted, Started, NoJob, ChildIsNew
<1>7. Undisturbed BY DEF Undisturbed, OneService, FilesName, Down, Live
<1> QED BY <1>1, <1>2, <1>3, <1>4, <1>5, <1>6, <1>7 DEF GateInv

\* Every step of the service, of a run, of a worker and of a script keeps it.
LEMMA StepGate == GateInv /\ [Next]_vars => GateInv'
<1> SUFFICES ASSUME GateInv, [Next]_vars PROVE GateInv' OBVIOUS
<1>1. TypeOK' /\ LocksExclude' /\ ScriptsOwned' /\ ClosingCanceled'
  BY TypeStep, LockStep, OwnerStep, ClosingStep DEF GateInv
<1>2. GenerationsOrdered' /\ OncePerGeneration' /\ NoForcedStop'
  BY GenerationStep, OnceStep, ForcedStep DEF GateInv
<1>3. NamesStarted' /\ ChildIsNew' BY NamesStep, ChildStep DEF GateInv
<1>4. Undisturbed' BY UndisturbedStep
<1> QED BY <1>1, <1>2, <1>3, <1>4 DEF GateInv

\* The invariant holds throughout.
LEMMA GateInvariant == Spec => []GateInv
BY InitGate, StepGate, PTL DEF Spec

\* A restart that goes through disturbs no callback, kills nothing by force
\* and happens once for its generation.
THEOREM RestartIsSafe == Spec => []RestartsSafely
<1>1. GateInv => RestartsSafely
  BY DEF GateInv, RestartsSafely, Drained, LocksExclude, DrainWriters
<1> QED BY <1>1, GateInvariant, PTL

\* While no worker was killed, the proof names the service that is ready, and
\* so does the generation, whatever an old worker publishes in the end: only
\* over a service that a failed start left running may it have written FAILED.
THEOREM ReadyServiceIsNamed == Spec => []ReadyIsNamed
<1>1. GateInv => ReadyIsNamed
  BY DEF GateInv, ReadyIsNamed, Undisturbed, FilesName
<1> QED BY <1>1, GateInvariant, PTL

\* A worker runs the script over no service that became ready after the
\* request was made and, while no worker was killed, over none but the one
\* the request was made to.
THEOREM NewerServiceSpared == Spec => NewServiceSpared
<1>1. ASSUME GateInv, [Next]_vars, NEW w \in Workers, NEW p \in Procs,
             script[w] = "none", script'[w] = "stop", srv[p] = "ready"
      PROVE  born[p] <= job[w].expected /\ (killed = {} => p = job[w].target)
  <2>1. Current(w)
    <3>1. ASSUME NEW v \in Workers, WorkerAct(v) PROVE Current(w)
      <4>1. v = w BY <1>1, <3>1, WorkerAlone DEF GateInv
      <4> QED BY <1>1, <3>1, <4>1, WorkerPath
          DEF GateInv, TypeOK, OpTimeout, OpDone, Publish, Expire, Kill, scriptVars
    <3>2. ASSUME NEW v \in Workers, ScriptStep(v) PROVE FALSE
      <4>1. v = w BY <1>1, <3>2, ScriptAlone DEF GateInv
      <4> QED BY <1>1, <3>2, <4>1, ScriptAlone DEF GateInv, AtWork
    <3>3. ASSUME NEW q \in Procs, ServiceAct(q) PROVE FALSE
      BY <1>1, <3>3, ServiceFrame DEF scriptVars
    <3>4. ASSUME NEW t \in Tasks, TaskAct(t) PROVE FALSE
      BY <1>1, <3>4, TaskFrame DEF scriptVars
    <3>5. CASE UNCHANGED vars BY <1>1, <3>5 DEF vars, scriptVars
    <3> QED BY <1>1, <3>1, <3>2, <3>3, <3>4, <3>5, NextCases
  <2>2. born[p] <= gen.id /\ gen.owner = job[w].target
    BY <1>1, <2>1 DEF GateInv, GenerationsOrdered, Current
  <2>3. killed = {} => gen.owner = p BY <1>1, <2>1 DEF GateInv, Undisturbed, FilesName, Current
  <2> QED BY <2>1, <2>2, <2>3 DEF Current
<1>2. GateInv /\ [Next]_vars =>
        [\A w \in Workers, p \in Procs :
            script[w] = "none" /\ script'[w] = "stop" /\ srv[p] = "ready"
            => /\ born[p] <= job[w].expected
               /\ killed = {} => p = job[w].target]_vars
  BY <1>1
<1> QED BY <1>2, GateInvariant, PTL DEF Spec, NewServiceSpared
================================================================================
