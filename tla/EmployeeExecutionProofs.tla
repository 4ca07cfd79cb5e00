----------------------- MODULE EmployeeExecutionProofs -----------------------
(***************************************************************************)
(* Proofs about EmployeeExecution, for any works, employees, threads that  *)
(* cancel and number of faults.                                            *)
(***************************************************************************)
EXTENDS EmployeeExecution, FiniteSetTheorems, TLAPS

\* The records of the dispatch thread, of a thread that cancels, of an actor.
Threads == [pc : {"idle", "peeked", "bound", "issued", "announced", "running", "wait",
                  "settle", "finalize"},
            work : Works \cup {None}, result : Results \cup {None}]
Stops   == [pc : {"idle", "permit", "actor", "session"}, work : Works \cup {None}]
Actors  == [box : Seq(Works), cur : Works \cup {None},
            pc : {"idle", "effects", "open", "send", "prompt", "finish", "sink"},
            result : Terminals \cup {None}, canceled : SUBSET Works, session : BOOLEAN]

Shapes ==
    /\ TypeOK
    /\ d \in Threads /\ stopper \in [Stoppers -> Stops] /\ actor \in [Agents -> Actors]
    /\ prompts \in [Works -> Nat] /\ revoked \subseteq Works /\ abandoned \subseteq Works

\* The dispatch thread has the attempt it works on to itself, and works only
\* while the service runs.
AttemptOwned ==
    /\ d.pc = "idle" => d.work = None
    /\ d.pc # "idle" => d.work \in Works /\ mode = "run"
    /\ d.pc = "peeked" => work[d.work] \in {"queued", "rejected"}
    /\ d.pc \notin {"idle", "peeked"} => work[d.work] = "dispatched"
    /\ d.pc \in {"settle", "finalize"} => d.result \in Results

\* An employee has one unfinished attempt.
OneEach ==
    \A v, w \in Works :
        work[v] = "dispatched" /\ work[w] = "dispatched" /\ AgentOf[v] = AgentOf[w] => v = w

\* During recovery no actor and no thread that cancels has anything to do.
Quiet ==
    mode \notin {"run", "closing"} =>
        /\ \A a \in Agents : actor[a].box = <<>> /\ actor[a].pc = "idle"
        /\ \A s \in Stoppers : stopper[s].pc = "idle"

\* A work that was not submitted is not known to any actor.
Unsubmitted(w) ==
    \/ work[w] \in {"queued", "rejected"}
    \/ d.work = w /\ d.pc \in {"bound", "issued", "announced", "running"}

SubmittedOnce == \A w \in Works : Unsubmitted(w) => alog[w] = "none"

\* What is reported of a work follows what was done: a prompt of what was
\* submitted, a result of what was prompted, in the journal before anyone
\* hears of it.
ReportsFollow ==
    /\ \A w \in Works :
          /\ prompts[w] <= 1
          /\ alog[w] = "none" => prompts[w] = 0
          /\ alog[w] = "completed" => prompts[w] = 1
          /\ term[w] = "completed" => alog[w] = "completed"
          /\ work[w] = "COMPLETED" => alog[w] = "completed"
    /\ d.pc \in {"settle", "finalize"} /\ d.result = "COMPLETED" => alog[d.work] = "completed"

\* An assignment is in the mailbox of its employee once, and neither there nor
\* before send_prompt() has it been prompted.
Boxed(a) ==
    \A i \in 1 .. Len(actor[a].box) :
        LET w == actor[a].box[i] IN
        /\ AgentOf[w] = a /\ alog[w] = "queued" /\ prompts[w] = 0
        /\ actor[a].pc # "idle" => w # actor[a].cur
        /\ \A j \in 1 .. Len(actor[a].box) : actor[a].box[j] = w => j = i

Acting(a) ==
    LET A == actor[a] IN
    /\ A.pc = "idle" => A.cur = None
    /\ A.pc # "idle" => A.cur \in Works /\ AgentOf[A.cur] = a /\ alog[A.cur] # "none"
    /\ A.pc \notin {"idle", "sink"} => alog[A.cur] = "queued"
    /\ A.pc \in {"effects", "open", "send"} => prompts[A.cur] = 0
    /\ A.pc = "prompt" => prompts[A.cur] = 1
    /\ A.pc \in {"finish", "sink"} => A.result \in Terminals
    /\ A.pc = "finish" /\ A.result = "completed" => prompts[A.cur] = 1
    /\ A.pc = "sink" /\ A.result = "completed" => alog[A.cur] = "completed"

ActorsSound == \A a \in Agents : Boxed(a) /\ Acting(a)

\* The unfinished attempt of an employee is the last its actor was given.
LiveIsLast ==
    \A w \in Works : work[w] = "dispatched" =>
        LET A == actor[AgentOf[w]] IN
        /\ A.pc # "idle" /\ A.cur = w => A.box = <<>>
        /\ \A i \in 1 .. Len(A.box) : A.box[i] = w => i = Len(A.box)

\* A permit exists for an attempt that was bound, and one that is issued for
\* an attempt no actor has seen.
PermitsSound ==
    \A w \in Works :
        /\ permit[w] # "none" => /\ work[w] \notin {"queued", "rejected"}
                                 /\ ~(d.work = w /\ d.pc = "bound")
        /\ permit[w] = "issued" => /\ alog[w] = "none"
                                   /\ d.work = w => d.pc \in {"issued", "announced"}

\* A revoked attempt is stopped before it is submitted: by the latch, by the
\* canceled permit, or because the dispatch thread is past it.
RevokedStopped ==
    \A w \in revoked :
        /\ alog[w] = "none" /\ work[w] \notin {"queued", "rejected"}
        /\ d.work = w => \/ d.pc = "bound" /\ w \in latch
                         \/ d.pc \in {"issued", "announced"} /\ permit[w] = "canceled"
                         \/ d.pc = "finalize"

\* A thread that cancels holds the terminal lock over a live attempt; when it
\* is about to call the session, its actor has nothing else to do.
StopsLive ==
    \A s \in Stoppers :
        LET w == stopper[s].work IN
        /\ stopper[s].pc # "idle" => w \in Works /\ work[w] = "dispatched"
        /\ stopper[s].pc = "session" =>
              LET A == actor[AgentOf[w]] IN
              alog[w] # "none" /\ A.box = <<>> /\ (A.pc = "idle" \/ A.cur = w)

ExecInv ==
    /\ Shapes
    /\ AttemptOwned
    /\ OneEach
    /\ AttemptsAccounted
    /\ StopWins
    /\ Quiet
    /\ SubmittedOnce
    /\ ReportsFollow
    /\ ActorsSound
    /\ LiveIsLast
    /\ PermitsSound
    /\ RevokedStopped
    /\ StopsLive

-----------------------------------------------------------------------------
(***************************************************************************)
(* Who changes what                                                        *)
(***************************************************************************)

DispatchAct == Dispatch \/ \E w \in Works : Peek(w)
StopAct(s)  == Cancel(s) \/ \E w \in Works : Stop(s, w)
ActorAct(a) == Mailbox(a) \/ Reap(a) \/ Retire(a)

\* Every step is one of the dispatch thread, of a thread that cancels, of an
\* actor, of the employees' records, or of the service that ends and recovers.
LEMMA NextCases ==
    ASSUME [Next]_vars
    PROVE  \/ DispatchAct
           \/ \E s \in Stoppers : StopAct(s)
           \/ \E w \in Works : StopQueued(w)
           \/ \E a \in Agents : ActorAct(a)
           \/ \E a \in Agents : Dismiss(a)
           \/ Close
           \/ Restart
           \/ Recovery
           \/ UNCHANGED vars
BY DEF Next, DispatchAct, StopAct, ActorAct

\* The dispatch thread sends no prompt and stops nobody.
LEMMA DispatchFrame ==
    ASSUME DispatchAct
    PROVE  UNCHANGED <<stopReq, employed, mode, term, stopper, retired, prompts, revoked>>
BY DEF DispatchAct, Dispatch, Peek, Discard, Bind, Expire, Issue, Announce, Claim, Submit, Wait, Settle,
       Finalize, durable, ghosts

\* A thread that cancels touches requests, permits and what an actor is to stop.
LEMMA StopFrame ==
    ASSUME NEW s \in Stoppers, StopAct(s)
    PROVE  UNCHANGED <<work, alog, employed, mode, d, term, retired, prompts, abandoned>>
<1>1. CASE \E w \in Works : Stop(s, w) BY <1>1 DEF Stop, ghosts
<1>2. CASE StopPermit(s) BY <1>2 DEF StopPermit, durable
<1>3. CASE StopActor(s) BY <1>3 DEF StopActor, durable
<1>4. CASE StopSession(s) BY <1>4 DEF StopSession, durable
<1> QED BY <1>1, <1>2, <1>3, <1>4 DEF StopAct, Cancel

\* An actor does not touch attempts, permits and other threads.
LEMMA ActorFrame ==
    ASSUME NEW a \in Agents, ActorAct(a)
    PROVE  UNCHANGED <<work, stopReq, employed, mode, d, permit, latch, flagged, stopper, revoked, abandoned>>
BY DEF ActorAct, Mailbox, Take, Effects, Open, Send, Prompted, Finish, Sink, Reap, Retire, durable,
       gateway, ghosts

\* Recovery writes results, and runs before any thread starts.
LEMMA RecoveryFrame ==
    ASSUME Recovery
    PROVE  UNCHANGED <<stopReq, employed, d, permit, latch, flagged, stopper, actor, retired, prompts, revoked, abandoned>>
BY DEF Recovery, RecoverActor, RecoverAttempt, RecoverActors, Recover, durable, gateway, ghosts

-----------------------------------------------------------------------------
(***************************************************************************)
(* Types                                                                   *)
(***************************************************************************)

\* Every terminal of an actor has its GatewayExecutionStatus.
LEMMA StatusTyped ==
    ASSUME NEW t \in Terminals
    PROVE  StatusOf[t] \in Results /\ (StatusOf[t] = "COMPLETED" => t = "completed")
BY DEF Terminals, Results, StatusOf

\* A fault that the journal meets is counted, and disables it at most.
LEMMA BreaksTyped ==
    ASSUME faults \in 0 .. MaxFaults, disabled \in BOOLEAN,
           Anchors \/ Fails \/ Keeps \/ Unstable \/ UNCHANGED <<disabled, faults>>
    PROVE  faults' \in 0 .. MaxFaults /\ disabled' \in BOOLEAN
<1>1. disabled' \in {disabled, TRUE} /\ (faults' = faults \/ (faults < MaxFaults /\ faults' = faults + 1))
  BY DEF Anchors, Fails, Keeps, Breaks, Unstable
<1>2. faults' \in 0 .. MaxFaults BY <1>1, ExecutionAssumption
<1>3. disabled' \in BOOLEAN BY <1>1
<1> QED BY <1>2, <1>3

\* The records that threads and actors start with are records of their kind.
LEMMA Constants == AgentOf \in [Works -> Agents] /\ IdleThread \in Threads /\ IdleStop \in Stops /\ NewActor \in Actors
BY ExecutionAssumption DEF IdleThread, Threads, IdleStop, Stops, NewActor, Actors

\* The types, part by part.
Facts == /\ work \in [Works -> {"queued", "rejected", "dispatched"} \cup Results]
         /\ stopReq \subseteq Works
         /\ alog \in [Works -> {"none", "queued"} \cup Terminals]
         /\ employed \subseteq Agents /\ retired \subseteq Agents
         /\ mode \in {"run", "closing", "actors", "attempts", "blocked"}
         /\ term \in [Works -> Terminals \cup {None}]
Gates == /\ permit \in [Works -> {"none", "issued", "running", "canceled"}]
         /\ latch \subseteq Works /\ flagged \subseteq Works
Counts == disabled \in BOOLEAN /\ faults \in 0 .. MaxFaults
Ghosts == prompts \in [Works -> Nat] /\ revoked \subseteq Works /\ abandoned \subseteq Works

\* Shapes is its parts.
LEMMA ShapeParts ==
    /\ Shapes => /\ Facts /\ Gates /\ Counts /\ Ghosts
                 /\ d \in Threads /\ stopper \in [Stoppers -> Stops] /\ actor \in [Agents -> Actors]
    /\ Facts' /\ Gates' /\ Counts' /\ Ghosts' /\ d' \in Threads /\ stopper' \in [Stoppers -> Stops]
       /\ actor' \in [Agents -> Actors] => Shapes'
<1>1. Shapes => /\ Facts /\ Gates /\ Counts /\ Ghosts
                 /\ d \in Threads /\ stopper \in [Stoppers -> Stops] /\ actor \in [Agents -> Actors]
  BY DEF Shapes, TypeOK, Facts, Gates, Counts, Ghosts
<1>2. ASSUME Facts', Gates', Counts', Ghosts', d' \in Threads, stopper' \in [Stoppers -> Stops],
             actor' \in [Agents -> Actors]
      PROVE  Shapes'
  <2>1. d'.work \in Works \cup {None} /\ d'.result \in Results \cup {None} BY <1>2 DEF Threads
  <2>2. \A s \in Stoppers : stopper'[s].pc \in {"idle", "permit", "actor", "session"}
    BY <1>2 DEF Stops
  <2>3. \A a \in Agents : actor'[a].cur \in Works \cup {None} /\ actor'[a].result \in Terminals \cup {None}
    BY <1>2 DEF Actors
  <2>4. \A a \in Agents : actor'[a].session \in BOOLEAN BY <1>2 DEF Actors
  <2> QED BY <1>2, <2>1, <2>2, <2>3, <2>4 DEF Shapes, TypeOK, Facts, Gates, Counts, Ghosts
<1> QED BY <1>1, <1>2

\* The dispatch thread keeps the types.
LEMMA DispatchShapes == ASSUME Shapes, AttemptOwned, DispatchAct PROVE Shapes'
<1>0. /\ Facts /\ Gates /\ Counts /\ Ghosts
      /\ d \in Threads /\ stopper \in [Stoppers -> Stops] /\ actor \in [Agents -> Actors]
  BY ShapeParts
<1>1. UNCHANGED <<stopReq, employed, mode, term, stopper, retired, prompts, revoked>> BY DispatchFrame
<1>2. Counts'
  <2>1. Anchors \/ Fails \/ Keeps \/ Unstable \/ UNCHANGED <<disabled, faults>>
    BY DEF DispatchAct, Dispatch, Peek, Discard, Bind, Expire, Issue, Announce, Claim, Submit, Wait,
       Settle, Finalize
  <2> QED BY <1>0, <2>1, BreaksTyped DEF Counts
<1> USE DEF Facts, Gates, Ghosts, AttemptOwned, Threads, Goto, Settled, Leave, Abandon, At, durable, gateway
<1>w. ASSUME d.pc # "idle", Gates', alog' \in [Works -> {"none", "queued"} \cup Terminals],
             work' \in [Works -> {"queued", "rejected", "dispatched"} \cup Results],
             actor' \in [Agents -> Actors], d' \in Threads, abandoned' \subseteq Works
      PROVE  Shapes'
  BY <1>0, <1>1, <1>2, <1>w, ShapeParts
<1>3. ASSUME NEW w \in Works, Peek(w) PROVE Shapes'
  BY <1>0, <1>1, <1>2, <1>3, ShapeParts DEF Peek, IdleThread
<1>4. CASE Discard BY <1>0, <1>w, <1>4, Constants DEF Discard
<1>5. CASE Bind BY <1>0, <1>w, <1>5, Constants DEF Bind
<1>6. CASE Expire BY <1>0, <1>w, <1>6 DEF Expire, Results
<1>7. CASE Issue BY <1>0, <1>w, <1>7 DEF Issue
<1>8. CASE Announce BY <1>0, <1>w, <1>8, Constants DEF Announce
<1>9. CASE Claim
  <2>1. CASE permit[d.work] = "canceled" BY <1>0, <1>w, <1>9, <2>1 DEF Claim, Results
  <2>2. CASE permit[d.work] # "canceled" BY <1>0, <1>w, <1>9, <2>2 DEF Claim
  <2> QED BY <2>1, <2>2
<1>10. CASE Submit
  <2>1. actor' \in [Agents -> Actors]
    <3>1. AgentOf[d.work] \in Agents BY <1>10, Constants DEF Submit
    <3>2. actor[AgentOf[d.work]] \in Actors /\ d.work \in Works BY <1>0, <1>10, <3>1 DEF Submit
    <3>3. Append(actor[AgentOf[d.work]].box, d.work) \in Seq(Works) BY <3>2 DEF Actors
    <3>4. [actor[AgentOf[d.work]] EXCEPT !.box = Append(@, d.work)] \in Actors
      BY <3>2, <3>3 DEF Actors
    <3>5. \/ actor' = [actor EXCEPT ![AgentOf[d.work]].box = Append(@, d.work)]
          \/ actor' = actor
      BY <1>10 DEF Submit
    <3> QED BY <1>0, <3>1, <3>4, <3>5
  <2>2. d.pc = "running" /\ d.work \in Works BY <1>10 DEF Submit
  <2>3. alog' \in [Works -> {"none", "queued"} \cup Terminals] BY <1>0, <1>10 DEF Submit
  <2>4. d' \in Threads BY <1>0, <1>10 DEF Submit, Results
  <2>5. UNCHANGED <<work, permit, latch, flagged, abandoned>> BY <1>10 DEF Submit, ghosts
  <2> QED BY <1>0, <1>w, <2>1, <2>2, <2>3, <2>4, <2>5
<1>11. CASE Wait
  <2>1. term[d.work] # None => StatusOf[term[d.work]] \in Results BY <1>0, <1>11, StatusTyped DEF Wait
  <2> QED BY <1>0, <1>w, <1>11, <2>1 DEF Wait, Results
<1>12. CASE Settle BY <1>0, <1>w, <1>12 DEF Settle, Results
<1>13. CASE Finalize BY <1>0, <1>w, <1>13, Constants DEF Finalize, Outcome, Results
<1> QED BY <1>3, <1>4, <1>5, <1>6, <1>7, <1>8, <1>9, <1>10, <1>11, <1>12, <1>13 DEF DispatchAct, Dispatch

\* So do the threads that cancel.
LEMMA StopShapes == ASSUME Shapes, StopsLive, NEW s \in Stoppers, StopAct(s) PROVE Shapes'
<1>0. /\ Facts /\ Gates /\ Counts /\ Ghosts
      /\ d \in Threads /\ stopper \in [Stoppers -> Stops] /\ actor \in [Agents -> Actors]
  BY ShapeParts
<1>1. UNCHANGED <<work, alog, employed, mode, d, term, retired, prompts, abandoned>> BY StopFrame
<1>w. ASSUME Gates', stopReq' \subseteq Works, stopper' \in [Stoppers -> Stops],
             actor' \in [Agents -> Actors], revoked' \subseteq Works, Counts'
      PROVE  Shapes'
  BY <1>0, <1>1, <1>w, ShapeParts DEF Facts, Ghosts
<1>g. ASSUME StopEnds(s) \/ \E pc \in {"actor", "session"} : StopGoto(s, pc)
      PROVE  stopper' \in [Stoppers -> Stops]
  <2>1. stopper[s] \in Stops BY <1>0
  <2>2. \A pc \in {"actor", "session"} : [stopper[s] EXCEPT !.pc = pc] \in Stops BY <2>1 DEF Stops
  <2> QED BY <1>0, <1>g, <2>2, Constants DEF StopEnds, StopGoto
<1> USE DEF Facts, Gates, Counts, Ghosts, StopsLive
<1>2. ASSUME NEW w \in Works, Stop(s, w) PROVE Shapes'
  <2>1. Counts' BY <1>0, <1>2, BreaksTyped DEF Stop
  <2>2. stopper' \in [Stoppers -> Stops]
    <3>1. [pc |-> "permit", work |-> w] \in Stops BY DEF Stops
    <3> QED BY <1>0, <1>2, <3>1 DEF Stop
  <2> QED BY <1>0, <1>w, <1>2, <2>1, <2>2 DEF Stop, gateway, ghosts
<1>3. CASE StopPermit(s)
  <2>1. Gates' BY <1>0, <1>3 DEF StopPermit
  <2>2. stopper' \in [Stoppers -> Stops] BY <1>g, <1>3 DEF StopPermit
  <2>3. revoked' \subseteq Works BY <1>0, <1>3 DEF StopPermit
  <2> QED BY <1>0, <1>w, <1>3, <2>1, <2>2, <2>3 DEF StopPermit, durable
<1>4. CASE StopActor(s)
  <2>1. Counts' BY <1>0, <1>4, BreaksTyped DEF StopActor
  <2>2. actor' \in [Agents -> Actors]
    <3> DEFINE w == stopper[s].work
    <3>1. w \in Works /\ AgentOf[w] \in Agents BY <1>4, Constants DEF StopActor
    <3>2. actor[AgentOf[w]] \in Actors BY <1>0, <3>1
    <3>3. actor[AgentOf[w]].canceled \cup {w} \in SUBSET Works BY <3>1, <3>2 DEF Actors
    <3>4. [actor[AgentOf[w]] EXCEPT !.canceled = @ \cup {w}] \in Actors
      BY <3>2, <3>3 DEF Actors
    <3> QED BY <1>0, <1>4, <3>1, <3>4 DEF StopActor
  <2>3. stopper' \in [Stoppers -> Stops] BY <1>0, <1>g, <1>4 DEF StopActor
  <2> QED BY <1>0, <1>w, <1>4, <2>1, <2>2, <2>3 DEF StopActor, durable, gateway
<1>5. CASE StopSession(s) BY <1>0, <1>g, <1>w, <1>5 DEF StopSession, durable, gateway
<1> QED BY <1>2, <1>3, <1>4, <1>5 DEF StopAct, Cancel

\* What an actor becomes.
LEMMA ActorBecomes ==
    ASSUME actor \in [Agents -> Actors], NEW a \in Agents, NEW b \in Actors,
           actor' = [actor EXCEPT ![a] = b]
    PROVE  /\ actor' \in [Agents -> Actors]
           /\ actor'[a] = b
           /\ \A c \in Agents \ {a} : actor'[c] = actor[c]
OBVIOUS

\* Each action of an actor replaces the actor's record, and no other's.
LEMMA ActorShapes ==
    ASSUME Shapes, ActorsSound, NEW a \in Agents, ActorAct(a)
    PROVE  Shapes' /\ \A c \in Agents \ {a} : actor'[c] = actor[c]
<1>0. /\ Facts /\ Gates /\ Counts /\ Ghosts
      /\ d \in Threads /\ stopper \in [Stoppers -> Stops] /\ actor \in [Agents -> Actors]
  BY ShapeParts
<1>1. UNCHANGED <<work, stopReq, employed, mode, d, permit, latch, flagged, stopper, revoked, abandoned>>
  BY ActorFrame
<1> DEFINE A == actor[a]
<1>a. A \in Actors BY <1>0
<1>c. Counts'
  <2>1. Anchors \/ Fails \/ Keeps \/ UNCHANGED <<disabled, faults>>
    BY DEF ActorAct, Mailbox, Take, Effects, Open, Send, Prompted, Finish, Sink, Reap, Retire
  <2> QED BY <1>0, <2>1, BreaksTyped DEF Counts
<1>s. Acting(a) /\ Boxed(a) BY DEF ActorsSound
<1>w. ASSUME NEW b \in Actors, actor' = [actor EXCEPT ![a] = b],
             alog' \in [Works -> {"none", "queued"} \cup Terminals],
             term' \in [Works -> Terminals \cup {None}],
             retired' \subseteq Agents, prompts' \in [Works -> Nat]
      PROVE  Shapes' /\ \A c \in Agents \ {a} : actor'[c] = actor[c]
  BY <1>0, <1>1, <1>c, <1>w, ShapeParts, ActorBecomes DEF Facts, Gates, Ghosts
<1>u. ASSUME NEW b \in Actors, actor' = [actor EXCEPT ![a] = b], UNCHANGED <<alog, term, retired, prompts>>
      PROVE  Shapes' /\ \A c \in Agents \ {a} : actor'[c] = actor[c]
  BY <1>0, <1>w, <1>u DEF Facts, Ghosts
<1>b. ASSUME NEW pc \in {"idle", "effects", "open", "send", "prompt", "finish", "sink"},
             NEW r \in Terminals \cup {None}, NEW open \in BOOLEAN, Become(a, pc, r, open)
      PROVE  \E b \in Actors : actor' = [actor EXCEPT ![a] = b]
  <2>1. [A EXCEPT !.pc = pc, !.result = r, !.session = open] \in Actors BY <1>a DEF Actors
  <2>2. actor' = [actor EXCEPT ![a] = [A EXCEPT !.pc = pc, !.result = r, !.session = open]]
    BY <1>0, <1>b DEF Become
  <2> QED BY <2>1, <2>2
<1> USE DEF durable, gateway, ghosts
<1>2. CASE Take(a)
  <2>1. Head(A.box) \in Works /\ Tail(A.box) \in Seq(Works) BY <1>a, <1>2 DEF Take, Actors
  <2>2. [A EXCEPT !.box = Tail(@), !.cur = Head(A.box),
             !.pc = IF Head(A.box) \in A.canceled THEN "finish" ELSE "effects",
             !.result = IF Head(A.box) \in A.canceled THEN "canceled" ELSE None] \in Actors
    BY <1>a, <2>1 DEF Actors, Terminals
  <2> QED BY <1>2, <1>u, <2>2 DEF Take
<1>3. CASE Effects(a)
  <2>1. A.session \in BOOLEAN BY <1>a DEF Actors
  <2>2. \E b \in Actors : actor' = [actor EXCEPT ![a] = b]
    BY <1>3, <1>b, <2>1 DEF Effects, Terminals
  <2> QED BY <1>3, <1>u, <2>2 DEF Effects
<1>4. CASE Open(a)
  <2>1. \E b \in Actors : actor' = [actor EXCEPT ![a] = b] BY <1>4, <1>b DEF Open, Terminals
  <2> QED BY <1>4, <1>u, <2>1 DEF Open
<1>5. CASE Send(a)
  <2>1. A.session \in BOOLEAN BY <1>a DEF Actors
  <2>2. \E b \in Actors : actor' = [actor EXCEPT ![a] = b] BY <1>5, <1>b, <2>1 DEF Send
  <2>3. A.cur \in Works BY <1>5, <1>s DEF Send, Acting
  <2>4. prompts' \in [Works -> Nat] BY <1>0, <1>5, <2>3 DEF Send, Ghosts
  <2>5. UNCHANGED <<alog, term, retired>> BY <1>5 DEF Send
  <2> QED BY <1>0, <1>w, <2>2, <2>4, <2>5 DEF Facts
<1>6. CASE Prompted(a)
  <2>1. \E b \in Actors : actor' = [actor EXCEPT ![a] = b]
    BY <1>6, <1>b DEF Prompted, Terminals
  <2> QED BY <1>6, <1>u, <2>1 DEF Prompted
<1>7. CASE Finish(a)
  <2>1. A.cur \in Works /\ A.result \in Terminals BY <1>7, <1>s DEF Finish, Acting
  <2>2. ASSUME NEW r \in Terminals
        PROVE  [A EXCEPT !.pc = "sink", !.result = r, !.canceled = @ \ {A.cur}] \in Actors
    BY <1>a DEF Actors
  <2>3. \E b \in Actors : actor' = [actor EXCEPT ![a] = b]
    BY <1>7, <2>1, <2>2 DEF Finish, Terminals
  <2>4. alog' \in [Works -> {"none", "queued"} \cup Terminals] BY <1>0, <1>7, <2>1 DEF Finish, Facts
  <2>5. UNCHANGED <<term, retired, prompts>> BY <1>7 DEF Finish
  <2> QED BY <1>0, <1>w, <2>3, <2>4, <2>5 DEF Facts, Ghosts
<1>8. CASE Sink(a)
  <2>1. A.cur \in Works /\ A.result \in Terminals BY <1>8, <1>s DEF Sink, Acting
  <2>2. [A EXCEPT !.pc = "idle", !.cur = None, !.result = None] \in Actors BY <1>a DEF Actors
  <2>3. \E b \in Actors : actor' = [actor EXCEPT ![a] = b] BY <1>8, <2>2 DEF Sink
  <2>4. term' \in [Works -> Terminals \cup {None}] BY <1>0, <1>8, <2>1 DEF Sink, Facts
  <2>5. UNCHANGED <<alog, retired, prompts>> BY <1>8 DEF Sink
  <2> QED BY <1>0, <1>w, <2>3, <2>4, <2>5 DEF Facts, Ghosts
<1>9. CASE Reap(a)
  <2>1. [A EXCEPT !.session = FALSE] \in Actors BY <1>a DEF Actors
  <2>2. actor' = [actor EXCEPT ![a] = [A EXCEPT !.session = FALSE]] BY <1>0, <1>9 DEF Reap
  <2> QED BY <1>9, <1>u, <2>1, <2>2 DEF Reap
<1>10. CASE Retire(a)
  <2>1. Closed(a) \in Actors
    <3>1. Pending(a) \subseteq Works
      BY <1>a, <1>s DEF Pending, Acting, Actors, ToSet
    <3> QED BY <1>a, <3>1 DEF Closed, Actors
  <2>2. actor' = [actor EXCEPT ![a] = Closed(a)] /\ retired' = retired \cup {a} BY <1>10 DEF Retire
  <2>3. UNCHANGED <<alog, term, prompts>> BY <1>10 DEF Retire
  <2> QED BY <1>0, <1>w, <2>1, <2>2, <2>3 DEF Facts, Ghosts
<1> QED BY <1>2, <1>3, <1>4, <1>5, <1>6, <1>7, <1>8, <1>9, <1>10 DEF ActorAct, Mailbox

\* The end of the process and recovery keep the types, and so does a step.
LEMMA ShapeStep == ASSUME Shapes, AttemptOwned, ActorsSound, StopsLive, [Next]_vars PROVE Shapes'
<1>0. /\ Facts /\ Gates /\ Counts /\ Ghosts
      /\ d \in Threads /\ stopper \in [Stoppers -> Stops] /\ actor \in [Agents -> Actors]
  BY ShapeParts
<1> USE DEF Facts, Gates, Ghosts, durable, gateway, ghosts
<1>1. ASSUME NEW w \in Works, StopQueued(w) PROVE Shapes'
  <2>1. Counts' BY <1>0, <1>1 DEF StopQueued, Counts, Anchors
  <2> QED BY <1>0, <1>1, <2>1, ShapeParts DEF StopQueued
<1>2. ASSUME NEW a \in Agents, Dismiss(a) PROVE Shapes'
  <2>1. Counts' BY <1>0, <1>2 DEF Dismiss, Counts, Anchors
  <2> QED BY <1>0, <1>2, <2>1, ShapeParts DEF Dismiss
<1>3. CASE Close
  <2>1. ASSUME NEW a \in Agents PROVE Closed(a) \in Actors
    <3>1. actor[a] \in Actors BY <1>0
    <3>2. Pending(a) \subseteq Works BY <3>1 DEF ActorsSound, Pending, Acting, Actors, ToSet
    <3> QED BY <3>1, <3>2 DEF Closed, Actors
  <2>2. actor' \in [Agents -> Actors] BY <1>3, <2>1 DEF Close
  <2>3. Counts' BY <1>0, <1>3 DEF Close, Counts
  <2> QED BY <1>0, <1>3, <2>2, <2>3, ShapeParts DEF Close
<1>4. CASE Restart
  <2>1. faults' \in 0 .. MaxFaults BY <1>0, <1>4, ExecutionAssumption DEF Restart, Counts
  <2>2. Counts' BY <1>4, <2>1 DEF Restart, Counts
  <2> QED BY <1>0, <1>4, <2>2, Constants, ShapeParts DEF Restart
<1>5. CASE Recovery
  <2>1. UNCHANGED <<stopReq, employed, d, permit, latch, flagged, stopper, actor, retired, prompts,
                    revoked, abandoned>>
    BY <1>5, RecoveryFrame
  <2>2. Counts'
    <3>1. Anchors \/ Fails \/ Unstable \/ UNCHANGED <<disabled, faults>>
      BY <1>5 DEF Recovery, RecoverActor, RecoverAttempt, RecoverActors, Recover
    <3> QED BY <1>0, <3>1, BreaksTyped DEF Counts
  <2>3. \A w \in Works : Outcome(w, Recovered(w)) \in Results
    BY <1>0, StatusTyped DEF Outcome, Recovered, Results
  <2>4. Facts'
    <3>1. ASSUME NEW w \in Works, RecoverActor(w) PROVE Facts'
      BY <1>0, <2>1, <3>1 DEF RecoverActor, Terminals
    <3>2. ASSUME NEW w \in Works, RecoverAttempt(w) PROVE Facts'
      BY <1>0, <2>1, <2>3, <3>2 DEF RecoverAttempt
    <3>3. CASE RecoverActors BY <1>0, <2>1, <3>3 DEF RecoverActors
    <3>4. CASE Recover BY <1>0, <2>1, <3>4 DEF Recover
    <3> QED BY <1>5, <3>1, <3>2, <3>3, <3>4 DEF Recovery
  <2> QED BY <1>0, <2>1, <2>2, <2>4, ShapeParts
<1>6. CASE UNCHANGED vars
  <2>1. Counts' BY <1>0, <1>6 DEF vars, Counts
  <2> QED BY <1>0, <1>6, <2>1, ShapeParts DEF vars
<1> QED BY <1>1, <1>2, <1>3, <1>4, <1>5, <1>6, NextCases, DispatchShapes, StopShapes, ActorShapes

-----------------------------------------------------------------------------
(***************************************************************************)
(* Attempts                                                                *)
(***************************************************************************)

\* An attempt is bound by the dispatch thread, and ended by it or by recovery;
\* a work that is not bound may be rejected.
LEMMA WorkMoves ==
    ASSUME Shapes, AttemptOwned, [Next]_vars, NEW w \in Works
    PROVE  \/ work'[w] = work[w]
           \/ work[w] = "queued" /\ work'[w] = "rejected"
           \/ Bind /\ d.work = w /\ Eligible(w) /\ work'[w] = "dispatched"
           \/ /\ Finalize /\ d.work = w /\ work[w] = "dispatched"
              /\ work'[w] = Outcome(w, d.result)
           \/ /\ RecoverAttempt(w) /\ work[w] = "dispatched"
              /\ work'[w] = Outcome(w, Recovered(w))
<1>0. work \in [Works -> {"queued", "rejected", "dispatched"} \cup Results] BY ShapeParts DEF Facts
<1> USE <1>0 DEF durable
<1>1. CASE DispatchAct
  <2>1. CASE Discard BY <2>1 DEF Discard
  <2>2. CASE Bind BY <2>2 DEF Bind
  <2>3. CASE Finalize BY <2>3 DEF Finalize, AttemptOwned, At
  <2>4. CASE UNCHANGED work BY <2>4
  <2> QED BY <1>1, <2>1, <2>2, <2>3, <2>4
      DEF DispatchAct, Dispatch, Peek, Expire, Issue, Announce, Claim, Submit, Wait, Settle
<1>2. ASSUME NEW s \in Stoppers, StopAct(s) PROVE work'[w] = work[w] BY <1>2, StopFrame
<1>3. ASSUME NEW v \in Works, StopQueued(v)
      PROVE  work'[w] = work[w] \/ (work[w] = "queued" /\ work'[w] = "rejected")
  BY <1>3 DEF StopQueued
<1>4. ASSUME NEW a \in Agents, ActorAct(a) PROVE work'[w] = work[w] BY <1>4, ActorFrame
<1>5. ASSUME NEW a \in Agents, Dismiss(a) PROVE work'[w] = work[w] BY <1>5 DEF Dismiss
<1>6. CASE Close \/ Restart BY <1>6 DEF Close, Restart
<1>7. CASE Recovery
  <2>1. ASSUME NEW v \in Works, RecoverAttempt(v)
        PROVE  \/ work'[w] = work[w]
               \/ /\ RecoverAttempt(w) /\ work[w] = "dispatched"
                  /\ work'[w] = Outcome(w, Recovered(w))
    BY <2>1 DEF RecoverAttempt
  <2> QED BY <1>7, <2>1 DEF Recovery, RecoverActor, RecoverActors, Recover
<1>8. CASE UNCHANGED vars BY <1>8 DEF vars
<1> QED BY <1>1, <1>2, <1>3, <1>4, <1>5, <1>6, <1>7, <1>8, NextCases

\* What recovery or the gateway reports is a result.
LEMMA OutcomeTyped ==
    ASSUME Shapes, NEW w \in Works
    PROVE  /\ Outcome(w, Recovered(w)) \in Results \ {"COMPLETED"}
           /\ \A r \in Results : Outcome(w, r) \in Results
<1>1. term[w] \in Terminals \cup {None} BY ShapeParts DEF Facts
<1>2. CASE term[w] \in {None, "completed"} BY <1>2 DEF Outcome, Recovered, Results
<1>3. CASE term[w] \notin {None, "completed"}
  BY <1>1, <1>3, StatusTyped DEF Outcome, Recovered, Results
<1> QED BY <1>2, <1>3

\* The dispatch thread keeps its attempt to itself.
LEMMA OwnedStep ==
    ASSUME Shapes, AttemptOwned, [Next]_vars PROVE AttemptOwned'
<1>0. /\ work \in [Works -> {"queued", "rejected", "dispatched"} \cup Results] /\ d \in Threads
      /\ term \in [Works -> Terminals \cup {None}]
  BY ShapeParts DEF Facts
<1> USE <1>0 DEF AttemptOwned, durable
<1>1. CASE DispatchAct
  <2>0. UNCHANGED mode BY <1>1, DispatchFrame
  <2> USE <2>0 DEF Threads, At, Goto, Settled, Leave, Abandon, IdleThread
  <2>1. ASSUME NEW w \in Works, Peek(w) PROVE AttemptOwned' BY <2>1 DEF Peek, Eligible
  <2>2. CASE Discard BY <2>2 DEF Discard
  <2>3. CASE Bind BY <2>3 DEF Bind
  <2>4. CASE Expire BY <2>4 DEF Expire, Results
  <2>5. CASE Issue BY <2>5 DEF Issue
  <2>6. CASE Announce BY <2>6 DEF Announce
  <2>7. CASE Claim
    <3>1. CASE permit[d.work] = "canceled" BY <2>7, <3>1 DEF Claim, Results
    <3>2. CASE permit[d.work] # "canceled" BY <2>7, <3>2 DEF Claim
    <3> QED BY <3>1, <3>2
  <2>8. CASE Submit BY <2>8 DEF Submit, Results
  <2>9. CASE Wait
    <3>1. term[d.work] # None => StatusOf[term[d.work]] \in Results BY <2>9, StatusTyped DEF Wait
    <3> QED BY <2>9, <3>1 DEF Wait, Results
  <2>10. CASE Settle BY <2>10 DEF Settle, Results
  <2>11. CASE Finalize BY <2>11 DEF Finalize
  <2> QED BY <1>1, <2>1, <2>2, <2>3, <2>4, <2>5, <2>6, <2>7, <2>8, <2>9, <2>10, <2>11
      DEF DispatchAct, Dispatch
<1>2. ASSUME NEW s \in Stoppers, StopAct(s) PROVE AttemptOwned' BY <1>2, StopFrame
<1>3. ASSUME NEW v \in Works, StopQueued(v) PROVE AttemptOwned' BY <1>3 DEF StopQueued
<1>4. ASSUME NEW a \in Agents, ActorAct(a) PROVE AttemptOwned' BY <1>4, ActorFrame
<1>5. ASSUME NEW a \in Agents, Dismiss(a) PROVE AttemptOwned' BY <1>5 DEF Dismiss
<1>6. CASE Close BY <1>6 DEF Close, At
<1>7. CASE Restart BY <1>7 DEF Restart, IdleThread
<1>8. CASE Recovery
  <2>1. UNCHANGED d BY <1>8, RecoveryFrame
  <2>2. d.pc = "idle" BY <1>8 DEF Recovery, RecoverActor, RecoverAttempt, RecoverActors, Recover
  <2> QED BY <2>1, <2>2
<1>9. CASE UNCHANGED vars BY <1>9 DEF vars
<1> QED BY <1>1, <1>2, <1>3, <1>4, <1>5, <1>6, <1>7, <1>8, <1>9, NextCases

\* An attempt is bound where its employee has none.
LEMMA OneStep == ASSUME Shapes, AttemptOwned, OneEach, [Next]_vars PROVE OneEach'
<1>1. SUFFICES ASSUME NEW v \in Works, NEW w \in Works, work'[v] = "dispatched", work'[w] = "dispatched",
                      AgentOf[v] = AgentOf[w], v # w
               PROVE  FALSE
  BY DEF OneEach
<1>2. \A u \in Works : /\ Outcome(u, Recovered(u)) \in Results
                       /\ d.pc = "finalize" => Outcome(u, d.result) \in Results
  BY OutcomeTyped DEF AttemptOwned
<1>3. \A u \in {v, w} : \/ work[u] = "dispatched"
                        \/ Bind /\ d.work = u /\ Eligible(u)
  BY <1>1, <1>2, WorkMoves DEF Results, Finalize, At
<1>4. CASE work[v] = "dispatched" /\ work[w] = "dispatched" BY <1>1, <1>4 DEF OneEach
<1>5. CASE d.work = v /\ Eligible(v) /\ work[w] = "dispatched" BY <1>1, <1>5 DEF Eligible, Live
<1>6. CASE d.work = w /\ Eligible(w) /\ work[v] = "dispatched" BY <1>1, <1>6 DEF Eligible, Live
<1> QED BY <1>1, <1>3, <1>4, <1>5, <1>6

\* Once there is a result, nothing writes it again.
LEMMA ResultStays ==
    ASSUME Shapes, AttemptOwned, [Next]_vars, NEW w \in Works, work[w] \in Results \cup {"rejected"}
    PROVE  work'[w] = work[w]
BY WorkMoves DEF Results, Eligible

\* Nobody leaves an attempt unfinished and unaccounted for.
LEMMA AccountStep ==
    ASSUME Shapes, AttemptOwned, AttemptsAccounted, [Next]_vars PROVE AttemptsAccounted'
<1>0. work \in [Works -> {"queued", "rejected", "dispatched"} \cup Results] /\ d \in Threads
  BY ShapeParts DEF Facts
<1> USE <1>0 DEF AttemptsAccounted, durable
<1>1. CASE DispatchAct
  <2>0. UNCHANGED mode BY <1>1, DispatchFrame
  <2> USE <2>0 DEF AttemptOwned, Threads, At, Goto, Settled, Leave, Abandon, IdleThread
  <2>1. ASSUME NEW w \in Works, Peek(w) PROVE AttemptsAccounted' BY <2>1, ExecutionAssumption DEF Peek
  <2>2. CASE Discard BY <2>2 DEF Discard
  <2>3. CASE Bind BY <2>3 DEF Bind
  <2>4. CASE Expire \/ Issue \/ Claim \/ Submit \/ Wait \/ Settle
    <3>1. UNCHANGED <<work, abandoned>> /\ d'.work = d.work
      BY <2>4 DEF Expire, Issue, Claim, Submit, Wait, Settle
    <3> QED BY <3>1
  <2>5. CASE Announce BY <2>5 DEF Announce
  <2>6. CASE Finalize
    <3>1. Outcome(d.work, d.result) \in Results BY <2>6, OutcomeTyped DEF Finalize
    <3> QED BY <2>6, <3>1 DEF Finalize, Results
  <2> QED BY <1>1, <2>1, <2>2, <2>3, <2>4, <2>5, <2>6 DEF DispatchAct, Dispatch
<1>2. ASSUME NEW s \in Stoppers, StopAct(s) PROVE AttemptsAccounted' BY <1>2, StopFrame
<1>3. ASSUME NEW v \in Works, StopQueued(v) PROVE AttemptsAccounted' BY <1>3 DEF StopQueued
<1>4. ASSUME NEW a \in Agents, ActorAct(a) PROVE AttemptsAccounted' BY <1>4, ActorFrame
<1>5. ASSUME NEW a \in Agents, Dismiss(a) PROVE AttemptsAccounted' BY <1>5 DEF Dismiss
<1>6. CASE Close BY <1>6 DEF Close
<1>7. CASE Restart BY <1>7 DEF Restart
<1>8. CASE Recovery
  BY <1>8 DEF Recovery, RecoverActor, RecoverAttempt, RecoverActors, Recover
<1>9. CASE UNCHANGED vars BY <1>9 DEF vars
<1> QED BY <1>1, <1>2, <1>3, <1>4, <1>5, <1>6, <1>7, <1>8, <1>9, NextCases

\* A cancel request that is anchored decides.
LEMMA StopWinsStep == ASSUME Shapes, Shapes', AttemptOwned, StopWins, [Next]_vars PROVE StopWins'
<1>1. \A w \in Works : w \in stopReq' => w \in stopReq \/ (work[w] = "dispatched" /\ UNCHANGED work)
  <2> USE DEF durable
  <2>1. CASE DispatchAct BY <2>1, DispatchFrame
  <2>2. ASSUME NEW s \in Stoppers, StopAct(s)
        PROVE  \A w \in Works : w \in stopReq' => w \in stopReq \/ (work[w] = "dispatched" /\ UNCHANGED work)
    BY <2>2 DEF StopAct, Cancel, Stop, StopPermit, StopActor, StopSession, Live
  <2>3. ASSUME NEW v \in Works, StopQueued(v) PROVE UNCHANGED stopReq BY <2>3 DEF StopQueued
  <2>4. ASSUME NEW a \in Agents, ActorAct(a) PROVE UNCHANGED stopReq BY <2>4, ActorFrame
  <2>5. ASSUME NEW a \in Agents, Dismiss(a) PROVE UNCHANGED stopReq BY <2>5 DEF Dismiss
  <2>6. CASE Close \/ Restart BY <2>6 DEF Close, Restart
  <2>7. CASE Recovery BY <2>7, RecoveryFrame
  <2>8. CASE UNCHANGED vars BY <2>8 DEF vars
  <2> QED BY <2>1, <2>2, <2>3, <2>4, <2>5, <2>6, <2>7, <2>8, NextCases
<1>2. SUFFICES ASSUME NEW w \in stopReq', work'[w] \in Results PROVE work'[w] = "CANCELED"
  BY DEF StopWins
<1>3. w \in Works /\ work[w] \in {"queued", "rejected", "dispatched"} \cup Results
  <2>1. stopReq' \subseteq Works BY DEF Shapes, TypeOK
  <2> QED BY <1>2, <2>1, ShapeParts DEF Facts
<1>4. w \in stopReq BY <1>1, <1>2, <1>3 DEF Results
<1> QED BY <1>2, <1>3, <1>4, WorkMoves DEF StopWins, Outcome, Results

-----------------------------------------------------------------------------
(***************************************************************************)
(* Submission, permits and reports                                         *)
(***************************************************************************)

\* Recovery begins when everything in memory is new.
LEMMA QuietStep == ASSUME AttemptOwned, Quiet, [Next]_vars PROVE Quiet'
<1> USE DEF Quiet
<1>1. CASE DispatchAct
  <2>1. mode = "run" BY <1>1
    DEF AttemptOwned, DispatchAct, Dispatch, Peek, Discard, Bind, Expire, Issue, Announce, Claim, Submit,
        Wait, Settle, Finalize, At
  <2> QED BY <1>1, <2>1, DispatchFrame
<1>2. ASSUME NEW s \in Stoppers, StopAct(s) PROVE Quiet'
  <2>1. mode \in {"run", "closing"}
    BY <1>2 DEF StopAct, Cancel, Stop, StopPermit, StopActor, StopSession
  <2> QED BY <1>2, <2>1, StopFrame
<1>3. ASSUME NEW v \in Works, StopQueued(v) PROVE Quiet' BY <1>3 DEF StopQueued
<1>4. ASSUME NEW a \in Agents, ActorAct(a) PROVE Quiet'
  <2>1. mode \in {"run", "closing"}
    BY <1>4 DEF ActorAct, Mailbox, Take, Effects, Open, Send, Prompted, Finish, Sink, Reap, Retire
  <2> QED BY <1>4, <2>1, ActorFrame
<1>5. ASSUME NEW a \in Agents, Dismiss(a) PROVE Quiet' BY <1>5 DEF Dismiss
<1>6. CASE Close BY <1>6 DEF Close
<1>7. CASE Restart BY <1>7 DEF Restart, NewActor, IdleStop
<1>8. CASE Recovery
  <2>1. UNCHANGED <<actor, stopper>> BY <1>8, RecoveryFrame
  <2>2. mode \notin {"run", "closing"}
    BY <1>8 DEF Recovery, RecoverActor, RecoverAttempt, RecoverActors, Recover
  <2> QED BY <2>1, <2>2
<1>9. CASE UNCHANGED vars BY <1>9 DEF vars
<1> QED BY <1>1, <1>2, <1>3, <1>4, <1>5, <1>6, <1>7, <1>8, <1>9, NextCases

\* The journal learns of an assignment when it is submitted, when its actor
\* ends it, and when recovery does.
LEMMA LogMoves ==
    ASSUME Shapes, ActorsSound, [Next]_vars, NEW w \in Works
    PROVE  \/ alog'[w] = alog[w]
           \/ Submit /\ d.work = w /\ alog'[w] = "queued" /\ UNCHANGED prompts
           \/ /\ \E a \in Agents : Finish(a) /\ actor[a].cur = w /\ alog'[w] = actor[a].result
              /\ alog[w] = "queued" /\ UNCHANGED prompts
           \/ /\ alog[w] = "queued" /\ alog'[w] = "action_required" /\ UNCHANGED prompts
              /\ RecoverActor(w)
<1>0. alog \in [Works -> {"none", "queued"} \cup Terminals] BY ShapeParts DEF Facts
<1> USE <1>0 DEF durable, ghosts
<1>1. CASE DispatchAct
  <2>1. CASE Submit BY <2>1 DEF Submit
  <2>2. CASE UNCHANGED alog BY <2>2
  <2> QED BY <1>1, <2>1, <2>2
      DEF DispatchAct, Dispatch, Peek, Discard, Bind, Expire, Issue, Announce, Claim, Wait, Settle, Finalize
<1>2. ASSUME NEW s \in Stoppers, StopAct(s) PROVE UNCHANGED alog BY <1>2, StopFrame
<1>3. ASSUME NEW v \in Works, StopQueued(v) PROVE UNCHANGED alog BY <1>3 DEF StopQueued
<1>4. ASSUME NEW a \in Agents, ActorAct(a)
      PROVE  \/ alog'[w] = alog[w]
             \/ /\ Finish(a) /\ actor[a].cur = w /\ alog'[w] = actor[a].result
                /\ alog[w] = "queued" /\ UNCHANGED prompts
  <2>1. CASE Finish(a)
    <3>1. alog[actor[a].cur] = "queued" BY <2>1 DEF ActorsSound, Acting, Finish
    <3> QED BY <2>1, <3>1 DEF Finish
  <2>2. CASE UNCHANGED alog BY <2>2
  <2> QED BY <1>4, <2>1, <2>2
      DEF ActorAct, Mailbox, Take, Effects, Open, Send, Prompted, Sink, Reap, Retire
<1>5. ASSUME NEW a \in Agents, Dismiss(a) PROVE UNCHANGED alog BY <1>5 DEF Dismiss
<1>6. CASE Close \/ Restart BY <1>6 DEF Close, Restart
<1>7. CASE Recovery
  BY <1>7 DEF Recovery, RecoverActor, RecoverAttempt, RecoverActors, Recover
<1>8. CASE UNCHANGED vars BY <1>8 DEF vars
<1> QED BY <1>1, <1>2, <1>3, <1>4, <1>5, <1>6, <1>7, <1>8, NextCases

\* A prompt is counted by the actor that sends it.
LEMMA PromptMoves ==
    ASSUME Shapes, [Next]_vars, NEW w \in Works
    PROVE  \/ prompts'[w] = prompts[w]
           \/ /\ \E a \in Agents : Send(a) /\ actor[a].cur = w
              /\ prompts'[w] = prompts[w] + 1 /\ UNCHANGED alog
<1>0. prompts \in [Works -> Nat] BY ShapeParts DEF Ghosts
<1> USE <1>0 DEF durable, ghosts
<1>1. CASE DispatchAct BY <1>1, DispatchFrame
<1>2. ASSUME NEW s \in Stoppers, StopAct(s) PROVE UNCHANGED prompts BY <1>2, StopFrame
<1>3. ASSUME NEW v \in Works, StopQueued(v) PROVE UNCHANGED prompts BY <1>3 DEF StopQueued
<1>4. ASSUME NEW a \in Agents, ActorAct(a)
      PROVE  prompts'[w] = prompts[w] \/
             (Send(a) /\ actor[a].cur = w /\ prompts'[w] = prompts[w] + 1 /\ UNCHANGED alog)
  <2>1. CASE Send(a) BY <2>1 DEF Send
  <2>2. CASE UNCHANGED prompts BY <2>2
  <2> QED BY <1>4, <2>1, <2>2
      DEF ActorAct, Mailbox, Take, Effects, Open, Finish, Prompted, Sink, Reap, Retire
<1>5. ASSUME NEW a \in Agents, Dismiss(a) PROVE UNCHANGED prompts BY <1>5 DEF Dismiss
<1>6. CASE Close \/ Restart BY <1>6 DEF Close, Restart
<1>7. CASE Recovery BY <1>7, RecoveryFrame
<1>8. CASE UNCHANGED vars BY <1>8 DEF vars
<1> QED BY <1>1, <1>2, <1>3, <1>4, <1>5, <1>6, <1>7, <1>8, NextCases

\* The dispatch thread is the only one that moves itself, in the order of
\* its steps.
LEMMA ThreadMoves ==
    ASSUME Shapes, [Next]_vars
    PROVE  \/ UNCHANGED <<d, abandoned>> /\ ~DispatchAct
           \/ DispatchAct
           \/ d' = IdleThread /\ Restart
<1> USE DEF durable
<1>2. ASSUME NEW s \in Stoppers, StopAct(s) PROVE UNCHANGED <<d, abandoned>> BY <1>2, StopFrame
<1>3. ASSUME NEW v \in Works, StopQueued(v) PROVE UNCHANGED <<d, abandoned>> BY <1>3 DEF StopQueued
<1>4. ASSUME NEW a \in Agents, ActorAct(a) PROVE UNCHANGED <<d, abandoned>> BY <1>4, ActorFrame
<1>5. ASSUME NEW a \in Agents, Dismiss(a) PROVE UNCHANGED <<d, abandoned>> BY <1>5 DEF Dismiss
<1>6. CASE Close BY <1>6 DEF Close
<1>7. CASE Restart BY <1>7 DEF Restart
<1>8. CASE Recovery BY <1>8, RecoveryFrame
<1>9. CASE UNCHANGED vars BY <1>9 DEF vars
<1> QED BY <1>2, <1>3, <1>4, <1>5, <1>6, <1>7, <1>8, <1>9, NextCases

\* A work that was not submitted after a step was not submitted before it, and
\* the step does not submit it.
LEMMA UnsubmittedBefore ==
    ASSUME Shapes, AttemptOwned, [Next]_vars, NEW w \in Works, Unsubmitted(w)'
    PROVE  Unsubmitted(w) /\ ~(Submit /\ d.work = w)
<1>0. d \in Threads /\ work[w] \in {"queued", "rejected", "dispatched"} \cup Results
  BY ShapeParts DEF Facts
<1>1. CASE work'[w] \in {"queued", "rejected"}
  <2>1. \A r \in Results : Outcome(w, r) \in Results BY OutcomeTyped
  <2>2. Outcome(w, Recovered(w)) \in Results BY OutcomeTyped
  <2>3. work[w] \in {"queued", "rejected"}
    BY <1>0, <1>1, <2>1, <2>2, WorkMoves DEF Results, AttemptOwned, Finalize, At
  <2> QED BY <2>3 DEF Unsubmitted, Submit, AttemptOwned, At
<1>2. CASE d'.work = w /\ d'.pc \in {"bound", "issued", "announced", "running"}
  <2> USE <1>0 DEF Threads, At, Goto, Settled, Leave, Abandon, IdleThread
  <2>1. ASSUME DispatchAct
        PROVE  d.work = w /\ d.pc \in {"peeked", "bound", "issued", "announced", "running"} /\ ~Submit
    <3>0. w # None BY ExecutionAssumption
    <3>1. CASE \E v \in Works : Peek(v) BY <1>2, <3>1 DEF Peek
    <3>2. CASE Discard \/ Finalize BY <1>2, <3>0, <3>2 DEF Discard, Finalize
    <3>3. CASE Bind BY <1>2, <3>0, <3>3 DEF Bind, Submit
    <3>4. CASE Expire \/ Wait \/ Settle BY <1>2, <3>4 DEF Expire, Wait, Settle
    <3>5. CASE Issue BY <1>2, <3>5 DEF Issue, Submit
    <3>6. CASE Announce BY <1>2, <3>0, <3>6 DEF Announce, Submit
    <3>7. CASE Claim BY <1>2, <3>7 DEF Claim, Submit
    <3>8. CASE Submit BY <1>2, <3>8 DEF Submit
    <3> QED BY <2>1, <3>1, <3>2, <3>3, <3>4, <3>5, <3>6, <3>7, <3>8 DEF DispatchAct, Dispatch
  <2>2. CASE DispatchAct BY <2>1, <2>2 DEF Unsubmitted, AttemptOwned
  <2>3. CASE d' = IdleThread BY <1>2, <2>3
  <2>4. CASE UNCHANGED d /\ ~DispatchAct
    BY <1>2, <2>4 DEF Unsubmitted, DispatchAct, Dispatch
  <2> QED BY <2>2, <2>3, <2>4, ThreadMoves
<1> QED BY <1>1, <1>2 DEF Unsubmitted

\* A work is submitted to an actor once.
LEMMA SubmitStep ==
    ASSUME Shapes, AttemptOwned, ActorsSound, SubmittedOnce, [Next]_vars PROVE SubmittedOnce'
<1>1. SUFFICES ASSUME NEW w \in Works, Unsubmitted(w)' PROVE alog'[w] = "none" BY DEF SubmittedOnce
<1>2. Unsubmitted(w) /\ ~(Submit /\ d.work = w) BY <1>1, UnsubmittedBefore
<1>3. alog[w] = "none" BY <1>2 DEF SubmittedOnce
<1> QED BY <1>2, <1>3, LogMoves

\* The permit of an attempt is issued before it is submitted.
LEMMA PermitStep ==
    ASSUME Shapes, AttemptOwned, ActorsSound, SubmittedOnce, PermitsSound, [Next]_vars
    PROVE  PermitsSound'
<1>0. /\ d \in Threads /\ permit \in [Works -> {"none", "issued", "running", "canceled"}]
      /\ work \in [Works -> {"queued", "rejected", "dispatched"} \cup Results]
  BY ShapeParts DEF Facts, Gates
<1>u. ASSUME NEW w \in Works, work[w] \notin {"queued", "rejected"} PROVE work'[w] \notin {"queued", "rejected"}
  <2>1. (\A r \in Results : Outcome(w, r) \in Results) /\ Outcome(w, Recovered(w)) \in Results
    BY OutcomeTyped
  <2> QED BY <1>0, <1>u, <2>1, WorkMoves DEF Results, AttemptOwned, Finalize, At
<1>1. SUFFICES ASSUME NEW w \in Works, permit'[w] # "none"
               PROVE  /\ work'[w] \notin {"queued", "rejected"}
                      /\ ~(d'.work = w /\ d'.pc = "bound")
                      /\ permit'[w] = "issued" => /\ alog'[w] = "none"
                                                  /\ d'.work = w => d'.pc \in {"issued", "announced"}
  BY DEF PermitsSound
<1>2. CASE UNCHANGED d /\ ~DispatchAct
  <2>1. permit[w] # "none" /\ (permit'[w] = "issued" => permit[w] = "issued")
    <3>1. ASSUME NEW s \in Stoppers, StopAct(s)
          PROVE  permit[w] # "none" /\ (permit'[w] = "issued" => permit[w] = "issued")
      BY <1>0, <1>1, <3>1 DEF StopAct, Cancel, Stop, StopPermit, StopActor, StopSession, gateway
    <3>2. CASE Restart BY <1>1, <3>2 DEF Restart
    <3>3. CASE UNCHANGED permit BY <1>1, <3>3
    <3> QED BY <1>2, <3>1, <3>2, <3>3, NextCases, ActorFrame, RecoveryFrame
        DEF StopQueued, Dismiss, Close, vars, gateway
  <2>2. ~Submit BY <1>2 DEF DispatchAct, Dispatch
  <2> QED BY <1>2, <1>u, <2>1, <2>2, LogMoves DEF PermitsSound
<1>3. CASE d' = IdleThread /\ Restart BY <1>1, <1>3 DEF Restart
<1>4. CASE DispatchAct
  <2> USE <1>0 DEF At, Goto, Settled, Leave, Abandon, IdleThread, Threads, AttemptOwned, gateway, durable
  <2>0. w # None BY ExecutionAssumption
  <2>n. alog[w] = "none" /\ ~Submit => alog'[w] = "none" BY LogMoves
  <2>1. CASE \E v \in Works : Peek(v)
    BY <1>1, <1>u, <2>1, <2>n DEF Peek, Eligible, PermitsSound, Submit
  <2>2. CASE Discard BY <1>1, <1>u, <2>0, <2>2, <2>n DEF Discard, PermitsSound, Submit
  <2>3. CASE Bind
    <3>1. UNCHANGED <<permit, alog>> BY <2>3 DEF Bind
    <3>2. d'.work = w => d'.pc = "bound" /\ Eligible(w) BY <2>0, <2>3 DEF Bind
    <3> QED BY <1>1, <1>u, <3>1, <3>2 DEF PermitsSound, Eligible
  <2>4. CASE Issue
    <3>1. CASE w = d.work
      BY <1>1, <1>u, <2>4, <3>1 DEF Issue, SubmittedOnce, Unsubmitted
    <3>2. CASE w # d.work BY <1>1, <1>u, <2>4, <3>2 DEF Issue, PermitsSound
    <3> QED BY <3>1, <3>2
  <2>5. CASE Claim
    <3>1. CASE w = d.work BY <1>1, <1>u, <2>5, <3>1 DEF Claim
    <3>2. CASE w # d.work BY <1>1, <1>u, <2>5, <3>2 DEF Claim, PermitsSound
    <3> QED BY <3>1, <3>2
  <2>6. CASE Settle BY <1>1, <1>u, <2>6 DEF Settle, PermitsSound
  <2>7. CASE Submit
    <3>1. UNCHANGED permit /\ d'.work = d.work /\ d'.pc \in {"wait", "settle"} BY <2>7 DEF Submit
    <3>2. permit[w] = "issued" => d.work # w BY <2>7 DEF PermitsSound, Submit
    <3>3. permit[w] = "issued" => alog'[w] = alog[w] BY <2>7, <3>2, LogMoves DEF PermitsSound
    <3> QED BY <1>1, <1>u, <3>1, <3>2, <3>3 DEF PermitsSound
  <2>8. CASE Expire BY <1>1, <1>u, <2>8 DEF Expire, PermitsSound
  <2>9. CASE Announce BY <1>1, <1>u, <2>0, <2>9 DEF Announce, PermitsSound
  <2>10. CASE Wait BY <1>1, <1>u, <2>10 DEF Wait, PermitsSound
  <2>11. CASE Finalize BY <1>1, <1>u, <2>0, <2>11 DEF Finalize, PermitsSound
  <2> QED BY <1>4, <2>1, <2>2, <2>3, <2>4, <2>5, <2>6, <2>7, <2>8, <2>9, <2>10, <2>11
      DEF DispatchAct, Dispatch
<1> QED BY <1>2, <1>3, <1>4, ThreadMoves

\* Bound attempts do not go back to the queue.
LEMMA NotRequeued ==
    ASSUME Shapes, AttemptOwned, [Next]_vars, NEW w \in Works, work[w] \notin {"queued", "rejected"}
    PROVE  work'[w] \notin {"queued", "rejected"}
<1>1. (\A r \in Results : Outcome(w, r) \in Results) /\ Outcome(w, Recovered(w)) \in Results
  BY OutcomeTyped
<1>2. work[w] \in {"queued", "rejected", "dispatched"} \cup Results BY ShapeParts DEF Facts
<1> QED BY <1>1, <1>2, WorkMoves DEF Results, AttemptOwned, Finalize, At

\* A revoked attempt goes from the latch or the canceled permit to its end.
LEMMA RevokedStep ==
    ASSUME Shapes, Shapes', AttemptOwned, ActorsSound, SubmittedOnce, PermitsSound, RevokedStopped, [Next]_vars
    PROVE  RevokedStopped'
<1>0. /\ d \in Threads /\ permit \in [Works -> {"none", "issued", "running", "canceled"}]
      /\ revoked' \subseteq Works /\ latch \subseteq Works
  BY ShapeParts DEF Facts, Gates, Shapes
<1> DEFINE Stopped(w) == \/ d'.pc = "bound" /\ w \in latch'
                         \/ d'.pc \in {"issued", "announced"} /\ permit'[w] = "canceled"
                         \/ d'.pc = "finalize"
<1>1. SUFFICES ASSUME NEW w \in Works, w \in revoked'
               PROVE  /\ alog'[w] = "none" /\ work'[w] \notin {"queued", "rejected"}
                      /\ d'.work = w => Stopped(w)
  BY <1>0 DEF RevokedStopped
<1>2. CASE w \in revoked
  <2>1. /\ alog[w] = "none" /\ work[w] \notin {"queued", "rejected"}
        /\ d.work = w => \/ d.pc = "bound" /\ w \in latch
                         \/ d.pc \in {"issued", "announced"} /\ permit[w] = "canceled"
                         \/ d.pc = "finalize"
    BY <1>2 DEF RevokedStopped
  <2>2. work'[w] \notin {"queued", "rejected"} BY <2>1, NotRequeued
  <2>3. alog'[w] = "none" BY <2>1, LogMoves DEF Submit, At
  <2>4. d'.work = w => Stopped(w)
    <3>1. CASE DispatchAct
      <4> USE <1>0 DEF At, Goto, Settled, Leave, Abandon, IdleThread, Threads, AttemptOwned, gateway
      <4>0. w # None BY ExecutionAssumption
      <4>1. CASE \E v \in Works : Peek(v) BY <2>1, <4>1 DEF Peek, Eligible
      <4>2. CASE Discard \/ Bind \/ Finalize BY <2>1, <4>0, <4>2 DEF Discard, Bind, Finalize
      <4>3. CASE Expire BY <4>3 DEF Expire
      <4>4. CASE Issue BY <2>1, <4>4 DEF Issue
      <4>5. CASE Announce BY <2>1, <4>0, <4>5 DEF Announce
      <4>6. CASE Claim BY <2>1, <4>6 DEF Claim
      <4>7. CASE Submit \/ Wait \/ Settle BY <2>1, <4>7 DEF Submit, Wait, Settle
      <4> QED BY <3>1, <4>1, <4>2, <4>3, <4>4, <4>5, <4>6, <4>7 DEF DispatchAct, Dispatch
    <3>2. CASE d' = IdleThread BY <3>2, ExecutionAssumption DEF IdleThread
    <3>3. CASE UNCHANGED d /\ ~DispatchAct
      <4>1. ASSUME NEW s \in Stoppers, StopAct(s)
            PROVE  latch \subseteq latch' /\ (permit[w] = "canceled" => permit'[w] = "canceled")
        BY <1>0, <4>1 DEF StopAct, Cancel, Stop, StopPermit, StopActor, StopSession, gateway
      <4>2. CASE UNCHANGED <<latch, permit>> BY <2>1, <3>3, <4>2
      <4>3. CASE Restart BY <4>3, ExecutionAssumption DEF Restart, IdleThread
      <4> QED BY <2>1, <3>3, <4>1, <4>2, <4>3, NextCases, ActorFrame, RecoveryFrame
          DEF StopQueued, Dismiss, Close, vars, gateway
    <3> QED BY <3>1, <3>2, <3>3, ThreadMoves
  <2> QED BY <2>2, <2>3, <2>4
<1>3. CASE w \notin revoked
  <2>1. PICK s \in Stoppers : /\ StopPermit(s) /\ stopper[s].work = w
                              /\ permit[w] = "issued" \/ (d.work = w /\ d.pc = "bound")
    <3>1. ASSUME NEW s \in Stoppers, StopAct(s)
          PROVE  /\ StopPermit(s) /\ stopper[s].work = w
                 /\ permit[w] = "issued" \/ (d.work = w /\ d.pc = "bound")
      BY <1>1, <1>3, <3>1 DEF StopAct, Cancel, Stop, StopPermit, StopActor, StopSession, ghosts, At
    <3> QED BY <1>1, <1>3, <3>1, NextCases, DispatchFrame, ActorFrame, RecoveryFrame
        DEF StopQueued, Dismiss, Close, Restart, vars, ghosts
  <2>2. UNCHANGED <<d, alog, work>> BY <2>1 DEF StopPermit, durable
  <2>3. permit'[w] = (IF permit[w] = "issued" THEN "canceled" ELSE permit[w])
        /\ (permit[w] = "none" => w \in latch')
    BY <1>0, <2>1 DEF StopPermit
  <2>4. CASE permit[w] = "issued" BY <2>2, <2>3, <2>4 DEF PermitsSound
  <2>5. CASE d.work = w /\ d.pc = "bound"
    <3>1. permit[w] = "none" BY <2>5 DEF PermitsSound
    <3>2. alog[w] = "none" BY <2>5 DEF SubmittedOnce, Unsubmitted
    <3>3. work[w] = "dispatched" BY <2>5 DEF AttemptOwned
    <3> QED BY <2>2, <2>3, <2>5, <3>1, <3>2, <3>3
  <2> QED BY <2>1, <2>4, <2>5
<1> QED BY <1>2, <1>3

\* A result that is in the journal stays there.
LEMMA CompletedStays ==
    ASSUME Shapes, AttemptOwned, ActorsSound, SubmittedOnce, [Next]_vars, NEW w \in Works,
           alog[w] = "completed"
    PROVE  alog'[w] = "completed"
<1>1. ~(Submit /\ d.work = w) BY DEF SubmittedOnce, Unsubmitted, Submit, At
<1> QED BY <1>1, LogMoves

\* Nothing is reported before it is in the journal, nor prompted twice.
LEMMA ReportStep ==
    ASSUME Shapes, AttemptOwned, ActorsSound, SubmittedOnce, ReportsFollow, [Next]_vars
    PROVE  ReportsFollow'
<1>0. /\ d \in Threads /\ prompts \in [Works -> Nat] /\ term \in [Works -> Terminals \cup {None}]
      /\ alog \in [Works -> {"none", "queued"} \cup Terminals]
      /\ work \in [Works -> {"queued", "rejected", "dispatched"} \cup Results]
  BY ShapeParts DEF Facts, Ghosts
<1>1. ASSUME NEW w \in Works
      PROVE  /\ prompts'[w] <= 1
             /\ alog'[w] = "none" => prompts'[w] = 0
             /\ alog'[w] = "completed" => prompts'[w] = 1
  <2>1. CASE prompts'[w] = prompts[w]
    <3>1. alog'[w] = "none" => alog[w] = "none"
      BY LogMoves DEF ActorsSound, Acting, Finish, Terminals
    <3>2. alog'[w] = "completed" => alog[w] = "completed" \/ prompts[w] = 1
      <4>1. ASSUME NEW a \in Agents, Finish(a), actor[a].cur = w, alog'[w] = actor[a].result,
                   alog'[w] = "completed"
            PROVE  prompts[w] = 1
        BY <4>1 DEF ActorsSound, Acting, Finish
      <4> QED BY <4>1, LogMoves
    <3> QED BY <1>0, <2>1, <3>1, <3>2 DEF ReportsFollow
  <2>2. CASE \E a \in Agents : Send(a) /\ actor[a].cur = w /\ prompts'[w] = prompts[w] + 1 /\ UNCHANGED alog
    <3>1. prompts[w] = 0 /\ alog[w] = "queued" BY <2>2 DEF Send, ActorsSound, Acting
    <3> QED BY <2>2, <3>1
  <2> QED BY <2>1, <2>2, PromptMoves
<1>2. ASSUME NEW w \in Works, term'[w] = "completed" PROVE alog'[w] = "completed"
  <2>0. None # "completed" BY ExecutionAssumption DEF Terminals
  <2>1. CASE UNCHANGED term BY <1>2, <2>1, CompletedStays DEF ReportsFollow
  <2>2. ASSUME NEW a \in Agents, Sink(a) PROVE alog'[w] = "completed"
    BY <1>0, <1>2, <2>2 DEF Sink, ActorsSound, Acting, ReportsFollow, durable
  <2>3. CASE RecoverActors BY <1>2, <2>0, <2>3 DEF RecoverActors, durable
  <2>4. CASE Restart BY <1>2, <2>0, <2>4 DEF Restart
  <2> QED BY <2>1, <2>2, <2>3, <2>4, NextCases, DispatchFrame, StopFrame
      DEF StopQueued, Dismiss, Close, ActorAct, Mailbox, Take, Effects, Open, Send, Prompted, Finish, Reap,
          Retire, Recovery, RecoverActor, RecoverAttempt, Recover, vars
<1>3. ASSUME NEW w \in Works, work'[w] = "COMPLETED" PROVE alog'[w] = "completed"
  <2>1. CASE work[w] = "COMPLETED" BY <2>1, CompletedStays DEF ReportsFollow
  <2>2. CASE Finalize /\ d.work = w /\ work'[w] = Outcome(w, d.result)
    BY <1>3, <2>2, CompletedStays DEF Outcome, ReportsFollow, Finalize, At
  <2>3. Outcome(w, Recovered(w)) # "COMPLETED" BY OutcomeTyped
  <2> QED BY <1>3, <2>1, <2>2, <2>3, WorkMoves
<1>4. ASSUME d'.pc \in {"settle", "finalize"}, d'.result = "COMPLETED" PROVE alog'[d'.work] = "completed"
  <2>1. CASE UNCHANGED d
    BY <1>4, <2>1, CompletedStays DEF ReportsFollow, AttemptOwned
  <2>2. CASE d' = IdleThread BY <1>4, <2>2 DEF IdleThread
  <2>3. CASE DispatchAct
    <3> USE <1>0 DEF At, Goto, Settled, Leave, Abandon, IdleThread, Threads
    <3>1. CASE \E v \in Works : Peek(v) BY <1>4, <3>1 DEF Peek
    <3>2. CASE Discard \/ Finalize BY <1>4, <3>2 DEF Discard, Finalize
    <3>6. CASE Bind \/ Issue \/ Announce BY <1>4, <3>6 DEF Bind, Issue, Announce
    <3>7. CASE Expire BY <1>4, <3>7 DEF Expire
    <3>8. CASE Submit BY <1>4, <3>8 DEF Submit
    <3>3. CASE Claim BY <1>4, <3>3 DEF Claim
    <3>4. CASE Wait
      <4>1. term[d.work] # None /\ StatusOf[term[d.work]] = "COMPLETED" /\ d'.work = d.work /\ d.work \in Works
        BY <1>4, <3>4 DEF Wait, AttemptOwned
      <4>2. term[d.work] = "completed" BY <4>1, StatusTyped
      <4> QED BY <4>1, <4>2, CompletedStays DEF ReportsFollow
    <3>5. CASE Settle
      <4>1. d.result = "COMPLETED" /\ d'.work = d.work /\ d.work \in Works
        BY <1>4, <3>5 DEF Settle, AttemptOwned
      <4> QED BY <3>5, <4>1, CompletedStays DEF ReportsFollow, Settle
    <3> QED BY <2>3, <3>1, <3>2, <3>3, <3>4, <3>5, <3>6, <3>7, <3>8 DEF DispatchAct, Dispatch
  <2> QED BY <2>1, <2>2, <2>3, ThreadMoves
<1> QED BY <1>1, <1>2, <1>3, <1>4 DEF ReportsFollow

-----------------------------------------------------------------------------
(***************************************************************************)
(* Actors                                                                  *)
(***************************************************************************)

\* What is left of a mailbox whose first assignment is taken.
LEMMA TailFacts ==
    ASSUME NEW q \in Seq(Works), q # <<>>
    PROVE  /\ Head(q) = q[1] /\ 1 \in 1 .. Len(q)
           /\ Tail(q) \in Seq(Works) /\ Len(Tail(q)) = Len(q) - 1
           /\ \A i \in 1 .. Len(Tail(q)) : i + 1 \in 1 .. Len(q) /\ Tail(q)[i] = q[i + 1]
OBVIOUS

\* A mailbox of length 0 is empty.
LEMMA NothingLeft == ASSUME NEW q \in Seq(Works), Len(q) = 0 PROVE q = <<>>
OBVIOUS

\* A mailbox with one more.
LEMMA AppendFacts ==
    ASSUME NEW q \in Seq(Works), NEW w \in Works
    PROVE  /\ Append(q, w) \in Seq(Works) /\ Len(Append(q, w)) = Len(q) + 1
           /\ \A i \in 1 .. Len(q) : Append(q, w)[i] = q[i]
           /\ Append(q, w)[Len(q) + 1] = w
OBVIOUS

\* An actor whose assignments nobody touches is as it was.
LEMMA ActorSame ==
    ASSUME NEW a \in Agents, Boxed(a), Acting(a), actor[a] \in Actors,
           actor'[a].box = actor[a].box, actor'[a].cur = actor[a].cur,
           actor'[a].pc = actor[a].pc, actor'[a].result = actor[a].result,
           \A w \in Works : AgentOf[w] = a => alog'[w] = alog[w] /\ prompts'[w] = prompts[w]
    PROVE  Boxed(a)' /\ Acting(a)'
<1>1. actor[a].box \in Seq(Works) BY DEF Actors
<1>2. Boxed(a)' BY <1>1 DEF Boxed
<1>3. Acting(a)' BY DEF Acting
<1> QED BY <1>2, <1>3

\* The actors that have nothing to do with a work do not see it change.
LEMMA ActorsElsewhere ==
    ASSUME Shapes, ActorsSound, NEW a \in Agents,
           \A c \in Agents \ {a} : actor'[c] = actor[c],
           \A w \in Works : AgentOf[w] # a => alog'[w] = alog[w] /\ prompts'[w] = prompts[w],
           Boxed(a)' /\ Acting(a)'
    PROVE  ActorsSound'
<1>1. ASSUME NEW c \in Agents \ {a} PROVE Boxed(c)' /\ Acting(c)'
  <2>1. actor[c] \in Actors /\ Boxed(c) /\ Acting(c) BY <1>1, ShapeParts DEF ActorsSound
  <2> QED BY <1>1, <2>1, ActorSame
<1> QED BY <1>1 DEF ActorsSound

\* The mailbox thread goes from one step of an assignment to the next.
LEMMA MailboxSound ==
    ASSUME Shapes, ActorsSound, NEW a \in Agents, ActorAct(a) PROVE ActorsSound'
<1>0. /\ actor \in [Agents -> Actors] /\ alog \in [Works -> {"none", "queued"} \cup Terminals]
      /\ prompts \in [Works -> Nat]
  BY ShapeParts DEF Facts, Ghosts
<1>1. \A c \in Agents \ {a} : actor'[c] = actor[c] BY ActorShapes
<1>2. Boxed(a) /\ Acting(a) BY DEF ActorsSound
<1> DEFINE A == actor[a]
<1>3. A \in Actors /\ A.box \in Seq(Works) BY <1>0 DEF Actors
<1>4. ASSUME UNCHANGED <<alog, prompts>>, Boxed(a)' /\ Acting(a)' PROVE ActorsSound'
  BY <1>1, <1>4, ActorsElsewhere
<1> USE DEF durable, ghosts
<1>5. CASE Take(a)
  <2> DEFINE w == Head(A.box)
  <2>1. UNCHANGED <<alog, prompts>> BY <1>5 DEF Take
  <2>2. /\ actor'[a].box = Tail(A.box) /\ actor'[a].cur = w
        /\ actor'[a].pc = (IF w \in A.canceled THEN "finish" ELSE "effects")
        /\ actor'[a].result = (IF w \in A.canceled THEN "canceled" ELSE None)
    BY <1>0, <1>3, <1>5 DEF Take, Actors
  <2>3. A.box # <<>> BY <1>5 DEF Take
  <2>4. w = A.box[1] /\ 1 \in 1 .. Len(A.box) /\ w \in Works BY <1>3, <2>3, TailFacts
  <2>5. /\ Tail(A.box) \in Seq(Works)
        /\ \A i \in 1 .. Len(Tail(A.box)) : i + 1 \in 1 .. Len(A.box) /\ Tail(A.box)[i] = A.box[i + 1]
    BY <1>3, <2>3, TailFacts
  <2>6. \A i \in 1 .. Len(A.box) : A.box[i] = w => i = 1 BY <1>2, <2>4 DEF Boxed
  <2>7. Boxed(a)'
    <3>1. ASSUME NEW i \in 1 .. Len(Tail(A.box))
          PROVE  /\ AgentOf[Tail(A.box)[i]] = a /\ alog[Tail(A.box)[i]] = "queued" /\ prompts[Tail(A.box)[i]] = 0
                 /\ Tail(A.box)[i] # w
                 /\ \A j \in 1 .. Len(Tail(A.box)) : Tail(A.box)[j] = Tail(A.box)[i] => j = i
      BY <1>2, <2>5, <2>6, <3>1 DEF Boxed
    <3> QED BY <2>1, <2>2, <3>1 DEF Boxed
  <2>8. AgentOf[w] = a /\ alog[w] = "queued" /\ prompts[w] = 0 BY <1>2, <2>4 DEF Boxed
  <2>9. Acting(a)' BY <2>1, <2>2, <2>4, <2>8, ExecutionAssumption DEF Acting, Terminals
  <2> QED BY <1>4, <2>1, <2>7, <2>9
<1>6. ASSUME NEW pc \in {"open", "send", "finish"}, NEW r \in Terminals \cup {None}, NEW open \in BOOLEAN,
             Become(a, pc, r, open), UNCHANGED <<alog, prompts>>,
             A.pc \notin {"idle", "sink"},
             pc \in {"open", "send"} => A.pc \in {"effects", "open"},
             pc = "finish" => r \in Terminals /\ (r = "completed" => A.pc = "prompt")
      PROVE  ActorsSound'
  <2>1. /\ actor'[a].box = A.box /\ actor'[a].cur = A.cur
        /\ actor'[a].pc = pc /\ actor'[a].result = r
    BY <1>0, <1>3, <1>6 DEF Become, Actors
  <2>2. Boxed(a)' BY <1>2, <1>3, <1>6, <2>1 DEF Boxed
  <2>3. Acting(a)' BY <1>2, <1>6, <2>1 DEF Acting
  <2> QED BY <1>4, <1>6, <2>2, <2>3
<1>7. CASE Effects(a)
  <2>1. A.session \in BOOLEAN BY <1>3 DEF Actors
  <2> QED BY <1>6, <1>7, <2>1 DEF Effects, Terminals
<1>8. CASE Open(a) BY <1>6, <1>8 DEF Open, Terminals
<1>9. CASE Prompted(a) BY <1>6, <1>9 DEF Prompted, Terminals
<1>10. CASE Send(a)
  <2>1. /\ actor'[a].box = A.box /\ actor'[a].cur = A.cur
        /\ actor'[a].pc = "prompt" /\ actor'[a].result = None
    BY <1>0, <1>3, <1>10 DEF Send, Become, Actors
  <2>2. A.cur \in Works /\ AgentOf[A.cur] = a /\ alog[A.cur] = "queued" /\ prompts[A.cur] = 0
    BY <1>2, <1>10 DEF Send, Acting
  <2>3. UNCHANGED alog /\ prompts'[A.cur] = 1 /\ \A w \in Works \ {A.cur} : prompts'[w] = prompts[w]
    BY <1>0, <1>10, <2>2 DEF Send
  <2>4. Boxed(a)' BY <1>2, <1>3, <1>10, <2>1, <2>3 DEF Boxed, Send
  <2>5. Acting(a)' BY <2>1, <2>2, <2>3 DEF Acting
  <2> QED BY <1>1, <2>2, <2>3, <2>4, <2>5, ActorsElsewhere
<1>11. CASE Finish(a)
  <2>1. /\ actor'[a].box = A.box /\ actor'[a].cur = A.cur /\ actor'[a].pc = "sink"
        /\ \/ actor'[a].result = A.result /\ alog'[A.cur] = A.result
           \/ actor'[a].result = "action_required" /\ alog'[A.cur] \in {A.result, alog[A.cur]}
    <3>1. A.cur \in Works BY <1>2, <1>11 DEF Finish, Acting
    <3>2. ASSUME NEW r, actor' = [actor EXCEPT ![a] = [A EXCEPT !.pc = "sink", !.result = r,
                                                                !.canceled = @ \ {A.cur}]]
          PROVE  /\ actor'[a].box = A.box /\ actor'[a].cur = A.cur /\ actor'[a].pc = "sink"
                 /\ actor'[a].result = r
      BY <1>0, <1>3, <3>2 DEF Actors
    <3> QED BY <1>0, <1>11, <3>1, <3>2 DEF Finish
  <2>2. A.cur \in Works /\ AgentOf[A.cur] = a /\ alog[A.cur] = "queued" /\ A.result \in Terminals
    BY <1>2, <1>11 DEF Finish, Acting
  <2>3. UNCHANGED prompts /\ \A w \in Works \ {A.cur} : alog'[w] = alog[w]
    BY <1>0, <1>11, <2>2 DEF Finish
  <2>4. Boxed(a)' BY <1>2, <1>3, <1>11, <2>1, <2>3 DEF Boxed, Finish
  <2>5. Acting(a)' BY <2>1, <2>2, <2>3 DEF Acting, Terminals
  <2> QED BY <1>1, <2>2, <2>3, <2>4, <2>5, ActorsElsewhere
<1>12. CASE Sink(a)
  <2>1. /\ actor'[a].box = A.box /\ actor'[a].cur = None /\ actor'[a].pc = "idle"
        /\ UNCHANGED <<alog, prompts>>
    BY <1>0, <1>3, <1>12 DEF Sink, Actors
  <2>2. Boxed(a)' BY <1>2, <1>3, <2>1 DEF Boxed
  <2>3. Acting(a)' BY <2>1 DEF Acting
  <2> QED BY <1>4, <2>1, <2>2, <2>3
<1>13. CASE Reap(a) \/ Retire(a)
  <2>1. /\ actor'[a].box = A.box /\ actor'[a].cur = A.cur /\ actor'[a].pc = A.pc
        /\ actor'[a].result = A.result /\ UNCHANGED <<alog, prompts>>
    BY <1>0, <1>3, <1>13 DEF Reap, Retire, Closed, Actors
  <2>2. Boxed(a)' /\ Acting(a)' BY <1>2, <1>3, <2>1, ActorSame
  <2> QED BY <1>4, <2>1, <2>2
<1> QED BY <1>5, <1>7, <1>8, <1>9, <1>10, <1>11, <1>12, <1>13 DEF ActorAct, Mailbox

\* An assignment that is submitted was not known to the actor.
LEMMA SubmitSound ==
    ASSUME Shapes, AttemptOwned, SubmittedOnce, ReportsFollow, ActorsSound, Submit PROVE ActorsSound'
<1>0. /\ actor \in [Agents -> Actors] /\ alog \in [Works -> {"none", "queued"} \cup Terminals]
  BY ShapeParts DEF Facts
<1>w. PICK w \in Works : w = d.work BY DEF Submit, AttemptOwned, At
<1>a. PICK a \in Agents : a = AgentOf[w] BY ExecutionAssumption
<1> DEFINE A == actor[a]
<1>1. w \in Works /\ a \in Agents /\ a = AgentOf[w] BY <1>a
<1>2. A \in Actors /\ A.box \in Seq(Works) BY <1>0, <1>1 DEF Actors
<1>3. alog[w] = "none" /\ prompts[w] = 0 BY <1>w DEF SubmittedOnce, Unsubmitted, ReportsFollow, Submit, At
<1>4. Boxed(a) /\ Acting(a) BY <1>1 DEF ActorsSound
<1>5. UNCHANGED prompts /\ \A v \in Works \ {w} : alog'[v] = alog[v]
  BY <1>0, <1>w DEF Submit, ghosts
<1>6. \A i \in 1 .. Len(A.box) : A.box[i] # w BY <1>3, <1>4 DEF Boxed
<1>7. A.pc # "idle" => A.cur # w BY <1>3, <1>4 DEF Acting
<1>8. CASE UNCHANGED actor
  <2>1. Boxed(a)' BY <1>2, <1>4, <1>5, <1>6, <1>8 DEF Boxed
  <2>2. Acting(a)' BY <1>4, <1>5, <1>7, <1>8 DEF Acting
  <2> QED BY <1>1, <1>5, <1>8, <2>1, <2>2, ActorsElsewhere
<1>9. CASE alog' = [alog EXCEPT ![w] = "queued"] /\ actor' = [actor EXCEPT ![a].box = Append(@, w)]
  <2>1. /\ actor'[a].box = Append(A.box, w) /\ actor'[a].cur = A.cur
        /\ actor'[a].pc = A.pc /\ actor'[a].result = A.result
        /\ \A c \in Agents \ {a} : actor'[c] = actor[c]
    BY <1>0, <1>1, <1>2, <1>9 DEF Actors
  <2>2. /\ Append(A.box, w) \in Seq(Works) /\ Len(Append(A.box, w)) = Len(A.box) + 1
        /\ \A i \in 1 .. Len(A.box) : Append(A.box, w)[i] = A.box[i]
        /\ Append(A.box, w)[Len(A.box) + 1] = w
    BY <1>1, <1>2, AppendFacts
  <2>3. alog'[w] = "queued" BY <1>0, <1>1, <1>9
  <2>4. Boxed(a)'
    <3>1. ASSUME NEW i \in 1 .. Len(A.box) + 1
          PROVE  LET v == Append(A.box, w)[i] IN
                 /\ AgentOf[v] = a /\ alog'[v] = "queued" /\ prompts[v] = 0
                 /\ A.pc # "idle" => v # A.cur
                 /\ \A j \in 1 .. Len(A.box) + 1 : Append(A.box, w)[j] = v => j = i
      <4>0. Len(A.box) \in Nat BY <1>2
      <4>1. CASE i = Len(A.box) + 1
        <5>1. Append(A.box, w)[i] = w BY <2>2, <4>1
        <5>2. \A j \in 1 .. Len(A.box) + 1 : j # i => j \in 1 .. Len(A.box) BY <4>0, <4>1
        <5>3. \A j \in 1 .. Len(A.box) + 1 : Append(A.box, w)[j] = w => j = i
          BY <1>6, <2>2, <5>2
        <5> QED BY <1>1, <1>3, <1>7, <2>3, <5>1, <5>3
      <4>2. CASE i \in 1 .. Len(A.box)
        <5>1. Append(A.box, w)[i] = A.box[i] /\ A.box[i] \in Works /\ A.box[i] # w
          BY <1>2, <1>6, <2>2, <4>2
        <5> QED BY <1>4, <1>5, <2>2, <4>0, <4>2, <5>1 DEF Boxed
      <4> QED BY <3>1, <4>0, <4>1, <4>2
    <3> QED BY <1>5, <2>1, <2>2, <3>1 DEF Boxed
  <2>5. Acting(a)' BY <1>4, <1>5, <1>7, <2>1 DEF Acting
  <2> QED BY <1>1, <1>5, <2>1, <2>4, <2>5, ActorsElsewhere
<1> QED BY <1>w, <1>a, <1>8, <1>9 DEF Submit

\* A cancellation leaves the mailbox of an actor as it is.
LEMMA StopKeepsActors ==
    ASSUME Shapes, StopsLive, NEW s \in Stoppers, StopAct(s), NEW a \in Agents
    PROVE  /\ actor'[a].box = actor[a].box /\ actor'[a].cur = actor[a].cur
           /\ actor'[a].pc = actor[a].pc /\ actor'[a].result = actor[a].result
<1>0. actor \in [Agents -> Actors] BY ShapeParts
<1>1. CASE StopActor(s)
  <2>1. stopper[s].work \in Works /\ AgentOf[stopper[s].work] \in Agents
    BY <1>1, ExecutionAssumption DEF StopActor, StopsLive
  <2>2. CASE actor' = [actor EXCEPT ![AgentOf[stopper[s].work]].canceled = @ \cup {stopper[s].work}]
    BY <1>0, <2>1, <2>2 DEF Actors
  <2> QED BY <1>1, <2>2 DEF StopActor
<1>2. CASE UNCHANGED actor BY <1>2
<1> QED BY <1>1, <1>2 DEF StopAct, Cancel, Stop, StopPermit, StopSession

\* The mailboxes and the actors hold what they should.
LEMMA ActorStep ==
    ASSUME Shapes, AttemptOwned, Quiet, SubmittedOnce, ReportsFollow, ActorsSound, StopsLive, [Next]_vars
    PROVE  ActorsSound'
<1>0. actor \in [Agents -> Actors] BY ShapeParts
<1>1. ASSUME UNCHANGED <<alog, prompts>>,
             \A a \in Agents : /\ actor'[a].box = actor[a].box /\ actor'[a].cur = actor[a].cur
                               /\ actor'[a].pc = actor[a].pc /\ actor'[a].result = actor[a].result
      PROVE  ActorsSound'
  BY <1>0, <1>1, ActorSame DEF ActorsSound
<1> USE DEF durable, ghosts
<1>2. CASE DispatchAct
  <2>1. CASE Submit BY <2>1, SubmitSound
  <2>2. CASE UNCHANGED <<alog, actor>> BY <1>1, <1>2, <2>2, DispatchFrame
  <2> QED BY <1>2, <2>1, <2>2
      DEF DispatchAct, Dispatch, Peek, Discard, Bind, Expire, Issue, Announce, Claim, Wait, Settle, Finalize
<1>3. ASSUME NEW s \in Stoppers, StopAct(s) PROVE ActorsSound'
  <2>1. UNCHANGED <<alog, prompts>> BY <1>3, StopFrame
  <2> QED BY <1>1, <1>3, <2>1, StopKeepsActors
<1>4. ASSUME NEW v \in Works, StopQueued(v) PROVE ActorsSound' BY <1>1, <1>4 DEF StopQueued
<1>5. ASSUME NEW a \in Agents, ActorAct(a) PROVE ActorsSound' BY <1>5, MailboxSound
<1>6. ASSUME NEW a \in Agents, Dismiss(a) PROVE ActorsSound' BY <1>1, <1>6 DEF Dismiss
<1>7. CASE Close
  <2>1. \A a \in Agents : /\ actor'[a].box = actor[a].box /\ actor'[a].cur = actor[a].cur
                          /\ actor'[a].pc = actor[a].pc /\ actor'[a].result = actor[a].result
    BY <1>0, <1>7 DEF Close, Closed, Actors
  <2> QED BY <1>1, <1>7, <2>1 DEF Close
<1>8. CASE Restart
  BY <1>8 DEF Restart, NewActor, ActorsSound, Boxed, Acting
<1>9. CASE Recovery
  <2>1. UNCHANGED actor BY <1>9, RecoveryFrame
  <2>2. mode \notin {"run", "closing"}
    BY <1>9 DEF Recovery, RecoverActor, RecoverAttempt, RecoverActors, Recover
  <2>3. \A a \in Agents : actor'[a].box = <<>> /\ actor'[a].pc = "idle" /\ actor'[a].cur = None
    BY <2>1, <2>2 DEF Quiet, ActorsSound, Acting
  <2> QED BY <2>3 DEF ActorsSound, Boxed, Acting
<1>10. CASE UNCHANGED vars BY <1>1, <1>10 DEF vars
<1> QED BY <1>2, <1>3, <1>4, <1>5, <1>6, <1>7, <1>8, <1>9, <1>10, NextCases

\* The mailbox and the assignment of an actor change by Submit and by the
\* actor itself.
LEMMA ActorKept ==
    ASSUME Shapes, AttemptOwned, ActorsSound, StopsLive, [Next]_vars, ~Restart, NEW a \in Agents, ~ActorAct(a),
           ~(Submit /\ AgentOf[d.work] = a)
    PROVE  /\ actor'[a].box = actor[a].box /\ actor'[a].cur = actor[a].cur
           /\ actor'[a].pc = actor[a].pc
<1>0. actor \in [Agents -> Actors] BY ShapeParts
<1>1. CASE DispatchAct
  <2>1. CASE Submit
    <3>1. d.work \in Works /\ AgentOf[d.work] \in Agents
      BY <2>1, ExecutionAssumption DEF Submit, AttemptOwned, At
    <3> QED BY <1>0, <2>1, <3>1 DEF Submit
  <2>2. CASE UNCHANGED actor BY <2>2
  <2> QED BY <1>1, <2>1, <2>2
      DEF DispatchAct, Dispatch, Peek, Discard, Bind, Expire, Issue, Announce, Claim, Wait, Settle, Finalize
<1>2. ASSUME NEW s \in Stoppers, StopAct(s)
      PROVE  /\ actor'[a].box = actor[a].box /\ actor'[a].cur = actor[a].cur
             /\ actor'[a].pc = actor[a].pc
  BY <1>2, StopKeepsActors
<1>3. ASSUME NEW v \in Works, StopQueued(v) PROVE UNCHANGED actor BY <1>3 DEF StopQueued
<1>4. ASSUME NEW c \in Agents, ActorAct(c) PROVE actor'[a] = actor[a]
  BY <1>4, ActorShapes
<1>5. ASSUME NEW c \in Agents, Dismiss(c) PROVE UNCHANGED actor BY <1>5 DEF Dismiss
<1>6. CASE Close BY <1>0, <1>6 DEF Close, Closed, Actors
<1>7. CASE Recovery BY <1>7, RecoveryFrame
<1>8. CASE UNCHANGED vars BY <1>8 DEF vars
<1> QED BY <1>1, <1>2, <1>3, <1>4, <1>5, <1>6, <1>7, <1>8, NextCases

\* How an actor moves on its mailbox.
LEMMA ActorAdvances ==
    ASSUME Shapes, NEW a \in Agents, ActorAct(a)
    PROVE  \/ actor'[a].box = actor[a].box /\ actor'[a].cur = actor[a].cur /\ actor[a].pc # "idle"
           \/ actor'[a].box = actor[a].box /\ actor'[a].pc = "idle"
           \/ actor'[a].box = actor[a].box /\ actor'[a].cur = actor[a].cur /\ actor'[a].pc = actor[a].pc
           \/ /\ actor[a].pc = "idle" /\ actor[a].box # <<>>
              /\ actor'[a].box = Tail(actor[a].box) /\ actor'[a].cur = Head(actor[a].box)
<1>0. actor \in [Agents -> Actors] /\ actor[a] \in Actors BY ShapeParts
<1> USE <1>0 DEF Actors, Become
<1>1. CASE Take(a) BY <1>1 DEF Take
<1>2. CASE Effects(a) BY <1>2 DEF Effects
<1>3. CASE Open(a) BY <1>3 DEF Open
<1>4. CASE Send(a) BY <1>4 DEF Send
<1>5. CASE Prompted(a) BY <1>5 DEF Prompted
<1>6. CASE Finish(a)
  <2>1. PICK r : actor' = [actor EXCEPT ![a] = [actor[a] EXCEPT !.pc = "sink", !.result = r,
                                                  !.canceled = @ \ {actor[a].cur}]]
    BY <1>6 DEF Finish
  <2> QED BY <1>6, <2>1 DEF Finish
<1>7. CASE Sink(a) BY <1>7 DEF Sink
<1>8. CASE Reap(a) \/ Retire(a) BY <1>8 DEF Reap, Retire, Closed
<1> QED BY <1>1, <1>2, <1>3, <1>4, <1>5, <1>6, <1>7, <1>8 DEF ActorAct, Mailbox

\* An actor gets nothing behind the unfinished attempt of its employee.
LEMMA LastStep ==
    ASSUME Shapes, AttemptOwned, OneEach, SubmittedOnce, ActorsSound, StopsLive, LiveIsLast, [Next]_vars
    PROVE  LiveIsLast'
<1>0. actor \in [Agents -> Actors] BY ShapeParts
<1>1. SUFFICES ASSUME NEW w \in Works, work'[w] = "dispatched", NEW a \in Agents, a = AgentOf[w]
               PROVE  /\ actor'[a].pc # "idle" /\ actor'[a].cur = w => actor'[a].box = <<>>
                      /\ \A i \in 1 .. Len(actor'[a].box) : actor'[a].box[i] = w => i = Len(actor'[a].box)
  BY ExecutionAssumption DEF LiveIsLast
<1>t. actor[a] \in Actors /\ actor[a].box \in Seq(Works) BY <1>0 DEF Actors
<1>b. Boxed(a) /\ Acting(a) BY DEF ActorsSound
<1>2. \/ work[w] = "dispatched"
      \/ Bind /\ alog[w] = "none"
  <2>1. \A r \in Results : Outcome(w, r) \in Results BY OutcomeTyped
  <2>2. Outcome(w, Recovered(w)) \in Results BY OutcomeTyped
  <2>3. \/ work[w] = "dispatched"
        \/ Bind /\ Eligible(w)
    BY <1>1, <2>1, <2>2, WorkMoves DEF Results, AttemptOwned, Finalize, At
  <2> QED BY <2>3 DEF Eligible, SubmittedOnce, Unsubmitted
<1>3. /\ actor[a].pc # "idle" /\ actor[a].cur = w => actor[a].box = <<>>
      /\ \A i \in 1 .. Len(actor[a].box) : actor[a].box[i] = w => i = Len(actor[a].box)
  <2>1. CASE work[w] = "dispatched" BY <1>1, <2>1 DEF LiveIsLast
  <2>2. CASE alog[w] = "none" BY <1>b, <2>2 DEF Boxed, Acting
  <2> QED BY <1>2, <2>1, <2>2
<1>4. CASE Restart BY <1>4 DEF Restart, NewActor
<1>5. CASE ActorAct(a)
  <2>1. CASE actor'[a].box = actor[a].box /\ actor'[a].cur = actor[a].cur /\ actor[a].pc # "idle"
    BY <1>3, <2>1
  <2>3. CASE actor'[a].box = actor[a].box /\ actor'[a].pc = "idle" BY <1>3, <2>3
  <2>4. CASE actor'[a].box = actor[a].box /\ actor'[a].cur = actor[a].cur /\ actor'[a].pc = actor[a].pc
    BY <1>3, <2>4
  <2>2. CASE /\ actor[a].pc = "idle" /\ actor[a].box # <<>>
             /\ actor'[a].box = Tail(actor[a].box) /\ actor'[a].cur = Head(actor[a].box)
    <3> DEFINE q == actor[a].box
    <3>1. /\ Head(q) = q[1] /\ 1 \in 1 .. Len(q) /\ Len(q) \in Nat
          /\ Tail(q) \in Seq(Works) /\ Len(Tail(q)) = Len(q) - 1
          /\ \A i \in 1 .. Len(Tail(q)) : i + 1 \in 1 .. Len(q) /\ Tail(q)[i] = q[i + 1]
      BY <1>t, <2>2, TailFacts
    <3>2. \A i \in 1 .. Len(Tail(q)) : Tail(q)[i] = w => i = Len(Tail(q)) BY <1>3, <3>1
    <3>3. q[1] = w => Len(q) = 1 BY <1>3, <3>1
    <3>4. Len(Tail(q)) = 0 => Tail(q) = <<>> BY <3>1, NothingLeft
    <3>5. actor'[a].cur = w => actor'[a].box = <<>>
      <4>1. SUFFICES ASSUME actor'[a].cur = w PROVE actor'[a].box = <<>> OBVIOUS
      <4>2. q[1] = w BY <2>2, <3>1, <4>1
      <4>3. Len(Tail(q)) = 0 BY <3>1, <3>3, <4>2
      <4> QED BY <2>2, <3>4, <4>3
    <3>6. \A i \in 1 .. Len(actor'[a].box) : actor'[a].box[i] = w => i = Len(actor'[a].box)
      BY <2>2, <3>2
    <3> QED BY <3>5, <3>6
  <2> QED BY <1>5, <2>1, <2>2, <2>3, <2>4, ActorAdvances
<1>6. CASE Submit /\ AgentOf[d.work] = a
  <2>1. d.work \in Works /\ work[d.work] = "dispatched" /\ alog[d.work] = "none"
    BY <1>6 DEF Submit, AttemptOwned, SubmittedOnce, Unsubmitted, At
  <2>2. w = d.work
    BY <1>1, <1>6, <2>1 DEF OneEach, Submit
  <2>3. /\ actor[a].pc # "idle" => actor[a].cur # w
        /\ \A i \in 1 .. Len(actor[a].box) : actor[a].box[i] # w
    BY <1>b, <2>1, <2>2 DEF Boxed, Acting
  <2>4. CASE UNCHANGED actor BY <1>3, <2>4
  <2>5. CASE actor' = [actor EXCEPT ![a].box = Append(@, w)]
    <3>1. /\ actor'[a].box = Append(actor[a].box, w) /\ actor'[a].cur = actor[a].cur
          /\ actor'[a].pc = actor[a].pc
      BY <1>0, <1>t, <2>5 DEF Actors
    <3>2. /\ Append(actor[a].box, w) \in Seq(Works) /\ Len(Append(actor[a].box, w)) = Len(actor[a].box) + 1
          /\ \A i \in 1 .. Len(actor[a].box) : Append(actor[a].box, w)[i] = actor[a].box[i]
          /\ Len(actor[a].box) \in Nat
      BY <1>t, AppendFacts
    <3>3. \A i \in 1 .. Len(actor[a].box) + 1 :
             Append(actor[a].box, w)[i] = w => i = Len(actor[a].box) + 1
      BY <2>3, <3>2
    <3> QED BY <2>3, <3>1, <3>2, <3>3
  <2> QED BY <1>6, <2>2, <2>4, <2>5 DEF Submit
<1>7. CASE ~Restart /\ ~ActorAct(a) /\ ~(Submit /\ AgentOf[d.work] = a)
  BY <1>3, <1>7, ActorKept
<1> QED BY <1>4, <1>5, <1>6, <1>7

\* An attempt that is being stopped stays live, and its actor idle but for it.
LEMMA StopStep ==
    ASSUME Shapes, AttemptOwned, OneEach, Quiet, SubmittedOnce, ActorsSound, LiveIsLast, StopsLive, [Next]_vars
    PROVE  StopsLive'
<1>0. /\ actor \in [Agents -> Actors] /\ stopper \in [Stoppers -> Stops]
      /\ work \in [Works -> {"queued", "rejected", "dispatched"} \cup Results]
  BY ShapeParts DEF Facts
<1>1. SUFFICES ASSUME NEW s \in Stoppers, stopper'[s].pc # "idle"
               PROVE  /\ stopper'[s].work \in Works /\ work'[stopper'[s].work] = "dispatched"
                      /\ stopper'[s].pc = "session" =>
                            LET w == stopper'[s].work  A == actor'[AgentOf[w]] IN
                            alog'[w] # "none" /\ A.box = <<>> /\ (A.pc = "idle" \/ A.cur = w)
  BY DEF StopsLive
<1>2. CASE \E t \in Stoppers : StopAct(t)
  <2>0. PICK t \in Stoppers : StopAct(t) BY <1>2
  <2>1. UNCHANGED <<work, alog>> BY <2>0, StopFrame
  <2>2. \A a \in Agents : /\ actor'[a].box = actor[a].box /\ actor'[a].cur = actor[a].cur
                          /\ actor'[a].pc = actor[a].pc
    BY <2>0, StopKeepsActors
  <2>3. CASE t # s
    <3>1. stopper'[s] = stopper[s]
      BY <1>0, <2>0, <2>3
      DEF StopAct, Cancel, Stop, StopPermit, StopActor, StopSession, StopEnds, StopGoto
    <3>2. stopper[s].work \in Works /\ AgentOf[stopper[s].work] \in Agents
      BY <1>1, <3>1, ExecutionAssumption DEF StopsLive
    <3> QED BY <1>1, <2>1, <2>2, <3>1, <3>2 DEF StopsLive
  <2>4. CASE t = s
    <3>1. CASE \E w \in Works : Stop(s, w)
      <4>1. PICK w \in Works : Stop(s, w) BY <3>1
      <4>2. stopper[s].pc = "idle" /\ work[w] = "dispatched" BY <4>1 DEF Stop, TerminalLockFree, Live
      <4>3. stopper'[s] = [pc |-> "permit", work |-> w] BY <1>0, <1>1, <4>1, <4>2 DEF Stop
      <4> QED BY <2>1, <4>2, <4>3
    <3>2. CASE StopPermit(s)
      <4>1. stopper'[s].work = stopper[s].work /\ stopper'[s].pc = "actor"
        BY <1>0, <1>1, <3>2 DEF StopPermit, StopEnds, StopGoto, IdleStop, Stops
      <4> QED BY <2>1, <3>2, <4>1 DEF StopsLive, StopPermit
    <3>3. CASE StopActor(s)
      <4>1. /\ stopper'[s].work = stopper[s].work /\ stopper'[s].pc = "session"
            /\ stopper[s].work \in Pending(AgentOf[stopper[s].work])
            /\ actor[AgentOf[stopper[s].work]].cur = stopper[s].work
        BY <1>0, <1>1, <3>3 DEF StopActor, StopEnds, StopGoto, IdleStop, Stops
      <4>2. PICK w \in Works : w = stopper[s].work BY <3>3 DEF StopsLive, StopActor
      <4>3. PICK a \in Agents : a = AgentOf[w] BY ExecutionAssumption
      <4>4. work[w] = "dispatched" BY <3>3, <4>2 DEF StopsLive, StopActor
      <4>5. actor[a].cur = w /\ actor[a].pc # "idle"
        BY <4>1, <4>2, <4>3, ExecutionAssumption DEF ActorsSound, Acting
      <4>6. actor[a].box = <<>> /\ alog[w] # "none"
        BY <4>3, <4>4, <4>5 DEF LiveIsLast, ActorsSound, Acting
      <4> QED BY <2>1, <2>2, <4>1, <4>2, <4>3, <4>4, <4>5, <4>6
    <3>4. CASE StopSession(s)
      BY <1>0, <1>1, <3>4 DEF StopSession, StopEnds, IdleStop
    <3> QED BY <2>0, <2>4, <3>1, <3>2, <3>3, <3>4 DEF StopAct, Cancel
  <2> QED BY <2>3, <2>4
<1>3. CASE Restart BY <1>1, <1>3 DEF Restart, IdleStop
<1>4. CASE ~Restart /\ ~\E t \in Stoppers : StopAct(t)
  <2>1. UNCHANGED stopper
    BY <1>4, NextCases, DispatchFrame, ActorFrame, RecoveryFrame DEF StopQueued, Dismiss, Close, vars
  <2>2. PICK w \in Works : w = stopper[s].work BY <1>1, <2>1 DEF StopsLive
  <2>3. PICK a \in Agents : a = AgentOf[w] BY ExecutionAssumption
  <2>4. work[w] = "dispatched" BY <1>1, <2>1, <2>2 DEF StopsLive
  <2>5. work'[w] = "dispatched"
    <3>1. ~Finalize BY <1>1, <2>1 DEF Finalize, TerminalLockFree
    <3>2. ~RecoverAttempt(w) BY <1>1, <2>1 DEF RecoverAttempt, Quiet
    <3> QED BY <2>4, <3>1, <3>2, WorkMoves
  <2>6. ASSUME stopper[s].pc = "session"
        PROVE  /\ alog'[w] # "none" /\ actor'[a].box = <<>>
               /\ actor'[a].pc = "idle" \/ actor'[a].cur = w
    <3>1. /\ alog[w] # "none" /\ actor[a].box = <<>>
          /\ actor[a].pc = "idle" \/ actor[a].cur = w
      BY <2>2, <2>3, <2>6 DEF StopsLive
    <3>2. alog'[w] # "none"
      BY <3>1, LogMoves DEF ActorsSound, Acting, Finish, Terminals
    <3>3. ~(Submit /\ AgentOf[d.work] = a)
      BY <2>3, <2>4, <3>1 DEF Submit, At, AttemptOwned, OneEach, SubmittedOnce, Unsubmitted
    <3>4. CASE ActorAct(a) BY <3>1, <3>2, <3>4, ActorAdvances
    <3>5. CASE ~ActorAct(a) BY <1>4, <3>1, <3>2, <3>3, <3>5, ActorKept
    <3> QED BY <3>4, <3>5
  <2> QED BY <2>1, <2>2, <2>3, <2>5, <2>6
<1> QED BY <1>2, <1>3, <1>4

-----------------------------------------------------------------------------
(***************************************************************************)
(* Theorems                                                                *)
(***************************************************************************)

\* Nothing is bound, submitted or canceled at the start.
LEMMA InitExec == Init => ExecInv
<1> SUFFICES ASSUME Init PROVE ExecInv OBVIOUS
<1> USE DEF Init
<1>1. Shapes
  <2>1. d \in Threads /\ stopper \in [Stoppers -> Stops] /\ actor \in [Agents -> Actors] BY Constants
  <2>2. TypeOK
    <3>1. faults \in 0 .. MaxFaults BY ExecutionAssumption
    <3>2. disabled \in BOOLEAN OBVIOUS
    <3>3. \A a \in Agents : actor[a].session \in BOOLEAN BY DEF NewActor
    <3> QED BY <3>1, <3>2, <3>3 DEF TypeOK, IdleThread, IdleStop, NewActor
  <2> QED BY <2>1, <2>2 DEF Shapes
<1>2. AttemptOwned /\ OneEach /\ AttemptsAccounted /\ StopWins /\ Quiet
  BY DEF AttemptOwned, OneEach, AttemptsAccounted, StopWins, Quiet, IdleThread
<1>3. None # "completed" BY ExecutionAssumption DEF Terminals
<1>4. SubmittedOnce /\ ReportsFollow BY <1>3 DEF SubmittedOnce, ReportsFollow, IdleThread
<1>5. ActorsSound BY DEF ActorsSound, Boxed, Acting, NewActor
<1>6. LiveIsLast /\ PermitsSound /\ RevokedStopped /\ StopsLive
  BY DEF LiveIsLast, PermitsSound, RevokedStopped, StopsLive, IdleStop
<1> QED BY <1>1, <1>2, <1>4, <1>5, <1>6 DEF ExecInv

\* Every step of every thread keeps the invariant.
LEMMA StepExec == ExecInv /\ [Next]_vars => ExecInv'
<1> SUFFICES ASSUME ExecInv, [Next]_vars PROVE ExecInv' OBVIOUS
<1> USE DEF ExecInv
<1>1. Shapes' BY ShapeStep
<1>2. AttemptOwned' /\ OneEach' /\ AttemptsAccounted' BY OwnedStep, OneStep, AccountStep
<1>3. StopWins' BY <1>1, StopWinsStep
<1>4. Quiet' /\ SubmittedOnce' /\ ReportsFollow' BY QuietStep, SubmitStep, ReportStep
<1>5. ActorsSound' /\ LiveIsLast' BY ActorStep, LastStep
<1>6. PermitsSound' /\ StopsLive' BY PermitStep, StopStep
<1>7. RevokedStopped' BY <1>1, RevokedStep
<1> QED BY <1>1, <1>2, <1>3, <1>4, <1>5, <1>6, <1>7

\* The invariant holds throughout.
LEMMA ExecInvariant == Spec => []ExecInv
BY InitExec, StepExec, PTL DEF Spec

\* At most one unfinished attempt per employee, somebody is at it, and
\* COMPLETED is only said of a prompt whose result is in the journal:
\* whatever raises, crashes or is canceled.
THEOREM AttemptsAreSound == Spec => []AttemptsSound
<1>1. ASSUME ExecInv PROVE OneLiveAttempt
  <2>1. SUFFICES ASSUME NEW a \in Agents PROVE Cardinality(Live(a)) <= 1 BY DEF OneLiveAttempt
  <2>2. CASE Live(a) = {} BY <2>2, FS_EmptySet
  <2>3. ASSUME NEW w \in Live(a) PROVE Cardinality(Live(a)) <= 1
    <3>1. Live(a) = {w} BY <1>1, <2>3 DEF ExecInv, OneEach, Live
    <3> QED BY <3>1, FS_Singleton
  <2> QED BY <2>2, <2>3
<1>2. ExecInv => AttemptsSound
  BY <1>1 DEF ExecInv, AttemptsSound, Shapes, CompletedIsAnchored, ReportsFollow
<1> QED BY <1>2, ExecInvariant, PTL

\* A prompt is sent at most once, never after its permit was revoked, and a
\* session is canceled under no prompt but the one that is to be stopped.
THEOREM PromptsAreSound == Spec => []PromptsSound
<1>1. ASSUME ExecInv PROVE PromptsSound
  <2>1. PromptOnce BY <1>1 DEF ExecInv, PromptOnce, ReportsFollow
  <2>2. RevokedNeverRuns
    BY <1>1 DEF ExecInv, RevokedNeverRuns, RevokedStopped, ReportsFollow, Shapes
  <2>3. StopsOwnPrompt BY <1>1 DEF ExecInv, StopsOwnPrompt, StopsLive
  <2> QED BY <2>1, <2>2, <2>3 DEF PromptsSound
<1> QED BY <1>1, ExecInvariant, PTL

\* An attempt whose cancel request was anchored before its end is CANCELED.
THEOREM StopAlwaysWins == Spec => []StopWins
<1>1. ExecInv => StopWins BY DEF ExecInv
<1> QED BY <1>1, ExecInvariant, PTL

\* A work that was ended or rejected is never touched again.
THEOREM EndStays == Spec => EndIsFinal
<1>1. ExecInv /\ [Next]_vars =>
        [\A w \in Works : work[w] \in Results \cup {"rejected"} => work'[w] = work[w]]_vars
  BY ResultStays DEF ExecInv
<1> QED BY <1>1, ExecInvariant, PTL DEF Spec, EndIsFinal
==============================================================================
