------------------------- MODULE EmployeeOutboxProofs -------------------------
(***************************************************************************)
(* Proofs about the employee Outbox, for any number of cards, employees,   *)
(* control and team threads, and any bound on faults.                      *)
(*                                                                         *)
(* deliver() holds no lock between its six steps, so what a thread read of *)
(* a record may be old when it is used.  The invariant says what stays     *)
(* true of it: the effect a thread works on has been prepared and is never *)
(* taken back (ThreadsSound), a request in a child's pipe is for an effect *)
(* that was marked executing, and at most one of them has a given thread   *)
(* waiting (RequestsSound).                                                *)
(***************************************************************************)
EXTENDS EmployeeOutbox, FiniteSetTheorems, TLAPS

EffectStates == {"none", "prepared", "executing", "committed"}
Shown        == {"executing", "committed"}

\* The steps of deliver() at which a thread works on an effect it marked.
Marked  == {"read", "call", "wait", "commit"}
Inside  == {"prepare", "mark"} \cup Marked
Places  == [pc : {"idle", "drain", "record"} \cup Inside, card : Cards \cup {None}, ver : 0..3, bound : 0..3]
Requests == [waiter : Threads \cup {None}, card : Cards, ver : Versions, create : BOOLEAN]

Shapes ==
    /\ snaps \in [Cards -> Seq(CardStates)]
    /\ effect \in [Cards -> [Versions -> EffectStates]]
    /\ binding \in [Cards -> 0..3]
    /\ tombs \in [Cards -> SUBSET Versions]
    /\ order \in Seq(Cards)
    /\ fact \in [Attempts -> Done \cup {None}]
    /\ disposed \subseteq Controls /\ published \subseteq Attempts
    /\ current \in Attempts \cup {None}
    /\ thread \in [Threads -> Places]
    /\ up \subseteq Employees
    /\ queue \in [Employees -> Seq(Requests)]
    /\ posts \in [Cards -> SUBSET {1}]
    /\ shown \in [Cards -> 0..3]
    /\ faults \in 0..MaxFaults

\* QUEUED is version 1 and RUNNING is version 2, so that no card gets past 3.
Story ==
    \A c \in Cards :
        /\ Len(snaps[c]) <= 3
        /\ snaps[c] # <<>> /\ Latest(c) = "QUEUED" => Len(snaps[c]) = 1
        /\ snaps[c] # <<>> /\ Latest(c) = "RUNNING" => Len(snaps[c]) = 2

\* A card is created once.
OrderedOnce ==
    /\ IsInjective(order)
    /\ \A i \in DOMAIN order : order[i] \in Controls => snaps[order[i]] # <<>>

\* Only old versions of a finished card are collected, and none in delivery.
Collected ==
    \A c \in Cards : \A v \in tombs[c] :
        Terminal(c) /\ v < Len(snaps[c]) /\ v \notin Active(c)

\* At most one effect of a card is active, and a binding names a committed one.
EffectsSound ==
    \A c \in Cards :
        /\ \A v, w \in Active(c) : v = w
        /\ binding[c] # 0 => effect[c][binding[c]] = "committed"

\* What a thread in deliver() carries from one step to the next.
ThreadSound(t) ==
    LET c == thread[t].card  v == thread[t].ver  pc == thread[t].pc IN
    /\ pc \notin {"idle", "drain"} => c \in Cards
    /\ pc \in Inside => v \in Versions
    /\ pc = "mark" => effect[c][v] # "none"
    /\ pc \in Marked => effect[c][v] \in Shown
    /\ pc \in Inside /\ thread[t].bound # 0 => posts[c] # {}
    /\ pc = "commit" => posts[c] # {}
    /\ pc \notin {"idle", "drain"} /\ t \in Publishers => c \in Attempts
    /\ pc = "record" => t \in Publishers

ThreadsSound == \A t \in Threads : ThreadSound(t)

\* What a request in the pipe of a child carries, and who waits for it.
RequestSound(e, r) ==
    /\ EmployeeOf[r.card] = e
    /\ effect[r.card][r.ver] \in Shown
    /\ r.create \/ posts[r.card] # {}
    /\ r.waiter # None =>
          /\ thread[r.waiter].pc = "wait"
          /\ thread[r.waiter].card = r.card /\ thread[r.waiter].ver = r.ver

RequestsSound ==
    \A e \in Employees : \A i \in DOMAIN queue[e] :
        /\ RequestSound(e, queue[e][i])
        /\ \A j \in DOMAIN queue[e] :
              queue[e][i].waiter = queue[e][j].waiter /\ queue[e][i].waiter # None => i = j

\* A binding needs a message.
BoundPosted == \A c \in Cards : binding[c] # 0 => posts[c] # {}

OutboxInv ==
    /\ Shapes /\ Story /\ OrderedOnce /\ CardMatchesFact /\ Collected
    /\ EffectsSound /\ ThreadsSound /\ RequestsSound /\ BoundPosted /\ AnchoredBeforeShown

-----------------------------------------------------------------------------
(***************************************************************************)
(* Types                                                                   *)
(***************************************************************************)

\* Where deliver() leaves a thread, and the records that stand for it.
LEMMA PlaceTypes ==
    /\ Idle \in Places
    /\ \A c \in Cards : Place("record", c, 0) \in Places
    /\ \A c \in Cards, v \in 0..3 : Place("prepare", c, v) \in Places
    /\ \A p \in Places : \A q \in Inside : [p EXCEPT !.pc = q] \in Places
    /\ \A p \in Places : \A v \in 0..3 : [p EXCEPT !.pc = "mark", !.ver = v] \in Places
    /\ \A p \in Places : \A v \in 0..3 : [p EXCEPT !.pc = "call", !.bound = v] \in Places
<1>1. Idle \in Places BY DEF Places, Idle, Place
<1>2. ASSUME NEW c \in Cards PROVE Place("record", c, 0) \in Places
  BY DEF Places, Place
<1>3. ASSUME NEW c \in Cards, NEW v \in 0..3 PROVE Place("prepare", c, v) \in Places
  BY DEF Places, Place, Inside
<1>4. ASSUME NEW p \in Places, NEW q \in Inside PROVE [p EXCEPT !.pc = q] \in Places
  BY DEF Places
<1>5. ASSUME NEW p \in Places, NEW v \in 0..3 PROVE [p EXCEPT !.pc = "mark", !.ver = v] \in Places
  BY DEF Places, Inside
<1>6. ASSUME NEW p \in Places, NEW v \in 0..3 PROVE [p EXCEPT !.pc = "call", !.bound = v] \in Places
  BY DEF Places, Inside, Marked
<1> QED BY <1>1, <1>2, <1>3, <1>4, <1>5, <1>6

\* deliver() that returns or raises moves one thread, to its loop or to the
\* record of the publication.
LEMMA LeaveMoves ==
    ASSUME Shapes, NEW t \in Threads, NEW r \in BOOLEAN, Leave(t, r), r => thread[t].card \in Cards
    PROVE  /\ thread' \in [Threads -> Places]
           /\ \A u \in Threads \ {t} : thread'[u] = thread[u]
           /\ \/ thread'[t] = Idle
              \/ /\ t \in Publishers /\ r
                 /\ thread'[t] = Place("record", thread[t].card, 0)
<1>1. thread \in [Threads -> Places] BY DEF Shapes
<1> QED BY <1>1, PlaceTypes DEF Leave

\* A step of deliver() that goes on moves one thread.
LEMMA GotoMoves ==
    ASSUME Shapes, NEW t \in Threads, NEW q \in Inside, Goto(t, q)
    PROVE  /\ thread' \in [Threads -> Places]
           /\ \A u \in Threads \ {t} : thread'[u] = thread[u]
           /\ thread'[t] = [thread[t] EXCEPT !.pc = q]
<1>1. thread \in [Threads -> Places] BY DEF Shapes
<1> QED BY <1>1, PlaceTypes DEF Goto

\* The state of the latest snapshot, and what append_snapshot() does to it.
LEMMA AppendFacts ==
    ASSUME Shapes, Story, NEW c \in Cards, NEW s \in CardStates, AppendSnapshot(c, s)
    PROVE  /\ snaps' \in [Cards -> Seq(CardStates)]
           /\ \A d \in Cards \ {c} : snaps'[d] = snaps[d]
           /\ Len(snaps'[c]) = Len(snaps[c]) + 1
           /\ snaps'[c] # <<>> /\ snaps'[c][Len(snaps'[c])] = s
           /\ snaps[c] = <<>> => s = "QUEUED" /\ Len(snaps'[c]) = 1
           /\ snaps[c] # <<>> => Allowed(Latest(c), s)
<1>1. snaps \in [Cards -> Seq(CardStates)] BY DEF Shapes
<1>2. snaps' = [snaps EXCEPT ![c] = Append(snaps[c], s)] BY DEF AppendSnapshot
<1>3. snaps'[c] = Append(snaps[c], s) BY <1>1, <1>2
<1>4. snaps[c] \in Seq(CardStates) BY <1>1
<1>5. /\ Append(snaps[c], s) \in Seq(CardStates)
      /\ Len(Append(snaps[c], s)) = Len(snaps[c]) + 1
      /\ Append(snaps[c], s)[Len(snaps[c]) + 1] = s
      /\ Append(snaps[c], s) # <<>>
      /\ snaps[c] = <<>> => Len(snaps[c]) = 0
  BY <1>4
<1>6. snaps' \in [Cards -> Seq(CardStates)] BY <1>1, <1>2, <1>5
<1>7. \A d \in Cards \ {c} : snaps'[d] = snaps[d] BY <1>1, <1>2
<1>8. snaps[c] = <<>> => s = "QUEUED" BY DEF AppendSnapshot
<1>9. snaps[c] # <<>> => Allowed(Latest(c), s) BY DEF AppendSnapshot
<1> QED BY <1>3, <1>5, <1>6, <1>7, <1>8, <1>9

\* A version is at most 3.
LEMMA LatestVersion ==
    ASSUME Shapes, Story, NEW c \in Cards
    PROVE  Len(snaps[c]) \in 0..3 /\ (snaps[c] # <<>> => Len(snaps[c]) \in Versions)
<1>1. snaps[c] \in Seq(CardStates) BY DEF Shapes
<1>2. Len(snaps[c]) \in Nat /\ (snaps[c] # <<>> => Len(snaps[c]) # 0) BY <1>1
<1>3. Len(snaps[c]) <= 3 BY DEF Story
<1> DEFINE n == Len(snaps[c])
<1> HIDE DEF n
<1>4. n \in Nat /\ n <= 3 /\ (snaps[c] # <<>> => n # 0) BY <1>2, <1>3 DEF n
<1>5. n \in 0..3 /\ (n # 0 => n \in Versions) BY <1>4 DEF Versions
<1> QED BY <1>4, <1>5 DEF n

\* A card that has a snapshot and is not finished is QUEUED or RUNNING.
LEMMA Unfinished ==
    ASSUME Shapes, NEW c \in Cards, snaps[c] # <<>>, ~Terminal(c)
    PROVE  Latest(c) \in {"QUEUED", "RUNNING"}
<1>1. snaps[c] \in Seq(CardStates) BY DEF Shapes
<1>2. Len(snaps[c]) \in 1..Len(snaps[c]) BY <1>1
<1>3. Latest(c) \in CardStates BY <1>1, <1>2 DEF Latest
<1> QED BY <1>3 DEF Terminal, CardStates

\* The snapshot that brings a card one step nearer to the committed result.
LEMMA NextCardFacts ==
    ASSUME Shapes, NEW a \in Attempts, fact[a] # None, ~Terminal(a)
    PROVE  /\ NextCard(a) \in CardStates
           /\ NextCard(a) = "QUEUED" => snaps[a] = <<>>
           /\ NextCard(a) = "RUNNING" => snaps[a] # <<>> /\ Latest(a) = "QUEUED"
           /\ NextCard(a) \in Done => NextCard(a) = fact[a]
<1>1. fact[a] \in Done BY DEF Shapes
<1>2. snaps[a] # <<>> => Latest(a) \in {"QUEUED", "RUNNING"} BY Unfinished DEF Cards
<1> QED BY <1>1, <1>2 DEF NextCard, CardStates, Done

\* A request in the pipe is one of deliver() or of nobody any more.
LEMMA HeadFacts ==
    ASSUME Shapes, NEW e \in Employees, queue[e] # <<>>
    PROVE  /\ Head(queue[e]) = queue[e][1] /\ 1 \in DOMAIN queue[e]
           /\ Head(queue[e]) \in Requests
           /\ Tail(queue[e]) \in Seq(Requests)
           /\ \A i \in DOMAIN Tail(queue[e]) :
                 i + 1 \in DOMAIN queue[e] /\ i + 1 # 1 /\ Tail(queue[e])[i] = queue[e][i + 1]
           /\ \A i, j \in DOMAIN Tail(queue[e]) : i + 1 = j + 1 => i = j
<1>1. queue[e] \in Seq(Requests) BY DEF Shapes
<1>2. Len(queue[e]) \in Nat /\ Len(queue[e]) # 0 BY <1>1
<1>3. /\ Tail(queue[e]) \in Seq(Requests) /\ Len(Tail(queue[e])) = Len(queue[e]) - 1
      /\ \A i \in 1..(Len(queue[e]) - 1) : Tail(queue[e])[i] = queue[e][i + 1]
  BY <1>1
<1>4. Head(queue[e]) = queue[e][1] /\ 1 \in DOMAIN queue[e] /\ queue[e][1] \in Requests BY <1>1, <1>2
<1>5. DOMAIN Tail(queue[e]) = 1..(Len(queue[e]) - 1) /\ DOMAIN queue[e] = 1..Len(queue[e]) BY <1>1, <1>3
<1> QED BY <1>2, <1>3, <1>4, <1>5

\* Who waits for the request that a child answers or refuses.
LEMMA HeadWaits ==
    ASSUME Shapes, ThreadsSound, RequestsSound, NEW e \in Employees, queue[e] # <<>>
    PROVE  LET r == Head(queue[e]) IN
           /\ r.card \in Cards /\ r.ver \in Versions /\ r.create \in BOOLEAN
           /\ RequestSound(e, r)
           /\ r.waiter # None => /\ r.waiter \in Threads /\ thread[r.waiter].pc = "wait"
                                 /\ thread[r.waiter].card = r.card /\ thread[r.waiter].ver = r.ver
<1> DEFINE r == Head(queue[e])
<1>1. r = queue[e][1] /\ 1 \in DOMAIN queue[e] /\ r \in Requests BY HeadFacts
<1>2. RequestSound(e, r) BY <1>1 DEF RequestsSound
<1>3. r.card \in Cards /\ r.ver \in Versions /\ r.create \in BOOLEAN /\ r.waiter \in Threads \cup {None}
  BY <1>1 DEF Requests
<1> QED BY <1>2, <1>3 DEF RequestSound

-----------------------------------------------------------------------------
(***************************************************************************)
(* Where a step takes a thread                                             *)
(***************************************************************************)

\* deliver() starts with the latest version of a card that is not bound yet.
Enters(t) ==
    \E c \in Cards :
        /\ thread[t].pc \in {"idle", "drain"} /\ binding[c] < Len(snaps[c])
        /\ t \in Publishers => c \in Attempts
        /\ thread'[t] = Place("prepare", c, Len(snaps[c]))
        /\ UNCHANGED <<effect, binding>>

\* A thread that has handled a control command drains the Outbox next.
Summoned(t) == thread[t].pc = "idle" /\ thread'[t] = Place("drain", None, 0)

Records(t) == t \in Publishers /\ \E c \in Attempts : thread'[t] = Place("record", c, 0)

\* It takes the active effect, or prepares one for its own version.
Prepares(t) ==
    \E v \in Versions :
        /\ thread[t].pc = "prepare"
        /\ thread'[t] = [thread[t] EXCEPT !.pc = "mark", !.ver = v]
        /\ effect'[thread[t].card][v] # "none"
        /\ v \in Active(thread[t].card) \/ v = thread[t].ver
        /\ UNCHANGED binding

Marks(t) ==
    /\ thread[t].pc = "mark"
    /\ thread'[t] = [thread[t] EXCEPT !.pc = "read"]
    /\ effect'[thread[t].card][thread[t].ver] = "executing"
    /\ UNCHANGED binding

Reads(t) ==
    /\ thread[t].pc = "read"
    /\ thread'[t] = [thread[t] EXCEPT !.pc = "call", !.bound = binding[thread[t].card]]
    /\ UNCHANGED binding

Calls(t) ==
    /\ thread[t].pc = "call"
    /\ thread'[t] = [thread[t] EXCEPT !.pc = "wait"]
    /\ UNCHANGED binding

GetsReceipt(t) ==
    /\ thread[t].pc = "wait"
    /\ thread'[t] = [thread[t] EXCEPT !.pc = "commit"]
    /\ posts'[thread[t].card] # {}
    /\ UNCHANGED binding

Moves(t) ==
    \/ thread'[t] = thread[t] \/ thread'[t] = Idle
    \/ Summoned(t) \/ Enters(t) \/ Records(t)
    \/ Prepares(t) \/ Marks(t) \/ Reads(t) \/ Calls(t) \/ GetsReceipt(t)

AllMove == thread' \in [Threads -> Places] /\ \A t \in Threads : Moves(t)

\* A thread that leaves deliver() goes to its loop, or, a team thread with a
\* binding, to the record of the publication.
LEMMA LeaveIsMove ==
    ASSUME Shapes, ThreadsSound, NEW t \in Threads, NEW r \in BOOLEAN, Leave(t, r),
           r => thread[t].pc \notin {"idle", "drain"}
    PROVE  AllMove
<1>1. r => thread[t].card \in Cards /\ (t \in Publishers => thread[t].card \in Attempts)
  BY DEF ThreadsSound, ThreadSound
<1>2. /\ thread' \in [Threads -> Places]
      /\ \A u \in Threads \ {t} : thread'[u] = thread[u]
      /\ \/ thread'[t] = Idle
         \/ /\ t \in Publishers /\ r
            /\ thread'[t] = Place("record", thread[t].card, 0)
  BY <1>1, LeaveMoves
<1>3. Moves(t) BY <1>1, <1>2 DEF Moves, Records
<1> QED BY <1>2, <1>3 DEF AllMove, Moves

\* The drain of the Outbox enters deliver() with the oldest card not bound.
LEMMA DrainMoves ==
    ASSUME Shapes, Story, ThreadsSound, NEW t \in Drainers \cup {Dispatcher}, Drain(t)
    PROVE  AllMove
<1>t. t \in Threads /\ t \notin Publishers BY OutboxAssumption DEF Threads
<1>1. CASE Leave(t, FALSE) BY <1>t, <1>1, LeaveIsMove
<1>2. ASSUME NEW i \in Undelivered, Enter(t, order[i]), thread[t].pc \in {"idle", "drain"},
             UNCHANGED <<effect, binding>>
      PROVE  AllMove
  <2>1. order[i] \in Cards /\ binding[order[i]] < Len(snaps[order[i]])
    BY <1>2 DEF Undelivered, Shapes
  <2>2. Len(snaps[order[i]]) \in 0..3 BY <2>1, LatestVersion
  <2>3. /\ thread' = [thread EXCEPT ![t] = Place("prepare", order[i], Len(snaps[order[i]]))]
        /\ thread \in [Threads -> Places]
    BY <1>2 DEF Enter, Shapes
  <2>4. Enters(t) BY <1>t, <1>2, <2>1, <2>3 DEF Enters
  <2>5. thread' \in [Threads -> Places] BY <2>1, <2>2, <2>3, PlaceTypes
  <2>6. \A u \in Threads \ {t} : thread'[u] = thread[u] BY <2>3
  <2> QED BY <2>4, <2>5, <2>6 DEF AllMove, Moves
<1> QED BY <1>1, <1>2 DEF Drain, durable

\* The threads that handled a control command are the only ones it moves.
LEMMA DisposeMoves ==
    ASSUME thread \in [Threads -> Places], NEW c \in Controls, Dispose(c)
    PROVE  AllMove /\ \A t \in Threads : thread[t].pc # "idle" => thread'[t] = thread[t]
<1>1. PICK D \in SUBSET {t \in Drainers : thread[t].pc = "idle"} :
          thread' = [t \in Threads |-> IF t \in D THEN Place("drain", None, 0) ELSE thread[t]]
  BY DEF Dispose
<1>2. \A t \in Threads : thread'[t] = IF t \in D THEN Place("drain", None, 0) ELSE thread[t] BY <1>1
<1>3. \A t \in Threads : Moves(t) BY <1>1, <1>2 DEF Moves, Summoned
<1>4. Place("drain", None, 0) \in Places BY DEF Place, Places
<1>5. thread' \in [Threads -> Places] BY <1>1, <1>4
<1> QED BY <1>1, <1>2, <1>3, <1>5 DEF AllMove

\* So does a team thread, with its finished card.
LEMMA PublishMoves ==
    ASSUME Shapes, Story, ThreadsSound, NEW t \in Publishers, NEW a \in Attempts, Publish(t, a)
    PROVE  AllMove
<1>t. t \in Threads /\ a \in Cards /\ thread \in [Threads -> Places] BY DEF Threads, Cards, Shapes
<1>1. Len(snaps[a]) \in 0..3 BY <1>t, LatestVersion
<1>2. CASE binding[a] < Len(snaps[a])
  <2>1. thread' = [thread EXCEPT ![t] = Place("prepare", a, Len(snaps[a]))] BY <1>2 DEF Publish, Enter
  <2>2. Enters(t) BY <1>t, <1>2, <2>1 DEF Enters, Publish, durable
  <2>3. thread' \in [Threads -> Places] BY <1>t, <1>1, <2>1, PlaceTypes
  <2>4. \A u \in Threads \ {t} : thread'[u] = thread[u] BY <1>t, <2>1
  <2> QED BY <2>2, <2>3, <2>4 DEF AllMove, Moves
<1>3. CASE ~(binding[a] < Len(snaps[a]))
  <2>1. thread' = [thread EXCEPT ![t] = Place("record", a, 0)] BY <1>3 DEF Publish
  <2>2. Records(t) BY <1>t, <2>1 DEF Records
  <2>3. thread' \in [Threads -> Places] BY <1>t, <2>1, PlaceTypes
  <2>4. \A u \in Threads \ {t} : thread'[u] = thread[u] BY <1>t, <2>1
  <2> QED BY <2>2, <2>3, <2>4 DEF AllMove, Moves
<1> QED BY <1>2, <1>3

\* A thread that only goes on to another step of deliver().
LEMMA GoIsMove ==
    ASSUME Shapes, NEW t \in Threads, NEW p \in Places, thread' = [thread EXCEPT ![t] = p],
           Prepares(t) \/ Marks(t) \/ Reads(t) \/ Calls(t) \/ GetsReceipt(t)
    PROVE  AllMove
<1>1. thread \in [Threads -> Places] BY DEF Shapes
<1> QED BY <1>1 DEF AllMove, Moves

\* prepare_delivery() goes on with an effect that is prepared.
LEMMA PrepareMoves ==
    ASSUME Shapes, Story, ThreadsSound, NEW t \in Threads, Prepare(t)
    PROVE  AllMove
<1> DEFINE c == thread[t].card
           v == thread[t].ver
<1>t. thread \in [Threads -> Places] /\ thread[t] \in Places BY DEF Shapes
<1>c. c \in Cards /\ v \in Versions /\ thread[t].pc = "prepare" BY DEF Prepare, ThreadsSound, ThreadSound, Inside
<1>b. UNCHANGED binding BY DEF Prepare
<1>1. CASE \E r \in BOOLEAN : Leave(t, r) BY <1>1, <1>c, LeaveIsMove
<1>2. ASSUME NEW a \in Active(c), thread' = [thread EXCEPT ![t].pc = "mark", ![t].ver = a], UNCHANGED effect
      PROVE  AllMove
  <2>1. a \in Versions /\ a \in 0..3 /\ effect[c][a] # "none" BY <1>2 DEF Active, Versions
  <2>2. thread' = [thread EXCEPT ![t] = [thread[t] EXCEPT !.pc = "mark", !.ver = a]] BY <1>2, <1>t
  <2>3. [thread[t] EXCEPT !.pc = "mark", !.ver = a] \in Places BY <1>t, <2>1, PlaceTypes
  <2>4. thread'[t] = [thread[t] EXCEPT !.pc = "mark", !.ver = a] BY <1>t, <2>2
  <2>5. Prepares(t) BY <1>b, <1>c, <1>2, <2>1, <2>4 DEF Prepares
  <2> QED BY <2>2, <2>3, <2>5, GoIsMove
<1>3. CASE effect' = [effect EXCEPT ![c][v] = "prepared"] /\ Goto(t, "mark")
  <2>1. v \in 0..3 BY <1>c DEF Versions
  <2>2. thread' = [thread EXCEPT ![t] = [thread[t] EXCEPT !.pc = "mark"]] BY <1>3, <1>t DEF Goto
  <2>3. [thread[t] EXCEPT !.pc = "mark"] = [thread[t] EXCEPT !.pc = "mark", !.ver = v]
    BY <1>t DEF Places
  <2>4. thread'[t] = [thread[t] EXCEPT !.pc = "mark", !.ver = v] BY <1>t, <2>2, <2>3
  <2>5. effect'[c][v] = "prepared" BY <1>3, <1>c DEF Shapes
  <2>6. Prepares(t) BY <1>b, <1>c, <2>4, <2>5 DEF Prepares
  <2>7. [thread[t] EXCEPT !.pc = "mark", !.ver = v] \in Places BY <1>t, <2>1, PlaceTypes
  <2> QED BY <2>2, <2>3, <2>6, <2>7, GoIsMove
<1> QED BY <1>1, <1>2, <1>3 DEF Prepare

\* So do the other steps that deliver() takes on its own.
LEMMA DeliverMoves ==
    ASSUME Shapes, Story, ThreadsSound, NEW t \in Threads, Deliver(t)
    PROVE  AllMove
<1> DEFINE c == thread[t].card
           v == thread[t].ver
<1>t. thread \in [Threads -> Places] /\ thread[t] \in Places BY DEF Shapes
<1>c. thread[t].pc \in Inside => c \in Cards /\ v \in Versions BY DEF ThreadsSound, ThreadSound, Inside, Marked
<1>1. CASE Prepare(t) BY <1>1, PrepareMoves
<1>2. ASSUME NEW r \in BOOLEAN, Leave(t, r), thread[t].pc \notin {"idle", "drain"} PROVE AllMove BY <1>2, LeaveIsMove
<1>3. ASSUME NEW q \in Inside, Goto(t, q)
      PROVE  /\ thread' = [thread EXCEPT ![t] = [thread[t] EXCEPT !.pc = q]]
             /\ thread'[t] = [thread[t] EXCEPT !.pc = q]
             /\ [thread[t] EXCEPT !.pc = q] \in Places
  BY <1>t, <1>3, PlaceTypes DEF Goto
<1>4. CASE Mark(t)
  <2>1. CASE Leave(t, FALSE) BY <1>2, <1>4, <2>1 DEF Mark
  <2>2. CASE effect' = [effect EXCEPT ![c][v] = "executing"] /\ Goto(t, "read")
    <3>1. c \in Cards /\ v \in Versions BY <1>c, <1>4 DEF Mark, Inside
    <3>2. effect'[c][v] = "executing" BY <2>2, <3>1 DEF Shapes
    <3>3. "read" \in Inside BY DEF Inside, Marked
    <3>4. Marks(t) BY <1>3, <1>4, <2>2, <3>2, <3>3 DEF Marks, Mark
    <3> QED BY <1>3, <2>2, <3>3, <3>4, GoIsMove
  <2> QED BY <1>4, <2>1, <2>2 DEF Mark
<1>5. CASE Read(t)
  <2>1. CASE Leave(t, FALSE) BY <1>2, <1>5, <2>1 DEF Read
  <2>2. CASE thread' = [thread EXCEPT ![t].pc = "call", ![t].bound = binding[c]]
    <3>1. c \in Cards BY <1>c, <1>5 DEF Read, Inside, Marked
    <3>2. binding[c] \in 0..3 BY <3>1 DEF Shapes
    <3>3. thread' = [thread EXCEPT ![t] = [thread[t] EXCEPT !.pc = "call", !.bound = binding[c]]]
      BY <2>2, <1>t
    <3>4. [thread[t] EXCEPT !.pc = "call", !.bound = binding[c]] \in Places BY <1>t, <3>2, PlaceTypes
    <3>5. Reads(t) BY <1>t, <1>5, <3>3 DEF Reads, Read, durable
    <3> QED BY <3>3, <3>4, <3>5, GoIsMove
  <2> QED BY <1>5, <2>1, <2>2 DEF Read
<1>6. CASE Call(t)
  <2>1. CASE Leave(t, FALSE) BY <1>2, <1>6, <2>1 DEF Call
  <2>2. CASE Goto(t, "wait")
    <3>1. "wait" \in Inside BY DEF Inside, Marked
    <3>2. Calls(t) BY <1>3, <1>6, <2>2, <3>1 DEF Calls, Call, durable
    <3> QED BY <1>3, <2>2, <3>1, <3>2, GoIsMove
  <2> QED BY <1>6, <2>1, <2>2 DEF Call
<1>7. CASE CommitDelivery(t)
  <2>1. thread[t].pc \notin {"idle", "drain"} /\ \E r \in BOOLEAN : Leave(t, r) BY <1>7 DEF CommitDelivery
  <2> QED BY <1>2, <2>1
<1>8. CASE Raise(t) BY <1>2, <1>8 DEF Raise
<1> QED BY <1>1, <1>4, <1>5, <1>6, <1>7, <1>8 DEF Deliver

\* The child's answer or refusal moves the thread that waits for it.
LEMMA AnswerMoves ==
    ASSUME Shapes, ThreadsSound, RequestsSound, NEW e \in Employees, Answer(e) \/ Refuse(e)
    PROVE  AllMove
<1> DEFINE r == Head(queue[e])
           t == r.waiter
<1>0. queue[e] # <<>> /\ UNCHANGED binding BY DEF Answer, Refuse, durable
<1>1. /\ r.card \in Cards /\ r.create \in BOOLEAN /\ RequestSound(e, r)
      /\ t # None => /\ t \in Threads /\ thread[t].pc = "wait"
                     /\ thread[t].card = r.card /\ thread[t].ver = r.ver
  BY <1>0, HeadWaits
<1>t. thread \in [Threads -> Places] BY DEF Shapes
<1>2. CASE UNCHANGED thread BY <1>2, <1>t DEF AllMove, Moves
<1>3. CASE t # None /\ Leave(t, FALSE) BY <1>1, <1>3, LeaveIsMove
<1>4. CASE t # None /\ Goto(t, "commit") /\ Answer(e)
  <2>1. "commit" \in Inside BY DEF Inside, Marked
  <2>2. thread[t] \in Places BY <1>1, <1>4, <1>t
  <2>3. /\ thread' = [thread EXCEPT ![t] = [thread[t] EXCEPT !.pc = "commit"]]
        /\ thread'[t] = [thread[t] EXCEPT !.pc = "commit"]
        /\ [thread[t] EXCEPT !.pc = "commit"] \in Places
    BY <1>1, <1>4, <1>t, <2>1, <2>2, PlaceTypes DEF Goto
  <2>4. posts'[r.card] # {}
    <3>1. CASE r.create
      <4>1. posts' = [posts EXCEPT ![r.card] = posts[r.card] \cup {Uuid(r.card)}] BY <1>4, <3>1 DEF Answer
      <4> QED BY <1>1, <4>1 DEF Shapes
    <3>2. CASE ~r.create
      <4>1. posts' = posts BY <1>4, <3>2 DEF Answer
      <4> QED BY <1>1, <3>2, <4>1 DEF RequestSound
    <3> QED BY <3>1, <3>2
  <2>5. GetsReceipt(t) BY <1>0, <1>1, <1>4, <2>3, <2>4 DEF GetsReceipt
  <2> QED BY <1>1, <1>4, <2>3, <2>5, GoIsMove
<1> QED BY <1>2, <1>3, <1>4 DEF Answer, Refuse

\* Wherever a step takes a thread, it is one of these moves.
LEMMA StepMoves ==
    ASSUME Shapes, Story, ThreadsSound, RequestsSound, [Next]_vars
    PROVE  AllMove
<1>t. thread \in [Threads -> Places] BY DEF Shapes
<1>s. CASE UNCHANGED thread BY <1>s, <1>t DEF AllMove, Moves
<1>1. ASSUME NEW a \in Attempts, Work(a) PROVE UNCHANGED thread
  BY <1>1 DEF Work, Dispatch, Progress, Finalize, Report
<1>2. ASSUME NEW c \in Controls, Receive(c) \/ Respond(c) \/ Dispose(c) PROVE AllMove
  <2>1. CASE Receive(c) \/ Respond(c) BY <1>s, <2>1 DEF Receive, Respond
  <2>2. CASE Dispose(c) BY <1>t, <2>2, DisposeMoves
  <2> QED BY <1>2, <2>1, <2>2
<1>3. ASSUME NEW t \in Drainers \cup {Dispatcher}, Drain(t) PROVE AllMove BY <1>3, DrainMoves
<1>4. ASSUME NEW t \in Publishers, NEW a \in Attempts, Publish(t, a) PROVE AllMove BY <1>4, PublishMoves
<1>5. ASSUME NEW t \in Publishers, Record(t) PROVE AllMove
  <2>1. t \in Threads BY DEF Threads
  <2>2. thread' = [thread EXCEPT ![t] = Idle] BY <1>5 DEF Record
  <2> QED BY <1>t, <2>1, <2>2, PlaceTypes DEF AllMove, Moves
<1>6. ASSUME NEW t \in Threads, Deliver(t) PROVE AllMove BY <1>6, DeliverMoves
<1>7. ASSUME NEW t \in Threads, Timeout(t) PROVE AllMove BY <1>7, LeaveIsMove DEF Timeout
<1>8. ASSUME NEW c \in Cards, NEW v \in Versions, Collect(c, v) PROVE UNCHANGED thread BY <1>8 DEF Collect
<1>9. ASSUME NEW e \in Employees, Answer(e) \/ Refuse(e) PROVE AllMove BY <1>9, AnswerMoves
<1>10. ASSUME NEW e \in Employees, Reconnecting(e) \/ Ready(e) PROVE UNCHANGED thread
  BY <1>10 DEF Reconnecting, Ready
<1>11. CASE Loop \/ Abandon \/ Boot \/ UNCHANGED vars BY <1>s, <1>11 DEF Loop, Abandon, Boot, vars
<1>12. CASE Crash BY <1>12, PlaceTypes DEF Crash, AllMove, Moves
<1> QED BY <1>s, <1>1, <1>2, <1>3, <1>4, <1>5, <1>6, <1>7, <1>8, <1>9, <1>10, <1>11, <1>12 DEF Next

-----------------------------------------------------------------------------
(***************************************************************************)
(* Effects, bindings and messages                                          *)
(***************************************************************************)

\* What a step can do to the effects: prepare_delivery(),
\* mark_effect_executing() and commit_delivery() are the only calls that
\* change one, and the first prepares none while another is active.
NewEffect(c, v) ==
    /\ \E t \in Threads : thread[t].pc = "prepare" /\ thread[t].card = c /\ thread[t].ver = v
    /\ Active(c) = {} /\ v \notin tombs[c]
    /\ effect' = [effect EXCEPT ![c][v] = "prepared"]
    /\ effect[c][v] = "none"
    /\ UNCHANGED <<snaps, tombs, binding, posts, shown, queue, poisoned>>

Executes(c, v) ==
    /\ effect[c][v] \in {"prepared", "executing"}
    /\ effect' = [effect EXCEPT ![c][v] = "executing"]
    /\ UNCHANGED <<snaps, tombs, binding, posts, shown, queue, poisoned>>

Commits(c, v) ==
    /\ \E t \in Threads : thread'[t].pc \notin Inside
    /\ effect[c][v] = "executing" /\ v > binding[c] /\ posts[c] # {}
    /\ effect' = [effect EXCEPT ![c][v] = "committed"]
    /\ binding' = [binding EXCEPT ![c] = v]
    /\ UNCHANGED <<snaps, tombs, posts, shown, queue, poisoned>>

EffectMoves ==
    \/ UNCHANGED <<effect, binding>>
    \/ \E c \in Cards, v \in Versions : NewEffect(c, v) \/ Executes(c, v) \/ Commits(c, v)

\* One card's effects move at a time, and only so.
LEMMA StepEffects ==
    ASSUME Shapes, ThreadsSound, [Next]_vars
    PROVE  EffectMoves
<1>s. CASE UNCHANGED <<effect, binding>> BY <1>s DEF EffectMoves
<1>1. ASSUME NEW a \in Attempts, Work(a) PROVE UNCHANGED <<effect, binding>>
  BY <1>1 DEF Work, Dispatch, Progress, Finalize, Report
<1>2. ASSUME NEW c \in Controls, Receive(c) \/ Respond(c) \/ Dispose(c) PROVE UNCHANGED <<effect, binding>>
  BY <1>2 DEF Receive, Respond, Dispose
<1>3. ASSUME NEW t, Drain(t) PROVE UNCHANGED <<effect, binding>> BY <1>3 DEF Drain, durable
<1>4. ASSUME NEW t, NEW a, Publish(t, a) PROVE UNCHANGED <<effect, binding>> BY <1>4 DEF Publish, durable
<1>5. ASSUME NEW t, Record(t) PROVE UNCHANGED <<effect, binding>> BY <1>5 DEF Record
<1>6. ASSUME NEW t \in Threads, Deliver(t) PROVE EffectMoves
  <2> DEFINE c == thread[t].card
             v == thread[t].ver
  <2>1. thread[t].pc \in Inside => c \in Cards /\ v \in Versions
    BY DEF ThreadsSound, ThreadSound, Inside, Marked
  <2>2. CASE Prepare(t)
    <3>1. CASE UNCHANGED effect BY <1>s, <2>2, <3>1 DEF Prepare
    <3>2. CASE Active(c) = {} /\ effect[c][v] = "none" /\ v \notin tombs[c]
               /\ effect' = [effect EXCEPT ![c][v] = "prepared"]
      <4>1. c \in Cards /\ v \in Versions BY <2>1, <2>2 DEF Prepare, Inside
      <4>2. NewEffect(c, v) BY <2>2, <3>2 DEF NewEffect, Prepare, channel
      <4> QED BY <4>1, <4>2 DEF EffectMoves
    <3> QED BY <2>2, <3>1, <3>2 DEF Prepare
  <2>3. CASE Mark(t)
    <3>1. CASE UNCHANGED effect BY <1>s, <2>3, <3>1 DEF Mark
    <3>2. CASE effect[c][v] # "committed" /\ effect' = [effect EXCEPT ![c][v] = "executing"]
      <4>1. c \in Cards /\ v \in Versions BY <2>1, <2>3 DEF Mark, Inside
      <4>2. effect[c][v] \in {"prepared", "executing"}
        BY <2>3, <3>2, <4>1 DEF Mark, ThreadsSound, ThreadSound, Shapes, EffectStates
      <4>3. Executes(c, v) BY <2>3, <3>2, <4>2 DEF Executes, Mark, channel
      <4> QED BY <4>1, <4>3 DEF EffectMoves
    <3> QED BY <2>3, <3>1, <3>2 DEF Mark
  <2>4. CASE Read(t) \/ Call(t) \/ Raise(t) BY <1>s, <2>4 DEF Read, Call, Raise, durable
  <2>5. CASE CommitDelivery(t)
    <3>1. CASE UNCHANGED <<effect, binding>> BY <1>s, <3>1
    <3>2. CASE /\ effect[c][v] # "committed" /\ v > binding[c] /\ UNCHANGED poisoned
               /\ effect' = [effect EXCEPT ![c][v] = "committed"]
               /\ binding' = [binding EXCEPT ![c] = v]
      <4>1. c \in Cards /\ v \in Versions BY <2>1, <2>5 DEF CommitDelivery, Inside, Marked
      <4>2. effect[c][v] = "executing" /\ posts[c] # {}
        BY <2>5, <3>2, <4>1 DEF CommitDelivery, ThreadsSound, ThreadSound, Shown, Marked
      <4>4. thread'[t].pc \notin Inside
        <5>1. Leave(t, TRUE) BY <2>5, <3>2, <4>1 DEF CommitDelivery
        <5>2. thread'[t] = Idle \/ thread'[t] = Place("record", c, 0) BY <5>1, <4>1, LeaveMoves
        <5> QED BY <5>2 DEF Idle, Place, Inside, Marked
      <4>3. Commits(c, v) BY <2>5, <3>2, <4>2, <4>4 DEF Commits, CommitDelivery, channel
      <4> QED BY <4>1, <4>3 DEF EffectMoves
    <3> QED BY <2>5, <3>1, <3>2 DEF CommitDelivery
  <2> QED BY <1>6, <2>2, <2>3, <2>4, <2>5 DEF Deliver
<1>7. ASSUME NEW t, Timeout(t) PROVE UNCHANGED <<effect, binding>> BY <1>7 DEF Timeout, durable
<1>8. ASSUME NEW c, NEW v, Collect(c, v) PROVE UNCHANGED <<effect, binding>> BY <1>8 DEF Collect
<1>9. ASSUME NEW e, Answer(e) \/ Refuse(e) \/ Reconnecting(e) \/ Ready(e) PROVE UNCHANGED <<effect, binding>>
  BY <1>9 DEF Answer, Refuse, Reconnecting, Ready, durable
<1>10. CASE Loop \/ Abandon \/ Boot \/ Crash \/ UNCHANGED vars
  BY <1>s, <1>10 DEF Loop, Abandon, Boot, Crash, vars, durable
<1> QED BY <1>s, <1>1, <1>2, <1>3, <1>4, <1>5, <1>6, <1>7, <1>8, <1>9, <1>10 DEF Next

\* What the steps do to a single effect: it only goes forward.
LEMMA EffectsGrow ==
    ASSUME Shapes, ThreadsSound, [Next]_vars
    PROVE  /\ effect' \in [Cards -> [Versions -> EffectStates]] /\ binding' \in [Cards -> 0..3]
           /\ \A c \in Cards, v \in Versions :
                 /\ effect[c][v] # "none" => effect'[c][v] # "none"
                 /\ effect[c][v] \in Shown => effect'[c][v] \in Shown
                 /\ effect[c][v] = "committed" => effect'[c][v] = "committed"
<1>1. effect \in [Cards -> [Versions -> EffectStates]] /\ binding \in [Cards -> 0..3] BY DEF Shapes
<1>2. CASE UNCHANGED <<effect, binding>> BY <1>1, <1>2
<1>3. ASSUME NEW c \in Cards, NEW v \in Versions, NewEffect(c, v) \/ Executes(c, v) \/ Commits(c, v)
      PROVE  /\ effect' \in [Cards -> [Versions -> EffectStates]] /\ binding' \in [Cards -> 0..3]
             /\ \A d \in Cards, w \in Versions :
                   /\ effect[d][w] # "none" => effect'[d][w] # "none"
                   /\ effect[d][w] \in Shown => effect'[d][w] \in Shown
                   /\ effect[d][w] = "committed" => effect'[d][w] = "committed"
  <2>0. v \in 0..3 BY DEF Versions
  <2>1. CASE NewEffect(c, v) BY <1>1, <2>1 DEF NewEffect, EffectStates, Shown
  <2>2. CASE Executes(c, v) BY <1>1, <2>2 DEF Executes, EffectStates, Shown
  <2>3. CASE Commits(c, v) BY <1>1, <2>0, <2>3 DEF Commits, EffectStates, Shown
  <2> QED BY <1>3, <2>1, <2>2, <2>3
<1> QED BY <1>2, <1>3, StepEffects DEF EffectMoves

\* At most one effect of a card is active, and a binding names a committed one.
LEMMA EffectsStep ==
    ASSUME Shapes, ThreadsSound, EffectsSound, [Next]_vars
    PROVE  EffectsSound'
<1>t. effect \in [Cards -> [Versions -> EffectStates]] /\ binding \in [Cards -> 0..3] BY DEF Shapes
<1>1. CASE UNCHANGED <<effect, binding>> BY <1>1 DEF EffectsSound, Active
<1>2. ASSUME NEW c \in Cards, NEW v \in Versions, NewEffect(c, v) \/ Executes(c, v) \/ Commits(c, v)
      PROVE  EffectsSound'
  <2>1. \A d \in Cards \ {c} : effect'[d] = effect[d] /\ binding'[d] = binding[d]
    BY <1>2, <1>t DEF NewEffect, Executes, Commits
  <2>2. \A w \in Versions \ {v} : effect'[c][w] = effect[c][w]
    BY <1>2, <1>t DEF NewEffect, Executes, Commits
  <2>3. CASE NewEffect(c, v)
    <3>1. effect'[c][v] = "prepared" /\ binding' = binding BY <1>t, <2>3 DEF NewEffect
    <3>2. \A w \in Versions \ {v} : w \notin Active(c)' BY <2>2, <2>3 DEF NewEffect, Active
    <3>3. binding[c] # 0 => binding[c] # v /\ binding[c] \in Versions
      BY <1>t, <2>3 DEF NewEffect, EffectsSound, Versions
    <3> QED BY <2>1, <2>2, <3>1, <3>2, <3>3 DEF EffectsSound, Active
  <2>4. CASE Executes(c, v)
    <3>1. effect'[c][v] = "executing" /\ binding' = binding BY <1>t, <2>4 DEF Executes
    <3>2. Active(c)' = Active(c) BY <2>2, <2>4, <3>1 DEF Executes, Active
    <3>3. binding[c] # 0 => binding[c] # v /\ binding[c] \in Versions
      BY <1>t, <2>4 DEF Executes, EffectsSound, Versions
    <3> QED BY <2>1, <2>2, <3>1, <3>2, <3>3 DEF EffectsSound, Active
  <2>5. CASE Commits(c, v)
    <3>1. effect'[c][v] = "committed" /\ binding'[c] = v BY <1>t, <2>5 DEF Commits
    <3>2. Active(c)' \subseteq Active(c) BY <2>2, <3>1 DEF Active
    <3> QED BY <2>1, <3>1, <3>2 DEF EffectsSound, Active
  <2> QED BY <1>2, <2>3, <2>4, <2>5
<1> QED BY <1>1, <1>2, StepEffects DEF EffectMoves

\* Messages stay, and what a step shows was asked for.
LEMMA PostsGrow ==
    ASSUME Shapes, ThreadsSound, RequestsSound, [Next]_vars
    PROVE  /\ posts' \in [Cards -> SUBSET {1}] /\ shown' \in [Cards -> 0..3]
           /\ \A c \in Cards : posts[c] \subseteq posts'[c]
           /\ \A c \in Cards : \/ shown'[c] = shown[c]
                               \/ shown'[c] \in Versions /\ effect[c][shown'[c]] \in Shown
<1>t. posts \in [Cards -> SUBSET {1}] /\ shown \in [Cards -> 0..3] BY DEF Shapes
<1>s. CASE UNCHANGED <<posts, shown>> BY <1>s, <1>t
<1>1. ASSUME NEW a \in Attempts, Work(a) PROVE UNCHANGED <<posts, shown>>
  BY <1>1 DEF Work, Dispatch, Progress, Finalize, Report, channel
<1>2. ASSUME NEW c \in Controls, Receive(c) \/ Respond(c) \/ Dispose(c) PROVE UNCHANGED <<posts, shown>>
  BY <1>2 DEF Receive, Respond, Dispose, channel
<1>3. ASSUME NEW t, Drain(t) \/ Record(t) \/ Timeout(t) PROVE UNCHANGED <<posts, shown>>
  BY <1>3 DEF Drain, Record, Timeout, channel
<1>4. ASSUME NEW t, NEW a, Publish(t, a) PROVE UNCHANGED <<posts, shown>> BY <1>4 DEF Publish, channel
<1>5. ASSUME NEW t, Deliver(t) PROVE UNCHANGED <<posts, shown>>
  BY <1>5 DEF Deliver, Prepare, Mark, Read, Call, CommitDelivery, Raise, channel
<1>6. ASSUME NEW c, NEW v, Collect(c, v) PROVE UNCHANGED <<posts, shown>> BY <1>6 DEF Collect, channel
<1>7. ASSUME NEW e, Refuse(e) \/ Reconnecting(e) \/ Ready(e) PROVE UNCHANGED <<posts, shown>>
  BY <1>7 DEF Refuse, Reconnecting, Ready
<1>8. CASE Loop \/ Abandon \/ Boot \/ Crash \/ UNCHANGED vars
  BY <1>s, <1>8 DEF Loop, Abandon, Boot, Crash, vars, channel
<1>9. ASSUME NEW e \in Employees, Answer(e)
      PROVE  /\ posts' \in [Cards -> SUBSET {1}] /\ shown' \in [Cards -> 0..3]
             /\ \A c \in Cards : posts[c] \subseteq posts'[c]
             /\ \A c \in Cards : \/ shown'[c] = shown[c]
                                 \/ shown'[c] \in Versions /\ effect[c][shown'[c]] \in Shown
  <2> DEFINE r == Head(queue[e])
  <2>1. r.card \in Cards /\ r.ver \in Versions /\ effect[r.card][r.ver] \in Shown
    BY <1>9, HeadWaits DEF Answer, RequestSound
  <2>2. posts' = posts \/ posts' = [posts EXCEPT ![r.card] = posts[r.card] \cup {1}]
    BY <1>9 DEF Answer, Uuid
  <2>3. shown' = shown \/ shown' = [shown EXCEPT ![r.card] = r.ver] BY <1>9 DEF Answer
  <2> HIDE DEF r
  <2>4. posts' \in [Cards -> SUBSET {1}] /\ \A c \in Cards : posts[c] \subseteq posts'[c]
    BY <1>t, <2>1, <2>2
  <2>5. r.ver \in 0..3 BY <2>1 DEF Versions
  <2>6. shown' \in [Cards -> 0..3] BY <1>t, <2>1, <2>3, <2>5
  <2>7. \A c \in Cards : shown'[c] = shown[c] \/ (c = r.card /\ shown'[c] = r.ver) BY <1>t, <2>1, <2>3
  <2> QED BY <2>1, <2>4, <2>6, <2>7
<1> QED BY <1>s, <1>1, <1>2, <1>3, <1>4, <1>5, <1>6, <1>7, <1>8, <1>9 DEF Next

\* A binding follows a message, and what is shown follows a marked effect.
LEMMA BoundStep ==
    ASSUME Shapes, ThreadsSound, RequestsSound, BoundPosted, AnchoredBeforeShown, [Next]_vars
    PROVE  BoundPosted' /\ AnchoredBeforeShown'
<1>1. BoundPosted'
  <2>1. \A c \in Cards : binding'[c] # 0 => posts[c] # {}
    <3>1. CASE UNCHANGED binding BY <3>1 DEF BoundPosted
    <3>2. ASSUME NEW c \in Cards, NEW v \in Versions, Commits(c, v)
          PROVE  \A d \in Cards : binding'[d] # 0 => posts[d] # {}
      BY <3>2 DEF Commits, BoundPosted, Shapes
    <3> QED BY <3>1, <3>2, StepEffects DEF EffectMoves, NewEffect, Executes
  <2> QED BY <2>1, PostsGrow DEF BoundPosted
<1>2. AnchoredBeforeShown'
  <2>1. ASSUME NEW c \in Cards, shown'[c] # 0 PROVE effect'[c][shown'[c]] \in Shown
    <3>1. shown'[c] \in Versions BY <2>1, PostsGrow DEF Versions
    <3>2. effect[c][shown'[c]] \in Shown BY <2>1, PostsGrow DEF AnchoredBeforeShown, Shown
    <3> QED BY <3>1, <3>2, EffectsGrow
  <2> QED BY <2>1 DEF AnchoredBeforeShown, Shown
<1> QED BY <1>1, <1>2

\* What a thread carries through deliver() stays true, whoever else steps.
LEMMA ThreadsStep ==
    ASSUME Shapes, Story, ThreadsSound, RequestsSound, BoundPosted, [Next]_vars
    PROVE  ThreadsSound'
<1>1. SUFFICES ASSUME NEW t \in Threads PROVE ThreadSound(t)' BY DEF ThreadsSound
<1> DEFINE c == thread[t].card
           v == thread[t].ver
<1>2. ThreadSound(t) /\ Moves(t) BY StepMoves DEF ThreadsSound, AllMove
<1>3. \A d \in Cards, w \in Versions :
          /\ effect[d][w] # "none" => effect'[d][w] # "none"
          /\ effect[d][w] \in Shown => effect'[d][w] \in Shown
  BY EffectsGrow
<1>4. \A d \in Cards : posts[d] # {} => posts'[d] # {} BY PostsGrow
<1>5. thread[t] \in Places BY DEF Shapes
<1>6. CASE thread'[t] = thread[t] BY <1>2, <1>3, <1>4, <1>6 DEF ThreadSound, Inside, Marked
<1>7. CASE thread'[t] = Idle BY <1>7 DEF ThreadSound, Idle, Place, Inside, Marked
<1>s. CASE Summoned(t) BY <1>s DEF Summoned, ThreadSound, Place, Inside, Marked
<1>8. CASE Enters(t)
  <2>1. PICK d \in Cards : /\ thread[t].pc \in {"idle", "drain"} /\ binding[d] < Len(snaps[d])
                           /\ t \in Publishers => d \in Attempts
                           /\ thread'[t] = Place("prepare", d, Len(snaps[d]))
    BY <1>8 DEF Enters
  <2>2. Len(snaps[d]) \in Versions
    <3>1. Len(snaps[d]) \in 0..3 /\ binding[d] \in 0..3 BY LatestVersion DEF Shapes
    <3>2. Len(snaps[d]) # 0 BY <2>1, <3>1
    <3> QED BY <3>1, <3>2 DEF Versions
  <2> QED BY <2>1, <2>2 DEF ThreadSound, Place, Inside, Marked
<1>9. CASE Records(t)
  <2>1. PICK d \in Attempts : thread'[t] = Place("record", d, 0) BY <1>9 DEF Records
  <2>2. d \in Cards BY DEF Cards
  <2> QED BY <1>9, <2>1, <2>2 DEF ThreadSound, Place, Inside, Marked, Records
<1>10. CASE Prepares(t)
  <2>1. PICK w \in Versions : /\ thread'[t] = [thread[t] EXCEPT !.pc = "mark", !.ver = w]
                              /\ effect'[c][w] # "none"
    BY <1>10 DEF Prepares
  <2>2. /\ thread'[t].pc = "mark" /\ thread'[t].card = c /\ thread'[t].ver = w
        /\ thread'[t].bound = thread[t].bound
    BY <1>5, <2>1 DEF Places
  <2>3. thread[t].pc = "prepare" BY <1>10 DEF Prepares
  <2> QED BY <1>2, <1>4, <2>1, <2>2, <2>3 DEF ThreadSound, Inside, Marked
<1>11. CASE Marks(t) \/ Calls(t) \/ GetsReceipt(t)
  <2>1. /\ thread'[t].card = c /\ thread'[t].ver = v
        /\ thread'[t].bound = thread[t].bound
        /\ \/ thread[t].pc = "mark" /\ thread'[t].pc = "read" /\ effect'[c][v] = "executing"
           \/ thread[t].pc = "call" /\ thread'[t].pc = "wait"
           \/ thread[t].pc = "wait" /\ thread'[t].pc = "commit" /\ posts'[c] # {}
    BY <1>5, <1>11 DEF Places, Marks, Calls, GetsReceipt
  <2>2. c \in Cards /\ v \in Versions BY <1>2, <2>1 DEF ThreadSound, Inside, Marked
  <2>3. effect'[c][v] \in Shown BY <1>2, <1>3, <2>1, <2>2 DEF ThreadSound, Marked, Shown
  <2> QED BY <1>2, <1>4, <2>1, <2>2, <2>3 DEF ThreadSound, Inside, Marked
<1>12. CASE Reads(t)
  <2>1. /\ thread'[t].card = c /\ thread'[t].ver = v /\ thread[t].pc = "read" /\ thread'[t].pc = "call"
        /\ thread'[t].bound = binding[c]
    BY <1>5, <1>12 DEF Places, Reads
  <2>2. c \in Cards /\ v \in Versions BY <1>2, <2>1 DEF ThreadSound, Inside, Marked
  <2>3. effect'[c][v] \in Shown BY <1>2, <1>3, <2>1, <2>2 DEF ThreadSound, Marked
  <2>4. binding[c] # 0 => posts'[c] # {} BY <1>4, <2>2 DEF BoundPosted
  <2> QED BY <1>2, <2>1, <2>2, <2>3, <2>4 DEF ThreadSound, Inside, Marked
<1> QED BY <1>2, <1>6, <1>7, <1>s, <1>8, <1>9, <1>10, <1>11, <1>12 DEF Moves

-----------------------------------------------------------------------------
(***************************************************************************)
(* The pipes of the Channel children                                       *)
(***************************************************************************)

OthersStay(t) == \A u \in Threads \ {t} : thread'[u] = thread[u]

\* What a step can do to the pipes.
QueuesStay ==
    UNCHANGED queue /\ \A t \in Threads : thread[t].pc = "wait" => thread'[t] = thread[t]

Request(t) ==
    [waiter |-> t, card |-> thread[t].card, ver |-> thread[t].ver, create |-> thread[t].bound = 0]

Sends(t) ==
    /\ thread[t].pc = "call" /\ thread'[t] = [thread[t] EXCEPT !.pc = "wait"] /\ OthersStay(t)
    /\ queue' = [queue EXCEPT ![EmployeeOf[thread[t].card]] = Append(@, Request(t))]

Takes(e) ==
    /\ queue[e] # <<>> /\ queue' = [queue EXCEPT ![e] = Tail(@)]
    /\ OthersStay(Head(queue[e]).waiter)

GivesUp(t) ==
    /\ OthersStay(t)
    /\ queue' = [e \in Employees |-> [i \in DOMAIN queue[e] |->
                    IF queue[e][i].waiter = t THEN [queue[e][i] EXCEPT !.waiter = None]
                    ELSE queue[e][i]]]

QueueMoves ==
    \/ QueuesStay
    \/ \E t \in Threads : Sends(t) \/ GivesUp(t)
    \/ \E e \in Employees : Takes(e)
    \/ queue' = [e \in Employees |-> <<>>]

\* A step that is not about the thread that waits leaves it waiting.
LEMMA OwnStep ==
    ASSUME NEW t \in Threads, OthersStay(t), thread[t].pc # "wait", UNCHANGED queue
    PROVE  QueueMoves
BY DEF QueueMoves, QueuesStay, OthersStay

\* The pipes change when a thread sends, gives up or is answered.
LEMMA StepQueues ==
    ASSUME Shapes, Story, ThreadsSound, RequestsSound, [Next]_vars
    PROVE  QueueMoves
<1>t. thread \in [Threads -> Places] BY DEF Shapes
<1>s. CASE UNCHANGED <<thread, queue>> BY <1>s DEF QueueMoves, QueuesStay
<1>l. ASSUME NEW t \in Threads, NEW r, Leave(t, r) PROVE OthersStay(t)
  BY <1>t, <1>l DEF Leave, OthersStay
<1>g. ASSUME NEW t \in Threads, NEW q, Goto(t, q) PROVE OthersStay(t)
  BY <1>t, <1>g DEF Goto, OthersStay
<1>1. ASSUME NEW a \in Attempts, Work(a) PROVE UNCHANGED <<thread, queue>>
  BY <1>1 DEF Work, Dispatch, Progress, Finalize, Report, channel
<1>2. ASSUME NEW c \in Controls, Receive(c) \/ Respond(c) \/ Dispose(c) PROVE QueueMoves
  <2>1. CASE Receive(c) \/ Respond(c) BY <1>s, <2>1 DEF Receive, Respond, channel
  <2>2. CASE Dispose(c)
    <3>1. \A t \in Threads : thread[t].pc # "idle" => thread'[t] = thread[t] BY <1>t, <2>2, DisposeMoves
    <3> QED BY <2>2, <3>1 DEF Dispose, channel, QueueMoves, QueuesStay
  <2> QED BY <1>2, <2>1, <2>2
<1>3. ASSUME NEW t \in Drainers \cup {Dispatcher}, Drain(t) PROVE QueueMoves
  <2>1. t \in Threads /\ thread[t].pc # "wait" /\ UNCHANGED queue BY <1>3 DEF Drain, Threads, channel
  <2>2. CASE Leave(t, FALSE) BY <1>l, <2>1, <2>2, OwnStep
  <2>3. ASSUME NEW i, Enter(t, order[i]) PROVE QueueMoves
    <3>1. OthersStay(t) BY <1>t, <2>1, <2>3 DEF Enter, OthersStay
    <3> QED BY <2>1, <3>1, OwnStep
  <2> QED BY <1>3, <2>2, <2>3 DEF Drain
<1>4. ASSUME NEW t \in Publishers, NEW a \in Attempts, Publish(t, a) PROVE QueueMoves
  <2>1. t \in Threads /\ thread[t].pc # "wait" /\ UNCHANGED queue BY <1>4 DEF Publish, Threads, channel
  <2>2. OthersStay(t) BY <1>4, <1>t, <2>1 DEF Publish, Enter, OthersStay
  <2> QED BY <2>1, <2>2, OwnStep
<1>5. ASSUME NEW t \in Publishers, Record(t) PROVE QueueMoves
  <2>1. t \in Threads /\ thread[t].pc # "wait" /\ UNCHANGED queue BY <1>5 DEF Record, Threads, channel
  <2>2. OthersStay(t) BY <1>5, <1>t, <2>1 DEF Record, OthersStay
  <2> QED BY <2>1, <2>2, OwnStep
<1>6. ASSUME NEW t \in Threads, Deliver(t) PROVE QueueMoves
  <2>1. CASE Prepare(t)
    <3>1. OthersStay(t) BY <1>l, <1>g, <1>t, <2>1 DEF Prepare, OthersStay
    <3> QED BY <2>1, <3>1, OwnStep DEF Prepare, channel
  <2>2. CASE Mark(t)
    <3>1. OthersStay(t) BY <1>l, <1>g, <2>2 DEF Mark
    <3> QED BY <2>2, <3>1, OwnStep DEF Mark, channel
  <2>3. CASE Read(t)
    <3>1. OthersStay(t) BY <1>l, <1>t, <2>3 DEF Read, OthersStay
    <3> QED BY <2>3, <3>1, OwnStep DEF Read, channel
  <2>4. CASE Call(t)
    <3>1. CASE Leave(t, FALSE) /\ UNCHANGED queue BY <1>l, <2>4, <3>1, OwnStep DEF Call
    <3>2. CASE /\ Goto(t, "wait")
               /\ queue' = [queue EXCEPT ![EmployeeOf[thread[t].card]] = Append(@, Request(t))]
      <4>1. thread[t].pc = "call" /\ OthersStay(t) BY <1>g, <2>4, <3>2 DEF Call
      <4>2. thread'[t] = [thread[t] EXCEPT !.pc = "wait"] BY <1>t, <3>2 DEF Goto
      <4> QED BY <3>2, <4>1, <4>2 DEF QueueMoves, Sends
    <3> QED BY <2>4, <3>1, <3>2 DEF Call, Request
  <2>5. CASE CommitDelivery(t)
    <3>1. OthersStay(t) BY <1>l, <2>5 DEF CommitDelivery
    <3> QED BY <2>5, <3>1, OwnStep DEF CommitDelivery, channel
  <2>6. CASE Raise(t)
    <3>1. OthersStay(t) BY <1>l, <2>6 DEF Raise
    <3> QED BY <2>6, <3>1, OwnStep DEF Raise, channel
  <2> QED BY <1>6, <2>1, <2>2, <2>3, <2>4, <2>5, <2>6 DEF Deliver
<1>7. ASSUME NEW t \in Threads, Timeout(t) PROVE QueueMoves
  BY <1>7, <1>l DEF Timeout, QueueMoves, GivesUp
<1>8. ASSUME NEW c, NEW v, Collect(c, v) PROVE UNCHANGED <<thread, queue>> BY <1>8 DEF Collect, channel
<1>9. ASSUME NEW e \in Employees, Answer(e) \/ Refuse(e) PROVE QueueMoves
  <2> DEFINE r == Head(queue[e])
  <2>1. queue[e] # <<>> /\ queue' = [queue EXCEPT ![e] = Tail(@)] BY <1>9 DEF Answer, Refuse
  <2>2. r.waiter # None => r.waiter \in Threads BY <2>1, HeadWaits
  <2>3. OthersStay(r.waiter)
    <3>1. CASE UNCHANGED thread BY <3>1 DEF OthersStay
    <3>2. CASE r.waiter # None /\ (Goto(r.waiter, "commit") \/ Leave(r.waiter, FALSE))
      BY <1>l, <1>g, <2>2, <3>2
    <3> QED BY <1>9, <3>1, <3>2 DEF Answer, Refuse
  <2> QED BY <2>1, <2>3 DEF QueueMoves, Takes
<1>10. ASSUME NEW e \in Employees, Reconnecting(e) \/ Ready(e) PROVE UNCHANGED <<thread, queue>>
  BY <1>10 DEF Reconnecting, Ready
<1>11. CASE Loop \/ Abandon \/ Boot \/ UNCHANGED vars
  BY <1>s, <1>11 DEF Loop, Abandon, Boot, vars, channel
<1>12. CASE Crash BY <1>12 DEF Crash, QueueMoves
<1> QED BY <1>s, <1>1, <1>2, <1>3, <1>4, <1>5, <1>6, <1>7, <1>8, <1>9, <1>10, <1>11, <1>12 DEF Next

\* The request a thread sends is for the effect it marked, and creates the
\* message unless there is one.
LEMMA RequestTyped ==
    ASSUME Shapes, ThreadsSound, NEW t \in Threads, thread[t].pc = "call"
    PROVE  /\ Request(t) \in Requests
           /\ effect[thread[t].card][thread[t].ver] \in Shown
           /\ thread[t].bound # 0 => posts[thread[t].card] # {}
<1>1. /\ thread[t].card \in Cards /\ thread[t].ver \in Versions
      /\ effect[thread[t].card][thread[t].ver] \in Shown
      /\ thread[t].bound # 0 => posts[thread[t].card] # {}
  BY DEF ThreadsSound, ThreadSound, Inside, Marked
<1> QED BY <1>1 DEF Request, Requests

\* A request that stays in a pipe stays sound when the thread that waits for
\* it stays where it is.
LEMMA RequestStays ==
    ASSUME Shapes, Story, ThreadsSound, RequestsSound, [Next]_vars,
           NEW e \in Employees, NEW r \in Requests, RequestSound(e, r),
           r.waiter # None => thread'[r.waiter] = thread[r.waiter]
    PROVE  RequestSound(e, r)'
<1>1. r.card \in Cards /\ r.ver \in Versions BY DEF Requests
<1>2. effect'[r.card][r.ver] \in Shown BY <1>1, EffectsGrow DEF RequestSound
<1>3. r.create \/ posts'[r.card] # {} BY <1>1, PostsGrow DEF RequestSound
<1> QED BY <1>2, <1>3 DEF RequestSound

\* What is in the pipes stays sound, and no thread waits for two requests.
LEMMA RequestsStep ==
    ASSUME Shapes, Story, ThreadsSound, RequestsSound, [Next]_vars
    PROVE  queue' \in [Employees -> Seq(Requests)] /\ RequestsSound'
<1>q. queue \in [Employees -> Seq(Requests)] BY DEF Shapes
<1>r. ASSUME NEW e \in Employees, NEW i \in DOMAIN queue[e]
      PROVE  /\ queue[e][i] \in Requests /\ RequestSound(e, queue[e][i])
             /\ queue[e][i].waiter # None =>
                   /\ queue[e][i].waiter \in Threads /\ thread[queue[e][i].waiter].pc = "wait"
                   /\ EmployeeOf[thread[queue[e][i].waiter].card] = e
             /\ \A j \in DOMAIN queue[e] :
                   queue[e][i].waiter = queue[e][j].waiter /\ queue[e][i].waiter # None => i = j
  <2>1. queue[e][i] \in Requests BY <1>q
  <2> QED BY <2>1 DEF RequestsSound, RequestSound, Requests
<1>k. ASSUME NEW e \in Employees, NEW i, NEW r \in Requests, queue'[e][i] = r, RequestSound(e, r),
             r.waiter # None => thread'[r.waiter] = thread[r.waiter]
      PROVE  RequestSound(e, queue[e][i])'
  <2>1. RequestSound(e, r)' BY <1>k, RequestStays
  <2> QED BY <1>k, <2>1 DEF RequestSound
<1>1. CASE QueuesStay
  <2>1. queue' = queue BY <1>1 DEF QueuesStay
  <2>2. ASSUME NEW e \in Employees, NEW i \in DOMAIN queue[e] PROVE RequestSound(e, queue[e][i])'
    <3>1. PICK r \in Requests : r = queue[e][i] BY <1>r
    <3>2. RequestSound(e, r) /\ (r.waiter # None => thread'[r.waiter] = thread[r.waiter])
      BY <1>r, <1>1, <3>1 DEF QueuesStay
    <3> QED BY <1>k, <2>1, <3>1, <3>2
  <2> QED BY <1>q, <1>r, <2>1, <2>2 DEF RequestsSound
<1>2. ASSUME NEW t \in Threads, Sends(t) PROVE queue' \in [Employees -> Seq(Requests)] /\ RequestsSound'
  <2>1. PICK f \in Employees : f = EmployeeOf[thread[t].card]
    BY <1>2, OutboxAssumption DEF Sends, ThreadsSound, ThreadSound
  <2>2. PICK m \in Requests : m = Request(t) BY <1>2, RequestTyped DEF Sends
  <2>3. /\ queue' = [queue EXCEPT ![f] = Append(queue[f], m)] /\ OthersStay(t)
        /\ thread[t].pc = "call" /\ thread'[t] = [thread[t] EXCEPT !.pc = "wait"]
    BY <1>2, <2>1, <2>2 DEF Sends
  <2>4. queue' \in [Employees -> Seq(Requests)] BY <1>q, <2>3
  <2>5. \A e \in Employees \ {f} : queue'[e] = queue[e] BY <1>q, <2>3
  <2>6. /\ queue[f] \in Seq(Requests) /\ queue'[f] = Append(queue[f], m) /\ Len(queue[f]) \in Nat
        /\ DOMAIN queue[f] = 1..Len(queue[f]) /\ DOMAIN queue'[f] = 1..(Len(queue[f]) + 1)
        /\ \A i \in DOMAIN queue[f] : queue'[f][i] = queue[f][i]
        /\ queue'[f][Len(queue[f]) + 1] = m
    BY <1>q, <2>3
  <2>7. ASSUME NEW e \in Employees, NEW i \in DOMAIN queue'[e]
        PROVE  (i \in DOMAIN queue[e] /\ queue'[e][i] = queue[e][i]) \/ (e = f /\ i = Len(queue[f]) + 1)
    <3>1. CASE e # f BY <2>5, <3>1, <2>7
    <3>2. CASE e = f
      <4>1. i \in 1..(Len(queue[f]) + 1) BY <2>6, <2>7, <3>2
      <4>2. i \in 1..Len(queue[f]) \/ i = Len(queue[f]) + 1 BY <2>6, <4>1
      <4> QED BY <2>6, <3>2, <4>2
    <3> QED BY <3>1, <3>2
  <2>8. ASSUME NEW e \in Employees, NEW i \in DOMAIN queue[e]
        PROVE  queue[e][i].waiter # None => queue[e][i].waiter # t
    BY <1>r, <2>3
  <2>9. m.waiter = t BY <2>2 DEF Request
  <2>10. ASSUME NEW i, queue'[f][i] = m PROVE RequestSound(f, queue[f][i])'
    <3>1. /\ thread[t].card \in Cards /\ thread[t].ver \in Versions /\ thread[t] \in Places
          /\ effect[thread[t].card][thread[t].ver] \in Shown
          /\ thread[t].bound # 0 => posts[thread[t].card] # {}
      BY <2>3, RequestTyped DEF ThreadsSound, ThreadSound, Inside, Marked, Shapes
    <3>2. /\ thread'[t].pc = "wait" /\ thread'[t].card = thread[t].card /\ thread'[t].ver = thread[t].ver
      BY <2>3, <3>1 DEF Places
    <3>3. m.card = thread[t].card /\ m.ver = thread[t].ver /\ m.create = (thread[t].bound = 0)
      BY <2>2 DEF Request
    <3>4. effect'[m.card][m.ver] \in Shown BY <3>1, <3>3, EffectsGrow
    <3>5. m.create \/ posts'[m.card] # {} BY <3>1, <3>3, PostsGrow
    <3>6. RequestSound(f, m)' BY <2>1, <2>9, <3>2, <3>3, <3>4, <3>5 DEF RequestSound
    <3> QED BY <2>10, <3>6 DEF RequestSound
  <2>11. ASSUME NEW e \in Employees, NEW i \in DOMAIN queue'[e] PROVE RequestSound(e, queue[e][i])'
    <3>1. CASE i \in DOMAIN queue[e] /\ queue'[e][i] = queue[e][i]
      <4>1. PICK r \in Requests : r = queue[e][i] BY <1>r, <3>1
      <4>2. RequestSound(e, r) /\ (r.waiter # None => thread'[r.waiter] = thread[r.waiter])
        BY <1>r, <2>3, <2>8, <3>1, <4>1 DEF OthersStay
      <4> QED BY <1>k, <3>1, <4>1, <4>2
    <3>2. CASE e = f /\ i = Len(queue[f]) + 1 BY <2>6, <2>10, <3>2
    <3> QED BY <2>7, <3>1, <3>2
  <2>12. ASSUME NEW e \in Employees, NEW i \in DOMAIN queue'[e], NEW j \in DOMAIN queue'[e],
                queue'[e][i].waiter = queue'[e][j].waiter, queue'[e][i].waiter # None
         PROVE  i = j
    BY <1>r, <2>6, <2>7, <2>8, <2>9, <2>12
  <2> QED BY <2>4, <2>11, <2>12 DEF RequestsSound
<1>3. ASSUME NEW t \in Threads, GivesUp(t) PROVE queue' \in [Employees -> Seq(Requests)] /\ RequestsSound'
  <2> DEFINE Mask(r) == IF r.waiter = t THEN [r EXCEPT !.waiter = None] ELSE r
  <2>1. ASSUME NEW e \in Employees
        PROVE  /\ DOMAIN queue'[e] = DOMAIN queue[e] /\ queue'[e] = [i \in 1..Len(queue[e]) |-> Mask(queue[e][i])]
               /\ \A i \in DOMAIN queue[e] : queue'[e][i] = Mask(queue[e][i])
    BY <1>3, <1>q DEF GivesUp
  <2>2. ASSUME NEW r \in Requests
        PROVE  /\ Mask(r) \in Requests /\ Mask(r).card = r.card /\ Mask(r).ver = r.ver
               /\ Mask(r).create = r.create
               /\ Mask(r).waiter # None => Mask(r).waiter = r.waiter /\ r.waiter # t
    BY DEF Requests
  <2> HIDE DEF Mask
  <2>3. queue' \in [Employees -> Seq(Requests)]
    <3>1. ASSUME NEW e \in Employees PROVE queue'[e] \in Seq(Requests)
      <4>1. PICK n \in Nat : n = Len(queue[e]) BY <1>q
      <4>2. \A i \in 1..n : Mask(queue[e][i]) \in Requests BY <1>q, <2>2, <4>1
      <4>3. queue'[e] \in [1..n -> Requests] BY <2>1, <4>1, <4>2
      <4> QED BY <4>3
    <3>2. queue' = [e \in Employees |-> queue'[e]] BY <1>3 DEF GivesUp
    <3> QED BY <3>1, <3>2
  <2>4. ASSUME NEW e \in Employees, NEW i \in DOMAIN queue'[e] PROVE RequestSound(e, queue[e][i])'
    <3>1. PICK q \in Requests : q = queue[e][i] BY <1>r, <2>1
    <3>2. PICK r \in Requests : r = Mask(q) BY <2>2
    <3>3. queue'[e][i] = r BY <2>1, <3>1, <3>2
    <3>4. RequestSound(e, q) BY <1>r, <2>1, <3>1
    <3>5. RequestSound(e, r) BY <2>2, <3>2, <3>4 DEF RequestSound
    <3>6. r.waiter # None => thread'[r.waiter] = thread[r.waiter]
      BY <1>3, <1>r, <2>1, <2>2, <3>1, <3>2 DEF GivesUp, OthersStay
    <3> QED BY <1>k, <3>3, <3>5, <3>6
  <2>5. ASSUME NEW e \in Employees, NEW i \in DOMAIN queue'[e], NEW j \in DOMAIN queue'[e],
               queue'[e][i].waiter = queue'[e][j].waiter, queue'[e][i].waiter # None
        PROVE  i = j
    <3>1. i \in DOMAIN queue[e] /\ j \in DOMAIN queue[e] BY <2>1
    <3>2. queue[e][i] \in Requests /\ queue[e][j] \in Requests BY <1>r, <3>1
    <3>3. queue'[e][i] = Mask(queue[e][i]) /\ queue'[e][j] = Mask(queue[e][j]) BY <2>1, <3>1
    <3>4. queue[e][i].waiter = queue[e][j].waiter /\ queue[e][i].waiter # None BY <2>2, <2>5, <3>2, <3>3
    <3> QED BY <1>r, <3>1, <3>4
  <2> QED BY <2>3, <2>4, <2>5 DEF RequestsSound
<1>4. ASSUME NEW f \in Employees, Takes(f) PROVE queue' \in [Employees -> Seq(Requests)] /\ RequestsSound'
  <2>1. queue[f] # <<>> /\ queue' = [queue EXCEPT ![f] = Tail(queue[f])] /\ OthersStay(Head(queue[f]).waiter)
    BY <1>4 DEF Takes
  <2>2. /\ Head(queue[f]) = queue[f][1] /\ 1 \in DOMAIN queue[f] /\ Tail(queue[f]) \in Seq(Requests)
        /\ \A i \in DOMAIN Tail(queue[f]) :
               i + 1 \in DOMAIN queue[f] /\ i + 1 # 1 /\ Tail(queue[f])[i] = queue[f][i + 1]
        /\ \A i, j \in DOMAIN Tail(queue[f]) : i + 1 = j + 1 => i = j
    BY <2>1, HeadFacts
  <2>3. queue' \in [Employees -> Seq(Requests)] /\ queue'[f] = Tail(queue[f])
        /\ \A e \in Employees \ {f} : queue'[e] = queue[e]
    BY <1>q, <2>1, <2>2
  <2>4. ASSUME NEW e \in Employees, NEW i \in DOMAIN queue'[e]
        PROVE  \E k \in DOMAIN queue[e] : queue'[e][i] = queue[e][k] /\ (e = f => k = i + 1 /\ k # 1) /\ (e # f => k = i)
    <3>1. CASE e = f
      <4>1. i + 1 \in DOMAIN queue[e] /\ i + 1 # 1 /\ queue'[e][i] = queue[e][i + 1] BY <2>2, <2>3, <3>1
      <4> QED BY <3>1, <4>1
    <3>2. CASE e # f BY <2>3, <3>2
    <3> QED BY <3>1, <3>2
  <2>5. ASSUME NEW e \in Employees, NEW k \in DOMAIN queue[e], e = f => k # 1, queue[e][k].waiter # None
        PROVE  thread'[queue[e][k].waiter] = thread[queue[e][k].waiter]
    <3>1. queue[e][k].waiter \in Threads /\ EmployeeOf[thread[queue[e][k].waiter].card] = e BY <1>r, <2>5
    <3>2. queue[e][k].waiter # queue[f][1].waiter BY <1>r, <2>2, <2>5, <3>1
    <3> QED BY <2>1, <2>2, <3>1, <3>2 DEF OthersStay
  <2>6. ASSUME NEW e \in Employees, NEW i \in DOMAIN queue'[e] PROVE RequestSound(e, queue[e][i])'
    <3>1. PICK k \in DOMAIN queue[e] : queue'[e][i] = queue[e][k] /\ (e = f => k # 1) BY <2>4
    <3>2. PICK r \in Requests : r = queue[e][k] BY <1>r
    <3>3. RequestSound(e, r) /\ (r.waiter # None => thread'[r.waiter] = thread[r.waiter])
      BY <1>r, <2>5, <3>1, <3>2
    <3> QED BY <1>k, <3>1, <3>2, <3>3
  <2>7. ASSUME NEW e \in Employees, NEW i \in DOMAIN queue'[e], NEW j \in DOMAIN queue'[e],
               queue'[e][i].waiter = queue'[e][j].waiter, queue'[e][i].waiter # None
        PROVE  i = j
    <3>1. PICK k \in DOMAIN queue[e] : queue'[e][i] = queue[e][k] /\ (e = f => k = i + 1) /\ (e # f => k = i) BY <2>4
    <3>2. PICK l \in DOMAIN queue[e] : queue'[e][j] = queue[e][l] /\ (e = f => l = j + 1) /\ (e # f => l = j) BY <2>4
    <3>3. k = l BY <1>r, <2>7, <3>1, <3>2
    <3> QED BY <2>2, <2>3, <3>1, <3>2, <3>3
  <2> QED BY <2>3, <2>6, <2>7 DEF RequestsSound
<1>5. CASE queue' = [e \in Employees |-> <<>>]
  <2>1. \A e \in Employees : queue'[e] = <<>> /\ DOMAIN queue'[e] = {} BY <1>5
  <2>2. RequestsSound' BY <2>1 DEF RequestsSound
  <2>3. queue' \in [Employees -> Seq(Requests)] BY <1>5
  <2> QED BY <2>2, <2>3
<1> QED BY <1>1, <1>2, <1>3, <1>4, <1>5, StepQueues DEF QueueMoves

-----------------------------------------------------------------------------
(***************************************************************************)
(* Snapshots                                                               *)
(***************************************************************************)

\* One snapshot is added to a card that is not finished ...
Adds(c, s) ==
    /\ AppendSnapshot(c, s) /\ ~Terminal(c)
    /\ s = "QUEUED" => snaps[c] = <<>>
    /\ s = "RUNNING" => snaps[c] # <<>> /\ Latest(c) = "QUEUED"
    /\ s \in Done /\ c \in Attempts => fact[c] = s
    /\ UNCHANGED <<fact, tombs, effect>>

\* ... or the result of an attempt is committed ...
Ends(a, s) ==
    fact[a] = None /\ fact' = [fact EXCEPT ![a] = s] /\ UNCHANGED <<snaps, tombs, effect>>

\* ... or an old version is collected.
Drops(c, v) ==
    /\ Terminal(c) /\ v < Len(snaps[c]) /\ Active(c) = {}
    /\ tombs' = [tombs EXCEPT ![c] = @ \cup {v}]
    /\ UNCHANGED <<snaps, fact, effect>>

CardMoves ==
    \/ UNCHANGED <<snaps, fact, tombs>>
    \/ \E c \in Cards, s \in CardStates : Adds(c, s)
    \/ \E a \in Attempts, s \in Done : Ends(a, s)
    \/ \E c \in Cards, v \in Versions : Drops(c, v)

\* These are the steps of the journal that are about a card.
LEMMA StepCards ==
    ASSUME Shapes, Story, [Next]_vars
    PROVE  CardMoves
<1>s. CASE UNCHANGED <<snaps, fact, tombs>> BY <1>s DEF CardMoves
<1>q. "QUEUED" \in CardStates /\ "RUNNING" \in CardStates /\ "QUEUED" \notin Done /\ "RUNNING" \notin Done
      /\ "QUEUED" # "RUNNING" /\ "COMPLETED" \in Done /\ "ACTION_REQUIRED" \in Done
      /\ Done \subseteq CardStates
  BY DEF CardStates, Done
<1>1. ASSUME NEW a \in Attempts, Work(a) PROVE CardMoves
  <2>c. a \in Cards BY DEF Cards
  <2>1. CASE Dispatch(a) BY <1>s, <2>1 DEF Dispatch
  <2>2. CASE Progress(a)
    <3>1. CASE snaps[a] = <<>> /\ AppendSnapshot(a, "QUEUED")
      <4>1. Adds(a, "QUEUED") BY <1>q, <2>2, <3>1 DEF Adds, Progress, Terminal
      <4> QED BY <1>q, <2>c, <4>1 DEF CardMoves
    <3>2. CASE snaps[a] = <<"QUEUED">> /\ AppendSnapshot(a, "RUNNING")
      <4>1. snaps[a] # <<>> /\ Latest(a) = "QUEUED" BY <3>2 DEF Latest
      <4>2. Adds(a, "RUNNING") BY <1>q, <2>2, <3>2, <4>1 DEF Adds, Progress, Terminal
      <4> QED BY <1>q, <2>c, <4>2 DEF CardMoves
    <3> QED BY <2>2, <3>1, <3>2 DEF Progress
  <2>3. CASE Finalize(a)
    <3>1. PICK s \in Results : fact' = [fact EXCEPT ![a] = s] BY <2>3 DEF Finalize
    <3>2. s \in Done BY OutboxAssumption
    <3>3. Ends(a, s) BY <2>3, <3>1 DEF Ends, Finalize
    <3> QED BY <3>2, <3>3 DEF CardMoves
  <2>4. CASE Report(a)
    <3>1. /\ NextCard(a) \in CardStates
          /\ NextCard(a) = "QUEUED" => snaps[a] = <<>>
          /\ NextCard(a) = "RUNNING" => snaps[a] # <<>> /\ Latest(a) = "QUEUED"
          /\ NextCard(a) \in Done => NextCard(a) = fact[a]
      BY <2>4, NextCardFacts DEF Report
    <3>2. Adds(a, NextCard(a)) BY <2>4, <3>1 DEF Adds, Report
    <3> QED BY <2>c, <3>1, <3>2 DEF CardMoves
  <2> QED BY <1>1, <2>1, <2>2, <2>3, <2>4 DEF Work
<1>2. ASSUME NEW c \in Controls, Receive(c) \/ Respond(c) \/ Dispose(c) PROVE CardMoves
  <2>c. c \in Cards /\ c \notin Attempts BY OutboxAssumption DEF Cards
  <2>1. CASE Receive(c)
    <3>1. Adds(c, "QUEUED") BY <1>q, <2>c, <2>1 DEF Adds, Receive, Terminal
    <3> QED BY <1>q, <2>c, <3>1 DEF CardMoves
  <2>2. CASE Respond(c)
    <3>1. ASSUME NEW s \in {"COMPLETED", "ACTION_REQUIRED"}, AppendSnapshot(c, s) PROVE CardMoves
      <4>1. s \in CardStates /\ s # "QUEUED" /\ s # "RUNNING" BY <1>q
      <4>2. Adds(c, s) BY <2>c, <2>2, <3>1, <4>1 DEF Adds, Respond
      <4> QED BY <2>c, <4>1, <4>2 DEF CardMoves
    <3> QED BY <2>2, <3>1 DEF Respond, Replies
  <2>3. CASE Dispose(c) BY <1>s, <2>3 DEF Dispose
  <2> QED BY <1>2, <2>1, <2>2, <2>3
<1>3. ASSUME NEW t, Drain(t) \/ Record(t) \/ Timeout(t) PROVE UNCHANGED <<snaps, fact, tombs>>
  BY <1>3 DEF Drain, Record, Timeout, durable
<1>4. ASSUME NEW t, NEW a, Publish(t, a) PROVE UNCHANGED <<snaps, fact, tombs>> BY <1>4 DEF Publish, durable
<1>5. ASSUME NEW t, Deliver(t) PROVE UNCHANGED <<snaps, fact, tombs>>
  BY <1>5 DEF Deliver, Prepare, Mark, Read, Call, CommitDelivery, Raise, durable
<1>6. ASSUME NEW c \in Cards, NEW v \in Versions, Collect(c, v) PROVE CardMoves
  <2>1. Drops(c, v) BY <1>6 DEF Collect, Drops
  <2> QED BY <2>1 DEF CardMoves
<1>7. ASSUME NEW e, Answer(e) \/ Refuse(e) \/ Reconnecting(e) \/ Ready(e)
      PROVE  UNCHANGED <<snaps, fact, tombs>>
  BY <1>7 DEF Answer, Refuse, Reconnecting, Ready, durable
<1>8. CASE Loop \/ Abandon \/ Boot \/ Crash \/ UNCHANGED vars
  BY <1>s, <1>8 DEF Loop, Abandon, Boot, Crash, vars, durable
<1> QED BY <1>s, <1>1, <1>2, <1>3, <1>4, <1>5, <1>6, <1>7, <1>8 DEF Next

\* A card's versions stay in their order, a finished card stays as it is, and
\* it says what the journal says of the attempt.
LEMMA CardsStep ==
    ASSUME Shapes, Story, CardMatchesFact, [Next]_vars
    PROVE  /\ snaps' \in [Cards -> Seq(CardStates)] /\ fact' \in [Attempts -> Done \cup {None}]
           /\ tombs' \in [Cards -> SUBSET Versions]
           /\ Story' /\ CardMatchesFact'
           /\ \A c \in Cards : snaps[c] # <<>> => snaps'[c] # <<>>
<1>t. /\ snaps \in [Cards -> Seq(CardStates)] /\ fact \in [Attempts -> Done \cup {None}]
      /\ tombs \in [Cards -> SUBSET Versions]
  BY DEF Shapes
<1>s. ASSUME UNCHANGED snaps PROVE Story' /\ \A c \in Cards : snaps[c] # <<>> => snaps'[c] # <<>>
  BY <1>s DEF Story, Latest
<1>a. Attempts \subseteq Cards BY DEF Cards
<1>1. CASE UNCHANGED <<snaps, fact, tombs>>
  BY <1>1, <1>s, <1>t DEF CardMatchesFact, Terminal, Latest
<1>2. ASSUME NEW c \in Cards, NEW s \in CardStates, Adds(c, s)
      PROVE  /\ snaps' \in [Cards -> Seq(CardStates)] /\ Story' /\ CardMatchesFact'
             /\ \A d \in Cards : snaps[d] # <<>> => snaps'[d] # <<>>
  <2>1. /\ snaps' \in [Cards -> Seq(CardStates)]
        /\ \A d \in Cards \ {c} : snaps'[d] = snaps[d]
        /\ Len(snaps'[c]) = Len(snaps[c]) + 1
        /\ snaps'[c] # <<>> /\ snaps'[c][Len(snaps'[c])] = s
        /\ snaps[c] = <<>> => s = "QUEUED" /\ Len(snaps'[c]) = 1
    BY <1>2, AppendFacts DEF Adds
  <2>2. snaps[c] # <<>> => Latest(c) \in {"QUEUED", "RUNNING"} BY <1>2, Unfinished DEF Adds
  <2>3. snaps[c] # <<>> => /\ Latest(c) = "QUEUED" => Len(snaps[c]) = 1
                           /\ Latest(c) = "RUNNING" => Len(snaps[c]) = 2
    BY DEF Story
  <2>4. /\ Len(snaps'[c]) <= 3 /\ (s = "QUEUED" => Len(snaps'[c]) = 1) /\ (s = "RUNNING" => Len(snaps'[c]) = 2)
    <3>1. /\ s = "QUEUED" => snaps[c] = <<>>
          /\ s = "RUNNING" => snaps[c] # <<>> /\ Latest(c) = "QUEUED"
      BY <1>2 DEF Adds
    <3>2. CASE snaps[c] = <<>> BY <2>1, <3>2
    <3>3. CASE snaps[c] # <<>> /\ Latest(c) = "QUEUED"
      <4>0. Len(snaps[c]) = 1 BY <2>3, <3>3
      <4>1. Len(snaps'[c]) = 2
        <5>1. Len(snaps'[c]) = Len(snaps[c]) + 1 BY <2>1
        <5> QED BY <4>0, <5>1
      <4> QED BY <3>1, <3>3, <4>1
    <3>4. CASE snaps[c] # <<>> /\ Latest(c) = "RUNNING"
      <4>0. Len(snaps[c]) = 2 BY <2>3, <3>4
      <4>1. Len(snaps'[c]) = 3
        <5>1. Len(snaps'[c]) = Len(snaps[c]) + 1 BY <2>1
        <5> QED BY <4>0, <5>1
      <4> QED BY <3>1, <3>4, <4>1
    <3> QED BY <2>2, <3>2, <3>3, <3>4
  <2>5. Latest(c)' = s BY <2>1 DEF Latest
  <2>6. \A d \in Cards \ {c} : Latest(d)' = Latest(d) /\ Terminal(d)' = Terminal(d) BY <2>1 DEF Latest, Terminal
  <2>7. Story'
    <3>1. ASSUME NEW d \in Cards
          PROVE  /\ Len(snaps'[d]) <= 3
                 /\ snaps'[d] # <<>> /\ Latest(d)' = "QUEUED" => Len(snaps'[d]) = 1
                 /\ snaps'[d] # <<>> /\ Latest(d)' = "RUNNING" => Len(snaps'[d]) = 2
      <4>1. CASE d = c BY <2>4, <2>5, <4>1
      <4>2. CASE d # c
        <5>1. snaps'[d] = snaps[d] /\ Latest(d)' = Latest(d) BY <2>1, <2>6, <4>2
        <5> QED BY <5>1 DEF Story
      <4> QED BY <4>1, <4>2
    <3> QED BY <3>1 DEF Story
  <2>8. CardMatchesFact'
    <3>1. fact' = fact BY <1>2 DEF Adds
    <3>2. c \in Attempts /\ Terminal(c)' => Latest(c)' = fact[c] BY <1>2, <2>5 DEF Adds, Terminal
    <3> QED BY <1>a, <2>6, <3>1, <3>2 DEF CardMatchesFact
  <2> QED BY <2>1, <2>7, <2>8
<1>3. ASSUME NEW a \in Attempts, NEW s \in Done, Ends(a, s)
      PROVE  fact' \in [Attempts -> Done \cup {None}] /\ CardMatchesFact'
  <2>1. ~Terminal(a) BY <1>3, OutboxAssumption DEF Ends, CardMatchesFact, Terminal
  <2>2. fact' = [fact EXCEPT ![a] = s] /\ snaps' = snaps BY <1>3 DEF Ends
  <2>3. fact' \in [Attempts -> Done \cup {None}] /\ \A b \in Attempts \ {a} : fact'[b] = fact[b] BY <1>t, <2>2
  <2> QED BY <2>1, <2>2, <2>3 DEF CardMatchesFact, Terminal, Latest
<1>4. ASSUME NEW c \in Cards, NEW v \in Versions, Drops(c, v)
      PROVE  tombs' \in [Cards -> SUBSET Versions] /\ CardMatchesFact'
  <2>1. snaps' = snaps /\ fact' = fact /\ tombs' = [tombs EXCEPT ![c] = tombs[c] \cup {v}]
    BY <1>4 DEF Drops
  <2>2. tombs' \in [Cards -> SUBSET Versions] BY <1>t, <2>1
  <2> QED BY <2>1, <2>2 DEF CardMatchesFact, Terminal, Latest
<1>5. CASE \E c \in Cards, s \in CardStates : Adds(c, s) BY <1>2, <1>5, <1>t DEF Adds
<1>6. CASE \E a \in Attempts, s \in Done : Ends(a, s) BY <1>s, <1>3, <1>6, <1>t DEF Ends
<1>7. CASE \E c \in Cards, v \in Versions : Drops(c, v) BY <1>s, <1>4, <1>7, <1>t DEF Drops
<1> QED BY <1>1, <1>5, <1>6, <1>7, StepCards DEF CardMoves

\* Nothing that is still to be delivered is collected.
LEMMA CollectedStep ==
    ASSUME Shapes, Story, ThreadsSound, Collected, [Next]_vars
    PROVE  Collected'
<1>t. /\ snaps \in [Cards -> Seq(CardStates)] /\ tombs \in [Cards -> SUBSET Versions]
      /\ effect \in [Cards -> [Versions -> EffectStates]]
  BY DEF Shapes
<1>1. CASE UNCHANGED <<snaps, tombs>>
  <2>1. ASSUME NEW d \in Cards, NEW w \in tombs[d] PROVE w \notin Active(d)'
    <3>1. w \in Versions /\ w \notin Active(d) BY <1>t DEF Collected
    <3>2. CASE UNCHANGED effect BY <3>1, <3>2 DEF Active
    <3>3. ASSUME NEW c \in Cards, NEW v \in Versions, NewEffect(c, v) \/ Executes(c, v) \/ Commits(c, v)
          PROVE  w \notin Active(d)'
      <4>1. CASE c = d /\ w = v
        <5>1. ~NewEffect(c, v) BY <4>1 DEF NewEffect
        <5>2. ~Executes(c, v) BY <3>1, <4>1 DEF Executes, Active
        <5>3. ~Commits(c, v) BY <3>1, <4>1 DEF Commits, Active
        <5> QED BY <3>3, <5>1, <5>2, <5>3
      <4>2. CASE ~(c = d /\ w = v)
        <5>1. effect'[d][w] = effect[d][w] BY <1>t, <3>1, <3>3, <4>2 DEF NewEffect, Executes, Commits
        <5> QED BY <3>1, <5>1 DEF Active
      <4> QED BY <4>1, <4>2
    <3> QED BY <3>2, <3>3, StepEffects DEF EffectMoves
  <2> QED BY <1>1, <2>1 DEF Collected, Terminal, Latest
<1>2. ASSUME NEW c \in Cards, NEW s \in CardStates, Adds(c, s) PROVE Collected'
  <2>1. \A d \in Cards \ {c} : snaps'[d] = snaps[d] BY <1>2, AppendFacts DEF Adds
  <2>2. tombs[c] = {} BY <1>2 DEF Adds, Collected
  <2>3. tombs' = tombs /\ effect' = effect BY <1>2 DEF Adds
  <2> QED BY <2>1, <2>2, <2>3 DEF Collected, Terminal, Latest, Active
<1>3. ASSUME NEW c \in Cards, NEW v \in Versions, Drops(c, v) PROVE Collected'
  <2>1. /\ snaps' = snaps /\ effect' = effect /\ tombs' = [tombs EXCEPT ![c] = tombs[c] \cup {v}]
        /\ Terminal(c) /\ v < Len(snaps[c]) /\ Active(c) = {}
    BY <1>3 DEF Drops
  <2>2. tombs'[c] = tombs[c] \cup {v} /\ \A d \in Cards \ {c} : tombs'[d] = tombs[d] BY <1>t, <2>1
  <2>3. \A d \in Cards : Active(d)' = Active(d) /\ Terminal(d)' = Terminal(d) BY <2>1 DEF Active, Terminal, Latest
  <2> QED BY <2>1, <2>2, <2>3 DEF Collected
<1> QED BY <1>1, <1>2, <1>3, StepCards DEF CardMoves, Ends

-----------------------------------------------------------------------------
(***************************************************************************)
(* The rest of the state, and the invariant                                *)
(***************************************************************************)

\* A card is created once: dispatch_next() takes a new attempt, and the first
\* snapshot of a control command comes with its place in the order.
LEMMA OrderStep ==
    ASSUME Shapes, Story, CardMatchesFact, OrderedOnce, [Next]_vars
    PROVE  order' \in Seq(Cards) /\ OrderedOnce'
<1>t. order \in Seq(Cards) /\ Len(order) \in Nat /\ DOMAIN order = 1..Len(order)
      /\ \A i \in DOMAIN order : order[i] \in Cards
  BY DEF Shapes
<1>n. \A c \in Cards : snaps[c] # <<>> => snaps'[c] # <<>> BY CardsStep
<1>s. CASE UNCHANGED order BY <1>s, <1>t, <1>n DEF OrderedOnce, IsInjective
<1>a. ASSUME NEW c \in Cards, order' = Append(order, c), \A i \in DOMAIN order : order[i] # c,
             c \in Controls => snaps'[c] # <<>>
      PROVE  order' \in Seq(Cards) /\ OrderedOnce'
  <2>1. /\ order' \in Seq(Cards) /\ DOMAIN order' = 1..(Len(order) + 1)
        /\ order'[Len(order) + 1] = c
        /\ \A i \in DOMAIN order : order'[i] = order[i]
    BY <1>t, <1>a
  <2>2. \A i \in DOMAIN order' : i \in DOMAIN order \/ i = Len(order) + 1 BY <1>t, <2>1
  <2>3. IsInjective(order)' BY <1>a, <2>1, <2>2 DEF OrderedOnce, IsInjective
  <2>4. \A i \in DOMAIN order' : order'[i] \in Controls => snaps'[order'[i]] # <<>>
    BY <1>a, <1>n, <1>t, <2>1, <2>2 DEF OrderedOnce
  <2> QED BY <2>1, <2>3, <2>4 DEF OrderedOnce
<1>1. ASSUME NEW a \in Attempts, Work(a) PROVE order' \in Seq(Cards) /\ OrderedOnce'
  <2>1. CASE Dispatch(a)
    <3>1. a \in Cards /\ a \notin Controls BY OutboxAssumption DEF Cards
    <3>2. order' = Append(order, a) /\ \A i \in DOMAIN order : order[i] # a BY <2>1 DEF Dispatch, ToSet
    <3> QED BY <1>a, <3>1, <3>2
  <2>2. CASE Progress(a) \/ Finalize(a) \/ Report(a) BY <1>s, <2>2 DEF Progress, Finalize, Report
  <2> QED BY <1>1, <2>1, <2>2 DEF Work
<1>2. ASSUME NEW c \in Controls, Receive(c) \/ Respond(c) \/ Dispose(c)
      PROVE  order' \in Seq(Cards) /\ OrderedOnce'
  <2>1. CASE Receive(c)
    <3>1. c \in Cards /\ order' = Append(order, c) BY <2>1 DEF Cards, Receive
    <3>2. \A i \in DOMAIN order : order[i] # c BY <2>1 DEF Receive, OrderedOnce
    <3>3. "QUEUED" \in CardStates BY DEF CardStates
    <3>4. snaps'[c] # <<>> BY <2>1, <3>1, <3>3, AppendFacts DEF Receive
    <3> QED BY <1>a, <3>1, <3>2, <3>4
  <2>2. CASE Respond(c) \/ Dispose(c) BY <1>s, <2>2 DEF Respond, Dispose
  <2> QED BY <1>2, <2>1, <2>2
<1>3. ASSUME NEW t, Drain(t) \/ Record(t) \/ Timeout(t) PROVE UNCHANGED order
  BY <1>3 DEF Drain, Record, Timeout, durable
<1>4. ASSUME NEW t, NEW a, Publish(t, a) PROVE UNCHANGED order BY <1>4 DEF Publish, durable
<1>5. ASSUME NEW t, Deliver(t) PROVE UNCHANGED order
  BY <1>5 DEF Deliver, Prepare, Mark, Read, Call, CommitDelivery, Raise, durable
<1>6. ASSUME NEW c, NEW v, Collect(c, v) PROVE UNCHANGED order BY <1>6 DEF Collect
<1>7. ASSUME NEW e, Answer(e) \/ Refuse(e) \/ Reconnecting(e) \/ Ready(e) PROVE UNCHANGED order
  BY <1>7 DEF Answer, Refuse, Reconnecting, Ready, durable
<1>8. CASE Loop \/ Abandon \/ Boot \/ Crash \/ UNCHANGED vars
  BY <1>s, <1>8 DEF Loop, Abandon, Boot, Crash, vars, durable
<1> QED BY <1>s, <1>1, <1>2, <1>3, <1>4, <1>5, <1>6, <1>7, <1>8 DEF Next

\* The variables that only name things.
Plain ==
    /\ disposed \subseteq Controls /\ published \subseteq Attempts
    /\ current \in Attempts \cup {None} /\ up \subseteq Employees /\ faults \in 0..MaxFaults

\* They keep their types.
LEMMA PlainStep ==
    ASSUME Shapes, ThreadsSound, RequestsSound, [Next]_vars
    PROVE  Plain'
<1>t. Plain BY DEF Shapes, Plain
<1>f. ASSUME faults < MaxFaults, faults' = faults + 1 PROVE faults' \in 0..MaxFaults
  BY <1>t, <1>f, OutboxAssumption DEF Plain
<1>l. ASSUME NEW t, NEW r, Leave(t, r) PROVE UNCHANGED current BY <1>l DEF Leave
<1>1. ASSUME NEW a \in Attempts, Work(a) PROVE Plain'
  BY <1>t, <1>1 DEF Plain, Work, Dispatch, Progress, Finalize, Report, worker, channel
<1>2. ASSUME NEW c \in Controls, Receive(c) \/ Respond(c) \/ Dispose(c) PROVE Plain'
  BY <1>t, <1>2 DEF Plain, Receive, Respond, Dispose, worker, channel
<1>3. ASSUME NEW t, Drain(t) PROVE Plain'
  BY <1>t, <1>l, <1>3 DEF Plain, Drain, durable, channel, worker
<1>4. ASSUME NEW t, NEW a, Publish(t, a) PROVE Plain'
  BY <1>t, <1>4 DEF Plain, Publish, durable, channel, worker
<1>5. ASSUME NEW t \in Publishers, Record(t) PROVE Plain'
  <2>1. thread[t].card \in Attempts BY <1>5 DEF Record, ThreadsSound, ThreadSound, Threads
  <2> QED BY <1>t, <1>5, <2>1 DEF Plain, Record, channel, worker
<1>6. ASSUME NEW t, Deliver(t) PROVE Plain'
  <2>1. CASE Prepare(t) BY <1>t, <1>l, <2>1 DEF Plain, Prepare, channel, worker
  <2>2. CASE Mark(t) BY <1>t, <1>l, <2>2 DEF Plain, Mark, channel, worker
  <2>3. CASE Read(t) BY <1>t, <1>l, <2>3 DEF Plain, Read, durable, channel, worker
  <2>4. CASE Call(t) BY <1>t, <1>l, <2>4 DEF Plain, Call, durable, worker
  <2>5. CASE CommitDelivery(t) BY <1>t, <1>l, <2>5 DEF Plain, CommitDelivery, channel, worker
  <2>6. CASE Raise(t) BY <1>t, <1>l, <2>6 DEF Plain, Raise, durable, channel, worker
  <2> QED BY <1>6, <2>1, <2>2, <2>3, <2>4, <2>5, <2>6 DEF Deliver
<1>7. ASSUME NEW t, Timeout(t) PROVE Plain' BY <1>t, <1>f, <1>l, <1>7 DEF Plain, Timeout, durable
<1>8. ASSUME NEW c, NEW v, Collect(c, v) PROVE Plain' BY <1>t, <1>8 DEF Plain, Collect, worker, channel
<1>9. ASSUME NEW e \in Employees, Answer(e) \/ Refuse(e) PROVE Plain'
  BY <1>t, <1>f, <1>l, <1>9 DEF Plain, Answer, Refuse, durable, worker
<1>10. ASSUME NEW e \in Employees, Reconnecting(e) \/ Ready(e) PROVE Plain'
  BY <1>t, <1>f, <1>10 DEF Plain, Reconnecting, Ready, durable, worker
<1>11. CASE Loop \/ Boot \/ UNCHANGED vars
  BY <1>t, <1>11 DEF Plain, Loop, Boot, vars, durable, worker, channel
<1>12. CASE Abandon \/ Crash
  BY <1>t, <1>f, <1>12 DEF Plain, Abandon, Crash, durable, channel
<1> QED BY <1>1, <1>2, <1>3, <1>4, <1>5, <1>6, <1>7, <1>8, <1>9, <1>10, <1>11, <1>12 DEF Next

\* The invariant holds when the process starts with an empty journal ...
LEMMA InitSound == Init => OutboxInv
<1> SUFFICES ASSUME Init PROVE OutboxInv OBVIOUS
<1>1. \A c \in Cards : snaps[c] = <<>> /\ Active(c) = {} /\ ~Terminal(c) /\ tombs[c] = {} /\ binding[c] = 0
  BY DEF Init, Active, Terminal
<1>2. \A t \in Threads : thread[t] = Idle BY DEF Init
<1>3. Shapes
  <2>1. MaxFaults \in Nat BY OutboxAssumption
  <2>2. thread \in [Threads -> Places] BY PlaceTypes DEF Init
  <2> QED BY <2>1, <2>2 DEF Init, Shapes, EffectStates
<1>4. Story BY <1>1 DEF Story
<1>5. OrderedOnce BY DEF Init, OrderedOnce, IsInjective
<1>6. CardMatchesFact /\ Collected /\ EffectsSound /\ BoundPosted
  BY <1>1 DEF CardMatchesFact, Collected, EffectsSound, BoundPosted, Cards
<1>7. ThreadsSound BY <1>2 DEF ThreadsSound, ThreadSound, Idle, Place, Inside, Marked
<1>8. RequestsSound BY DEF Init, RequestsSound
<1>9. AnchoredBeforeShown BY DEF Init, AnchoredBeforeShown
<1> QED BY <1>3, <1>4, <1>5, <1>6, <1>7, <1>8, <1>9 DEF OutboxInv

\* ... and every step keeps it.
LEMMA StepSound == OutboxInv /\ [Next]_vars => OutboxInv'
<1> SUFFICES ASSUME OutboxInv, [Next]_vars PROVE OutboxInv' OBVIOUS
<1> USE DEF OutboxInv
<1>1. EffectsSound' BY EffectsStep
<1>2. BoundPosted' /\ AnchoredBeforeShown' BY BoundStep
<1>3. ThreadsSound' BY ThreadsStep
<1>4. RequestsSound' /\ queue' \in [Employees -> Seq(Requests)] BY RequestsStep
<1>5. Story' /\ CardMatchesFact' BY CardsStep
<1>6. Collected' BY CollectedStep
<1>7. OrderedOnce' BY OrderStep
<1>8. Shapes' BY <1>4, CardsStep, OrderStep, EffectsGrow, PostsGrow, StepMoves, PlainStep DEF Shapes, Plain, AllMove
<1> QED BY <1>1, <1>2, <1>3, <1>4, <1>5, <1>6, <1>7, <1>8

\* The invariant holds in every state.
THEOREM OutboxInvariant == Spec => []OutboxInv
BY InitSound, StepSound, PTL DEF Spec

\* A set of versions without two different ones has at most one.
LEMMA AtMostOne ==
    ASSUME NEW S, \A v, w \in S : v = w
    PROVE  Cardinality(S) <= 1
<1>1. CASE S = {} BY <1>1, FS_EmptySet
<1>2. ASSUME NEW v \in S PROVE Cardinality(S) <= 1
  <2>1. S = {v} BY <1>2
  <2> QED BY <2>1, FS_Singleton
<1> QED BY <1>1, <1>2

\* deliver(): no two deliveries of a card are under way, and a binding names a
\* committed effect, for any number of threads that deliver at once.
THEOREM OneEffectAtATime == Spec => []OneActiveEffect
<1>1. OutboxInv => OneActiveEffect
  BY AtMostOne DEF OutboxInv, EffectsSound, OneActiveEffect
<1> QED BY <1>1, OutboxInvariant, PTL

\* A card is one message, and a binding needs it, whatever crashes, times out
\* or is sent twice: employee_outbox_uuid() names the same message each time.
THEOREM OneMessagePerCard == Spec => []OneMessage
<1>1. OutboxInv => OneMessage
  <2> SUFFICES ASSUME OutboxInv, NEW c \in Cards
               PROVE  Cardinality(posts[c]) <= 1 /\ (binding[c] # 0 => posts[c] # {})
    BY DEF OneMessage
  <2>1. posts[c] \subseteq {1} BY DEF OutboxInv, Shapes
  <2>2. Cardinality(posts[c]) <= 1 BY <2>1, AtMostOne
  <2> QED BY <2>2 DEF OutboxInv, BoundPosted
<1> QED BY <1>1, OutboxInvariant, PTL

\* append_snapshot(), gc_superseded_snapshots() and the Channel: a finished
\* card says what the journal says, what the user sees was anchored before,
\* and what is still to be delivered has not been collected.
THEOREM SnapshotsAreSound == Spec => []SnapshotsSound
<1>1. ASSUME OutboxInv PROVE TypeOK
  <2>1. Shapes /\ Story /\ OrderedOnce BY <1>1 DEF OutboxInv
  <2>2. ASSUME NEW c \in Cards PROVE snaps[c] \in UNION {[1..n -> CardStates] : n \in 0..3}
    <3>1. snaps[c] \in Seq(CardStates) BY <2>1 DEF Shapes
    <3>2. PICK n \in 0..3 : n = Len(snaps[c]) BY <2>1, LatestVersion
    <3>3. snaps[c] \in [1..n -> CardStates] BY <3>1, <3>2
    <3> QED BY <3>3
  <2>3. snaps \in [Cards -> UNION {[1..n -> CardStates] : n \in 0..3}] BY <2>1, <2>2 DEF Shapes
  <2>4. \A t \in Threads : thread[t].ver \in 0..3 /\ thread[t].card \in Cards \cup {None}
    BY <2>1 DEF Shapes, Places
  <2> QED BY <2>1, <2>3, <2>4 DEF TypeOK, Shapes, OrderedOnce, EffectStates
<1>2. ASSUME OutboxInv PROVE LiveSnapshotsKept
  <2>1. ASSUME NEW c \in Cards, NEW v \in tombs[c] PROVE v \notin Active(c) \cup {Len(snaps[c])}
    <3>1. v \notin Active(c) /\ v < Len(snaps[c]) BY <1>2 DEF OutboxInv, Collected
    <3>2. Len(snaps[c]) \in 0..3 BY <1>2, LatestVersion DEF OutboxInv
    <3> QED BY <3>1, <3>2
  <2> QED BY <2>1 DEF LiveSnapshotsKept
<1>3. OutboxInv => SnapshotsSound BY <1>1, <1>2 DEF OutboxInv, SnapshotsSound
<1> QED BY <1>3, OutboxInvariant, PTL
==============================================================================
