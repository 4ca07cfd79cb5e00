---------------------------- MODULE JournalProofs ----------------------------
(***************************************************************************)
(* What Journal promises for any number of processes and transactions.     *)
(*                                                                         *)
(* The invariants the runs check are not inductive: what a commit finds    *)
(* when its fsync or its swap returns depends on what it left at the step  *)
(* before.  Phases says so for every step of a commit; with it, the chain  *)
(* and the anchor, every action keeps every part.                          *)
(*                                                                         *)
(* The second part is about JournalProjections: the steps of the views are *)
(* steps of the journal or leave it alone, so that what was proved of the  *)
(* journal holds under them, and ViewInv says what a view that is behind   *)
(* still agrees with.                                                      *)
(***************************************************************************)
EXTENDS JournalProjections, TLAPS

\* What a process relies on at each step, while it holds the flock.
Phase(p) ==
    /\ pc[p] = "idle" /\ p \notin disabled =>
          ~torn /\ mem[p] = file /\ anchor.seq = Len(file)
    /\ pc[p] = "written" =>
          /\ ~torn /\ Len(file) > 0 /\ anchor.seq = Len(file) - 1
          /\ mem[p] = SubSeq(file, 1, Len(file) - 1)
    /\ pc[p] = "durable" =>
          /\ ~torn /\ Len(file) > 0 /\ anchor.seq = Len(file) - 1
          /\ mem[p] = file /\ synced = Len(file)
    /\ pc[p] = "replaced" =>
          /\ ~torn /\ Len(file) > 0 /\ anchor.seq = Len(file)
          /\ mem[p] = file /\ synced = Len(file)

Phases == \A p \in Procs : Phase(p)

Exclusive == \A p \in Procs : pc[p] # "down" <=> holder = p

\* A writer is only disabled between commits.
DisabledIdle == \A p \in disabled : pc[p] = "idle"

IndInv ==
    /\ TypeOK
    /\ Chained(file)
    /\ AnchorNeverAhead
    /\ AnchoredSurvives
    /\ Exclusive
    /\ DisabledIdle
    /\ Phases
-----------------------------------------------------------------------------
(***************************************************************************)
(* The head of a chain                                                     *)
(***************************************************************************)

\* The head of an unbroken chain carries its length and its last id.
LEMMA HeadOfChain ==
    ASSUME NEW s \in Seq(Frame), Chained(s)
    PROVE  /\ HeadOf(s) \in Anchor
           /\ HeadOf(s).seq = Len(s)
           /\ HeadOf(s).hash = IF Len(s) = 0 THEN Genesis ELSE s[Len(s)].tx
  <1>1. CASE Len(s) = 0
    BY <1>1 DEF HeadOf, Anchor
  <1>2. CASE Len(s) > 0
    <2>1. s[Len(s)] \in Frame /\ s[Len(s)].seq = Len(s)
      BY <1>2 DEF Chained
    <2>2. QED
      BY <1>2, <2>1 DEF HeadOf, Anchor, Frame
  <1>3. QED
    BY <1>1, <1>2

\* The anchor is the head of the file exactly when it has its length.
LEMMA AnchorAtHead ==
    ASSUME IndInv
    PROVE  anchor = HeadOf(file) <=> anchor.seq = Len(file)
  <1>1. file \in Seq(Frame) /\ anchor \in Anchor /\ Chained(file) /\ Names(anchor, synced)
    BY DEF IndInv, TypeOK, AnchorNeverAhead
  <1>2. QED
    BY <1>1, HeadOfChain DEF Names, Anchor

\* A frame sealed on the head of a chain continues it.
LEMMA SealedContinues ==
    ASSUME NEW p \in Procs, NEW x \in Tx, mem[p] \in Seq(Frame), Chained(mem[p])
    PROVE  /\ Append(mem[p], Sealed(p, x)) \in Seq(Frame)
           /\ Chained(Append(mem[p], Sealed(p, x)))
  <1> DEFINE s == mem[p]
             t == Append(s, Sealed(p, x))
  <1>1. /\ HeadOf(s).seq = Len(s) /\ HeadOf(s) \in Anchor
        /\ HeadOf(s).hash = IF Len(s) = 0 THEN Genesis ELSE s[Len(s)].tx
    BY HeadOfChain
  <1>2. /\ Sealed(p, x) \in Frame
        /\ Sealed(p, x).seq = Len(s) + 1
        /\ Sealed(p, x).prev = IF Len(s) = 0 THEN Genesis ELSE s[Len(s)].tx
    BY <1>1 DEF Sealed, Frame, Anchor
  <1>3. /\ t \in Seq(Frame) /\ Len(t) = Len(s) + 1
        /\ t[Len(s) + 1] = Sealed(p, x)
        /\ \A i \in 1..Len(s) : t[i] = s[i]
    BY <1>2
  <1>4. ASSUME NEW i \in 1..Len(s) + 1
        PROVE  t[i].seq = i /\ t[i].prev = IF i = 1 THEN Genesis ELSE t[i - 1].tx
    <2>1. CASE i = Len(s) + 1
      BY <1>2, <1>3, <2>1
    <2>2. CASE i # Len(s) + 1
      <3>1. i \in 1..Len(s) /\ (i # 1 => i - 1 \in 1..Len(s))
        BY <2>2
      <3>2. s[i].seq = i /\ s[i].prev = IF i = 1 THEN Genesis ELSE s[i - 1].tx
        BY <3>1 DEF Chained
      <3>3. QED
        BY <1>3, <3>1, <3>2
    <2>3. QED
      BY <2>1, <2>2
  <1>5. DOMAIN t = 1..Len(s) + 1
    BY <1>3
  <1> HIDE DEF t
  <1>6. Chained(t)
    BY <1>4, <1>5 DEF Chained
  <1>7. QED
    BY <1>3, <1>6 DEF t

-----------------------------------------------------------------------------
(***************************************************************************)
(* The invariant is inductive                                              *)
(***************************************************************************)

\* Nothing but the processes' own state and how much is synced moves.
FileKept ==
    /\ UNCHANGED <<file, anchor, anchorDisk, acked>>
    /\ synced' \in synced..Len(file)

\* Then the chain and the anchor stay as they are.
LEMMA FileKeptSafe ==
    ASSUME IndInv, FileKept
    PROVE  Chained(file)' /\ AnchorNeverAhead' /\ AnchoredSurvives'
  BY DEF IndInv, FileKept, TypeOK, Chained, AnchorNeverAhead, AnchoredSurvives, Names, Anchor

\* Recovery of the tail changes no frame.
LEMMA TruncateKeeps ==
    ASSUME IndInv, Truncate, UNCHANGED <<anchor, anchorDisk, acked>>
    PROVE  FileKept /\ torn' = FALSE /\ synced' \in 0..Len(file)
  <1>1. synced \in 0..Len(file) /\ Len(file) \in Nat
    BY DEF IndInv, TypeOK
  <1>2. synced' = Len(file) \/ synced' = synced
    BY DEF Truncate
  <1>3. synced' \in synced..Len(file) /\ synced' \in 0..Len(file)
    BY ONLY <1>1, <1>2
  <1>4. QED
    BY <1>3 DEF FileKept, Truncate

\* The flock: while a process holds it, every other one is down.
LEMMA OthersDown ==
    ASSUME IndInv, NEW p \in Procs, pc[p] # "down"
    PROVE  holder = p /\ \A q \in Procs \ {p} : pc[q] = "down"
  BY DEF IndInv, Exclusive

\* A process that stops leaves the others as they are.
LEMMA StopSafe ==
    ASSUME IndInv, NEW p \in Procs, pc[p] # "down", Stop(p), FileKept, torn' \in BOOLEAN
    PROVE  IndInv'
  <1>1. holder = p /\ \A q \in Procs \ {p} : pc[q] = "down"
    BY OthersDown
  <1>2. Chained(file)' /\ AnchorNeverAhead' /\ AnchoredSurvives'
    BY FileKeptSafe
  <1>3. TypeOK'
    BY DEF IndInv, TypeOK, Stop, FileKept, PCs
  <1>4. \A q \in Procs : pc'[q] = "down"
    BY <1>1 DEF IndInv, TypeOK, Stop
  <1>5. holder' = None /\ None \notin Procs
    BY <1>1, JournalAssumption DEF Stop
  <1>6. DisabledIdle'
    BY <1>1 DEF IndInv, DisabledIdle, TypeOK, Stop
  <1>7. Exclusive' /\ Phases'
    BY <1>4, <1>5 DEF Exclusive, Phases, Phase
  <1>8. QED
    BY <1>2, <1>3, <1>6, <1>7 DEF IndInv

\* Opening and reading: the flock is taken, and what is recovered is the
\* head the anchor names.
LEMMA OpenSafe ==
    ASSUME IndInv, NEW p \in Procs, TakeLock(p) \/ Opened(p) \/ Refused(p) \/ Replay(p)
    PROVE  IndInv'
  <1>1. CASE TakeLock(p)
    <2> USE <1>1 DEF TakeLock, fileVars, anchorVars
    <2>1. Chained(file)' /\ AnchorNeverAhead' /\ AnchoredSurvives'
      BY FileKeptSafe DEF FileKept, IndInv, TypeOK
    <2>2. TypeOK'
      BY DEF IndInv, TypeOK, PCs
    <2>3. holder = None /\ \A q \in Procs : pc[q] = "down"
      BY JournalAssumption DEF IndInv, Exclusive
    <2>4. disabled = {}
      BY <2>3 DEF IndInv, DisabledIdle, TypeOK
    <2>5. Exclusive' /\ DisabledIdle' /\ Phases'
      BY <2>3, <2>4 DEF IndInv, TypeOK, Exclusive, DisabledIdle, Phases, Phase
    <2>6. QED
      BY <2>1, <2>2, <2>5 DEF IndInv
  <1>2. CASE Opened(p)
    <2> USE <1>2 DEF Opened, anchorVars
    <2>1. FileKept /\ torn' = FALSE /\ synced' \in 0..Len(file)
      BY TruncateKeeps
    <2>2. Chained(file)' /\ AnchorNeverAhead' /\ AnchoredSurvives'
      BY <2>1, FileKeptSafe
    <2>3. TypeOK'
      BY <2>1 DEF FileKept, IndInv, TypeOK, PCs
    <2>4. holder = p /\ \A q \in Procs \ {p} : pc[q] = "down"
      BY OthersDown
    <2>5. anchor.seq = Len(file)
      BY AnchorAtHead
    <2>6. Exclusive' /\ DisabledIdle'
      BY DEF IndInv, TypeOK, Exclusive, DisabledIdle
    <2>7. Phases'
      BY <2>1, <2>4, <2>5 DEF FileKept, IndInv, TypeOK, Phases, Phase
    <2>8. QED
      BY <2>2, <2>3, <2>6, <2>7 DEF IndInv
  <1>3. CASE Refused(p)
    <2>1. CASE Truncate
      BY <1>3, <2>1, TruncateKeeps, StopSafe DEF Refused, anchorVars
    <2>2. CASE UNCHANGED fileVars
      <3>1. FileKept /\ torn' \in BOOLEAN
        BY <1>3, <2>2 DEF Refused, FileKept, fileVars, anchorVars, IndInv, TypeOK
      <3>2. QED
        BY <1>3, <3>1, StopSafe DEF Refused
    <2>3. QED
      BY <1>3, <2>1, <2>2 DEF Refused
  <1>4. CASE Replay(p)
    <2> USE <1>4 DEF Replay, anchorVars
    <2>1. FileKept /\ torn' = FALSE /\ synced' \in 0..Len(file)
      BY TruncateKeeps
    <2>2. Chained(file)' /\ AnchorNeverAhead' /\ AnchoredSurvives'
      BY <2>1, FileKeptSafe
    <2>3. TypeOK'
      BY <2>1 DEF FileKept, IndInv, TypeOK
    <2>4. Exclusive' /\ DisabledIdle'
      BY DEF IndInv, Exclusive, DisabledIdle
    <2>5. holder = p /\ \A q \in Procs \ {p} : pc[q] = "down"
      BY OthersDown
    <2>6. Phases'
      BY <2>1, <2>5 DEF FileKept, IndInv, TypeOK, Phases, Phase
    <2>7. QED
      BY <2>2, <2>3, <2>4, <2>6 DEF IndInv
  <1>5. QED
    BY <1>1, <1>2, <1>3, <1>4

\* The write: the file grows by one frame of the chain.
LEMMA WriteSafe ==
    ASSUME IndInv, NEW p \in Procs, NEW x \in Tx, Write(p, x)
    PROVE  IndInv'
  <1> USE DEF Write, anchorVars
  <1>1. holder = p /\ \A q \in Procs \ {p} : pc[q] = "down"
    BY OthersDown
  <1>2. ~torn /\ mem[p] = file /\ anchor.seq = Len(file)
    BY DEF IndInv, Phases, Phase
  <1>3. file \in Seq(Frame) /\ Chained(file)
    BY DEF IndInv, TypeOK
  <1> DEFINE f == Sealed(p, x)
  <1>4. file' = Append(file, f) /\ file' \in Seq(Frame) /\ Chained(file)'
    <2>1. Append(file, f) \in Seq(Frame) /\ Chained(Append(file, f))
      BY <1>2, <1>3, SealedContinues
    <2>2. file' = Append(file, f)
      BY <1>2
    <2>3. Chained(file)' <=> Chained(Append(file, f))
      BY <2>2 DEF Chained
    <2>4. QED
      BY <2>1, <2>2, <2>3
  <1>5. f \in Frame
    <2>1. HeadOf(mem[p]) \in Anchor
      BY <1>2, <1>3, HeadOfChain
    <2>2. QED
      BY <2>1 DEF Sealed, Frame, Anchor
  <1> HIDE DEF f
  <1>6. /\ Len(file') = Len(file) + 1
        /\ \A i \in 1..Len(file) : file'[i] = file[i]
        /\ SubSeq(file', 1, Len(file)) = file
    BY <1>3, <1>4, <1>5
  <1>7. TypeOK'
    BY <1>4, <1>6 DEF IndInv, TypeOK, PCs
  <1>8. AnchorNeverAhead'
    BY <1>3, <1>6 DEF IndInv, TypeOK, AnchorNeverAhead, Names, Anchor
  <1>9. AnchoredSurvives'
    <2>1. anchorDisk.seq <= Len(file) /\ anchorDisk.seq \in Nat
      BY <1>3 DEF IndInv, TypeOK, AnchorNeverAhead, Names, Anchor
    <2>2. QED
      BY <1>3, <1>6, <2>1 DEF IndInv, AnchoredSurvives
  <1>10. Exclusive' /\ DisabledIdle'
    BY DEF IndInv, TypeOK, Exclusive, DisabledIdle
  <1>11. Phases'
    <2>1. pc'[p] = "written" /\ \A q \in Procs \ {p} : pc'[q] = "down"
      BY <1>1 DEF IndInv, TypeOK
    <2>2. Phase(p)'
      <3>1. Len(file) \in Nat /\ Len(file') - 1 = Len(file) /\ Len(file') > 0
        BY <1>3, <1>6
      <3>2. mem'[p] = file /\ ~torn' /\ anchor'.seq = Len(file)
        BY <1>2
      <3>3. SubSeq(file', 1, Len(file') - 1) = file
        BY <1>6, <3>1
      <3>4. QED
        BY <2>1, <3>1, <3>2, <3>3 DEF Phase
    <2>3. QED
      BY <2>1, <2>2 DEF Phases, Phase
  <1>12. QED
    BY <1>4, <1>7, <1>8, <1>9, <1>10, <1>11 DEF IndInv

\* The failures of the write and the fsyncs, and their success.
LEMMA SyncSafe ==
    ASSUME IndInv, NEW p \in Procs, WriteFails(p) \/ Sync(p) \/ SyncFails(p)
    PROVE  IndInv'
  <1>1. pc[p] # "down"
    BY DEF WriteFails, Sync, SyncFails
  <1>2. holder = p /\ \A q \in Procs \ {p} : pc[q] = "down"
    BY <1>1, OthersDown
  <1>3. FileKept
    <2>1. synced \in 0..Len(file) /\ Len(file) \in Nat
      BY DEF IndInv, TypeOK
    <2>2. synced' \in {synced, Len(file)}
      BY DEF WriteFails, Sync, SyncFails
    <2>3. UNCHANGED <<file, anchor, anchorDisk, acked>>
      BY DEF WriteFails, Sync, SyncFails, anchorVars
    <2>4. synced' \in synced..Len(file)
      BY ONLY <2>1, <2>2
    <2>5. QED
      BY <2>3, <2>4 DEF FileKept
  <1>4. Chained(file)' /\ AnchorNeverAhead' /\ AnchoredSurvives'
    BY <1>3, FileKeptSafe
  <1>5. CASE WriteFails(p)
    <2> USE <1>5 DEF WriteFails, anchorVars
    <2>1. TypeOK'
      BY DEF IndInv, TypeOK
    <2>2. Exclusive' /\ DisabledIdle'
      BY DEF IndInv, Exclusive, DisabledIdle
    <2>3. Phases'
      BY <1>2 DEF IndInv, TypeOK, Phases, Phase
    <2>4. QED
      BY <1>4, <2>1, <2>2, <2>3 DEF IndInv
  <1>6. CASE Sync(p)
    <2> USE <1>6 DEF Sync, anchorVars
    <2>1. /\ file \in Seq(Frame) /\ Len(file) > 0
          /\ ~torn /\ anchor.seq = Len(file) - 1
          /\ mem[p] = SubSeq(file, 1, Len(file) - 1)
      BY DEF IndInv, TypeOK, Phases, Phase
    <2>2. Append(SubSeq(file, 1, Len(file) - 1), file[Len(file)]) = file
      BY <2>1
    <2>3. mem' = [mem EXCEPT ![p] = file]
      BY <2>1, <2>2
    <2>4. TypeOK'
      BY <2>1, <2>3 DEF IndInv, TypeOK, PCs
    <2>5. Exclusive' /\ DisabledIdle'
      BY DEF IndInv, TypeOK, Exclusive, DisabledIdle
    <2>6. Phases'
      BY <1>2, <2>1, <2>3 DEF IndInv, TypeOK, Phases, Phase
    <2>7. QED
      BY <1>4, <2>4, <2>5, <2>6 DEF IndInv
  <1>7. CASE SyncFails(p)
    <2> USE <1>7 DEF SyncFails, anchorVars
    <2>1. TypeOK'
      BY <1>3 DEF IndInv, TypeOK, PCs, FileKept
    <2>2. Exclusive' /\ DisabledIdle'
      BY DEF IndInv, TypeOK, Exclusive, DisabledIdle
    <2>3. Phases'
      BY <1>2 DEF IndInv, TypeOK, Phases, Phase
    <2>4. QED
      BY <1>4, <2>1, <2>2, <2>3 DEF IndInv
  <1>8. QED
    BY <1>5, <1>6, <1>7

\* The swap of the anchor and its fsync, and their failures.
LEMMA SwapSafe ==
    ASSUME IndInv, NEW p \in Procs, Swap(p) \/ SwapFails(p)
    PROVE  IndInv'
  <1>1. /\ pc[p] = "durable" /\ ~torn /\ mem[p] = file /\ Len(file) > 0
        /\ synced = Len(file) /\ anchor.seq = Len(file) - 1
    BY DEF Swap, SwapFails, IndInv, Phases, Phase
  <1>2. holder = p /\ \A q \in Procs \ {p} : pc[q] = "down"
    BY <1>1, OthersDown
  <1>3. CASE Swap(p)
    <2> USE <1>3 DEF Swap, fileVars
    <2>1. file \in Seq(Frame) /\ Chained(file)
      BY DEF IndInv, TypeOK
    <2>2. /\ anchor' \in Anchor /\ anchor'.seq = Len(file)
          /\ anchor'.hash = file[Len(file)].tx
      BY <1>1, <2>1, HeadOfChain
    <2>3. TypeOK'
      BY <2>2 DEF IndInv, TypeOK, PCs
    <2>4. Chained(file)' /\ AnchoredSurvives'
      BY DEF IndInv, Chained, AnchoredSurvives
    <2>5. AnchorNeverAhead'
      BY <1>1, <2>1, <2>2 DEF IndInv, TypeOK, AnchorNeverAhead, Names, Anchor
    <2>6. Exclusive' /\ DisabledIdle'
      BY DEF IndInv, TypeOK, Exclusive, DisabledIdle
    <2>7. Phases'
      BY <1>1, <1>2, <2>2 DEF IndInv, TypeOK, Phases, Phase
    <2>8. QED
      BY <2>3, <2>4, <2>5, <2>6, <2>7 DEF IndInv
  <1>4. CASE SwapFails(p)
    <2> USE <1>4 DEF SwapFails, fileVars, anchorVars
    <2>1. Chained(file)' /\ AnchorNeverAhead' /\ AnchoredSurvives'
      BY FileKeptSafe DEF FileKept, IndInv, TypeOK
    <2>2. TypeOK'
      BY DEF IndInv, TypeOK, PCs
    <2>3. Exclusive' /\ DisabledIdle'
      BY DEF IndInv, TypeOK, Exclusive, DisabledIdle
    <2>4. Phases'
      BY <1>2 DEF IndInv, TypeOK, Phases, Phase
    <2>5. QED
      BY <2>1, <2>2, <2>3, <2>4 DEF IndInv
  <1>5. QED
    BY <1>3, <1>4

\* The fsync of the anchor's directory: the acknowledged frames only grow.
LEMMA ConfirmSafe ==
    ASSUME IndInv, NEW p \in Procs, Confirm(p) \/ ConfirmFails(p)
    PROVE  IndInv'
  <1>1. /\ pc[p] = "replaced" /\ ~torn /\ mem[p] = file /\ Len(file) > 0
        /\ synced = Len(file) /\ anchor.seq = Len(file)
    BY DEF Confirm, ConfirmFails, IndInv, Phases, Phase
  <1>2. holder = p /\ \A q \in Procs \ {p} : pc[q] = "down"
    BY <1>1, OthersDown
  <1>3. UNCHANGED <<file, torn, synced, holder, mem, anchor>> /\ anchorDisk' \in {anchorDisk, anchor}
    BY DEF Confirm, ConfirmFails, fileVars
  <1>4. pc' = [pc EXCEPT ![p] = "idle"]
    BY DEF Confirm, ConfirmFails
  <1>5. file \in Seq(Frame) /\ anchor \in Anchor /\ anchorDisk \in Anchor
    BY DEF IndInv, TypeOK
  <1>6. anchor.hash = file[Len(file)].tx /\ file[Len(file)] \in Frame
    BY <1>1, <1>5 DEF IndInv, AnchorNeverAhead, Names
  <1>7. anchor.hash \in Tx
    BY <1>6 DEF Frame
  <1>8. acked' \subseteq acked \cup {anchor.hash}
    BY DEF Confirm, ConfirmFails
  <1>9. disabled' \subseteq Procs
    BY DEF Confirm, ConfirmFails, IndInv, TypeOK
  <1>10. TypeOK'
    BY <1>3, <1>4, <1>7, <1>8, <1>9 DEF IndInv, TypeOK, PCs
  <1>11. Chained(file)'
    BY <1>3 DEF IndInv, Chained
  <1>12. AnchorNeverAhead'
    BY <1>3, <1>5 DEF IndInv, AnchorNeverAhead, Names, Anchor
  <1>13. AnchoredSurvives'
    <2> SUFFICES ASSUME NEW x \in acked'
                 PROVE  \E i \in 1..anchorDisk'.seq : file[i].tx = x
      BY <1>3 DEF AnchoredSurvives
    <2>1. anchorDisk.seq <= anchorDisk'.seq
      BY <1>3, <1>5 DEF IndInv, AnchorNeverAhead, Anchor
    <2>2. CASE x \in acked
      BY <1>3, <1>5, <2>1, <2>2 DEF IndInv, AnchoredSurvives, Anchor
    <2>3. CASE x \notin acked
      <3>1. x = anchor.hash /\ anchorDisk' = anchor
        BY <2>3 DEF Confirm, ConfirmFails
      <3>2. QED
        BY <1>1, <1>5, <1>6, <3>1
    <2>4. QED
      BY <2>2, <2>3
  <1>14. Exclusive' /\ DisabledIdle'
    <2>1. disabled' \subseteq disabled \cup {p}
      BY DEF Confirm, ConfirmFails
    <2>2. QED
      BY <1>2, <1>3, <1>4, <2>1 DEF IndInv, TypeOK, Exclusive, DisabledIdle
  <1>15. Phases'
    BY <1>1, <1>2, <1>3, <1>4 DEF IndInv, TypeOK, Phases, Phase
  <1>16. QED
    BY <1>10, <1>11, <1>12, <1>13, <1>14, <1>15 DEF IndInv

\* A power loss keeps at least the synced frames, and so what both anchors
\* name.
LEMMA PowerLossSafe ==
    ASSUME IndInv, PowerLoss
    PROVE  IndInv'
  <1>1. PICK n \in synced..Len(file) :
           /\ file' = SubSeq(file, 1, n) /\ synced' = n
           /\ torn' \in {FALSE, torn \/ n < Len(file)}
    BY DEF PowerLoss
  <1>2. /\ anchor' \in {anchor, anchorDisk} /\ anchorDisk' = anchor'
        /\ holder' = None /\ pc' = [p \in Procs |-> "down"]
        /\ mem' = [p \in Procs |-> <<>>] /\ disabled' = {} /\ acked' = acked
    BY DEF PowerLoss
  <1>3. /\ file \in Seq(Frame) /\ synced \in 0..Len(file)
        /\ anchor \in Anchor /\ anchorDisk \in Anchor
    BY DEF IndInv, TypeOK
  <1>4. n \in 0..Len(file) /\ synced <= n
    BY <1>3
  <1>5. /\ file' \in Seq(Frame) /\ Len(file') = n
        /\ \A i \in 1..n : file'[i] = file[i]
    BY <1>1, <1>3, <1>4
  <1>6. TypeOK'
    <2>1. torn' \in BOOLEAN
      BY <1>1
    <2>2. synced' \in 0..Len(file')
      BY <1>1, <1>4, <1>5
    <2>3. <<>> \in Seq(Frame)
      OBVIOUS
    <2>4. QED
      BY <1>2, <1>3, <1>5, <2>1, <2>2, <2>3 DEF IndInv, TypeOK, PCs
  <1>7. Chained(file)'
    <2>1. DOMAIN file' = 1..n
      BY <1>4, <1>5
    <2>2. \A i \in 1..n : i \in DOMAIN file /\ (i # 1 => i - 1 \in 1..n)
      BY <1>3, <1>4
    <2>3. QED
      BY <1>5, <2>1, <2>2 DEF IndInv, Chained
  <1>8. AnchorNeverAhead'
    <2>1. anchor'.seq \in Nat /\ anchor'.seq <= synced /\ anchor' \in Anchor
      BY <1>2, <1>3 DEF IndInv, AnchorNeverAhead, Names, Anchor
    <2>2. anchor'.hash = IF anchor'.seq = 0 THEN Genesis ELSE file[anchor'.seq].tx
      BY <1>2 DEF IndInv, AnchorNeverAhead, Names
    <2>3. anchor'.seq # 0 => anchor'.seq \in 1..n
      BY <1>3, <1>4, <2>1
    <2>4. QED
      BY <1>1, <1>2, <1>4, <1>5, <2>1, <2>2, <2>3 DEF AnchorNeverAhead, Names
  <1>9. AnchoredSurvives'
    <2>1. /\ anchorDisk.seq \in Nat /\ anchorDisk'.seq \in Nat
          /\ anchorDisk.seq <= n /\ anchorDisk.seq <= anchorDisk'.seq
      BY <1>2, <1>3, <1>4 DEF IndInv, AnchorNeverAhead, Names, Anchor
    <2>2. QED
      BY <1>2, <1>4, <1>5, <2>1 DEF IndInv, AnchoredSurvives
  <1>10. Exclusive' /\ DisabledIdle' /\ Phases'
    BY <1>2, JournalAssumption DEF Exclusive, DisabledIdle, Phases, Phase
  <1>11. QED
    BY <1>6, <1>7, <1>8, <1>9, <1>10 DEF IndInv

\* The invariant holds of an empty journal ...
LEMMA InitInv == Init => IndInv
  <1> SUFFICES ASSUME Init PROVE IndInv
    OBVIOUS
  <1> USE DEF Init
  <1>1. TypeOK
    <2>1. file \in Seq(Frame) /\ Len(file) = 0
      OBVIOUS
    <2>2. mem \in [Procs -> Seq(Frame)] /\ synced \in 0..Len(file)
      BY <2>1
    <2>3. anchor \in Anchor /\ anchorDisk \in Anchor
      BY DEF Anchor
    <2>4. QED
      BY <2>1, <2>2, <2>3 DEF TypeOK, PCs
  <1>2. Chained(file) /\ AnchorNeverAhead /\ AnchoredSurvives
    BY DEF Chained, AnchorNeverAhead, AnchoredSurvives, Names
  <1>3. Exclusive /\ DisabledIdle /\ Phases
    BY JournalAssumption DEF Exclusive, DisabledIdle, Phases, Phase
  <1>4. QED
    BY <1>1, <1>2, <1>3 DEF IndInv

\* ... every step keeps it ...
LEMMA StepInv == IndInv /\ [Next]_vars => IndInv'
  <1> SUFFICES ASSUME IndInv, [Next]_vars PROVE IndInv'
    OBVIOUS
  <1>1. CASE PowerLoss
    BY <1>1, PowerLossSafe
  <1>2. ASSUME NEW p \in Procs, Step(p) PROVE IndInv'
    <2>1. ASSUME Close(p) \/ Kill(p) PROVE IndInv'
      <3>1. FileKept /\ torn' \in BOOLEAN /\ Stop(p) /\ pc[p] # "down"
        BY <2>1 DEF Close, Kill, FileKept, fileVars, anchorVars, IndInv, TypeOK
      <3>2. QED
        BY <3>1, StopSafe
    <2>2. QED
      BY <1>2, <2>1, OpenSafe, WriteSafe, SyncSafe, SwapSafe, ConfirmSafe DEF Step
  <1>3. CASE UNCHANGED vars
    BY <1>3 DEF vars, fileVars, anchorVars, IndInv, TypeOK, Chained, AnchorNeverAhead,
                AnchoredSurvives, Names, Exclusive, DisabledIdle, Phases, Phase
  <1>4. QED
    BY <1>1, <1>2, <1>3 DEF Next

\* ... and so it holds in every reachable state.
LEMMA Inductive == Spec => []IndInv
  BY InitInv, StepInv, PTL DEF Spec

-----------------------------------------------------------------------------
(***************************************************************************)
(* The theorems                                                            *)
(***************************************************************************)

\* The writer, the file and the anchor keep their types.
THEOREM TypeCorrect == Spec => []TypeOK
  <1>1. IndInv => TypeOK
    BY DEF IndInv
  <1>2. QED
    BY <1>1, Inductive, PTL

\* commit() fsyncs the file before it swaps the anchor: both anchors only
\* ever name frames that survive a power loss.
THEOREM AnchorSafe == Spec => []AnchorNeverAhead
  <1>1. IndInv => AnchorNeverAhead
    BY DEF IndInv
  <1>2. QED
    BY <1>1, Inductive, PTL

\* The file is one unbroken chain whatever crashes, refused opens and failed
\* commits leave behind.
THEOREM ChainSafe == Spec => []ChainIntact
  <1>1. IndInv => ChainIntact
    BY DEF IndInv, ChainIntact
  <1>2. QED
    BY <1>1, Inductive, PTL

\* A frame commit() reported as ANCHORED stays below the durable anchor.
THEOREM AcknowledgedSafe == Spec => []AnchoredSurvives
  <1>1. IndInv => AnchoredSurvives
    BY DEF IndInv
  <1>2. QED
    BY <1>1, Inductive, PTL

\* Only the holder of the flock has an open writer, and one that may commit
\* has the file and the anchor as its own head.
THEOREM WriterSafe == Spec => []WriterCurrent
  <1>1. IndInv => WriterCurrent
    <2> SUFFICES ASSUME IndInv PROVE WriterCurrent
      OBVIOUS
    <2>1. \A p \in Procs : pc[p] = "idle" /\ p \notin disabled =>
             ~torn /\ mem[p] = file /\ anchor = HeadOf(file)
      BY AnchorAtHead DEF IndInv, Phases, Phase
    <2>2. QED
      BY <2>1 DEF WriterCurrent, IndInv, Exclusive
  <1>2. QED
    BY <1>1, Inductive, PTL

\* A record is only ever appended to a whole file whose head is anchored.
THEOREM NothingOnUnanchored == Spec => BuildsOnAnchored
  <1> DEFINE Grows == Len(file') > Len(file) => ~torn /\ anchor = HeadOf(file)
  <1>1. IndInv /\ [Next]_vars => [Grows]_vars
    <2> SUFFICES ASSUME IndInv, Next PROVE Grows
      OBVIOUS
    <2>1. file \in Seq(Frame) /\ synced \in 0..Len(file)
      BY DEF IndInv, TypeOK
    <2>2. CASE PowerLoss
      <3>1. PICK n \in synced..Len(file) : file' = SubSeq(file, 1, n)
        BY <2>2 DEF PowerLoss
      <3>2. Len(file') <= Len(file)
        BY <2>1, <3>1
      <3>3. QED
        BY <2>1, <3>1, <3>2
    <2>3. ASSUME NEW p \in Procs, NEW x \in Tx, Write(p, x) PROVE Grows
      BY <2>3, AnchorAtHead DEF Write, IndInv, Phases, Phase
    <2>4. ASSUME file' = file PROVE Grows
      BY <2>1, <2>4
    <2>5. ASSUME NEW p \in Procs, Step(p), \A x \in Tx : ~Write(p, x) PROVE file' = file
      BY <2>5 DEF Step, TakeLock, Opened, Refused, Replay, Close, Kill, Truncate, Stop,
                  WriteFails, Sync, SyncFails, Swap, SwapFails, Confirm, ConfirmFails, fileVars
    <2>6. QED
      BY <2>2, <2>3, <2>4, <2>5 DEF Next
  <1>2. QED
    BY <1>1, Inductive, PTL DEF Spec, BuildsOnAnchored

-----------------------------------------------------------------------------
(***************************************************************************)
(* The journal implements a durable log                                    *)
(***************************************************************************)

\* The transactions under the durable anchor: what DurableLog calls log.
Anchored == [i \in 1..anchorDisk.seq |-> file[i].tx]

\* A list of transactions that survive a power loss.
AnchoredList ==
    /\ Anchored \in Seq(Tx)
    /\ Len(Anchored) = anchorDisk.seq
    /\ anchorDisk.seq \in Nat

\* What the anchor covers is a list of frames, as the durable log has it.
LEMMA AnchoredIsList == IndInv => AnchoredList
  <1> SUFFICES ASSUME IndInv PROVE AnchoredList
    OBVIOUS
  <1>1. anchorDisk.seq \in 0..synced /\ synced \in 0..Len(file) /\ file \in Seq(Frame)
    BY DEF IndInv, TypeOK, AnchorNeverAhead, Names, Anchor
  <1>2. \A i \in 1..anchorDisk.seq : file[i].tx \in Tx
    <2> TAKE i \in 1..anchorDisk.seq
    <2>1. i \in 1..Len(file)
      BY <1>1
    <2>2. file[i] \in Frame
      BY <1>1, <2>1
    <2>3. QED
      BY <2>2 DEF Frame
  <1>3. QED
    BY <1>1, <1>2 DEF Anchored, AnchoredList

\* No step moves the durable anchor back or changes a frame below it.
LEMMA PrefixKept ==
    ASSUME IndInv, [Next]_vars
    PROVE  /\ anchorDisk.seq <= anchorDisk'.seq
           /\ \A i \in 1..anchorDisk.seq : file'[i] = file[i]
           /\ acked \subseteq acked'
  <1>1. /\ file \in Seq(Frame) /\ synced \in 0..Len(file)
        /\ anchor \in Anchor /\ anchorDisk \in Anchor
        /\ anchorDisk.seq <= synced /\ anchorDisk.seq <= anchor.seq
    BY DEF IndInv, TypeOK, AnchorNeverAhead, Names
  <1>2. anchorDisk.seq \in Nat /\ anchor.seq \in Nat
    BY <1>1 DEF Anchor
  <1>3. CASE PowerLoss
    <2>1. PICK n \in synced..Len(file) : file' = SubSeq(file, 1, n)
      BY <1>3 DEF PowerLoss
    <2>2. anchorDisk' \in {anchor, anchorDisk} /\ acked' = acked
      BY <1>3 DEF PowerLoss
    <2>3. \A i \in 1..anchorDisk.seq : i \in 1..n
      BY <1>1, <1>2
    <2>4. \A i \in 1..n : file'[i] = file[i]
      BY <1>1, <2>1
    <2>5. QED
      BY <1>1, <1>2, <2>2, <2>3, <2>4
  <1>4. ASSUME NEW p \in Procs, NEW x \in Tx, Write(p, x)
        PROVE  /\ anchorDisk' = anchorDisk /\ acked' = acked
               /\ \A i \in 1..Len(file) : file'[i] = file[i]
    BY <1>1, <1>4 DEF Write, anchorVars
  <1>5. ASSUME NEW p \in Procs, Confirm(p) \/ ConfirmFails(p)
        PROVE  file' = file /\ anchorDisk' \in {anchor, anchorDisk} /\ acked \subseteq acked'
    BY <1>5 DEF Confirm, ConfirmFails, fileVars
  <1>6. ASSUME NEW p \in Procs,
               \/ TakeLock(p) \/ Opened(p) \/ Refused(p) \/ Replay(p) \/ Close(p) \/ Kill(p)
               \/ WriteFails(p) \/ Sync(p) \/ SyncFails(p) \/ Swap(p) \/ SwapFails(p)
        PROVE  UNCHANGED <<file, anchorDisk, acked>>
    BY <1>6 DEF TakeLock, Opened, Refused, Replay, Close, Kill, Truncate,
                WriteFails, Sync, SyncFails, Swap, SwapFails, fileVars, anchorVars
  <1>7. CASE UNCHANGED vars
    BY <1>2, <1>7 DEF vars, fileVars, anchorVars
  <1>8. ASSUME NEW p \in Procs, Step(p)
        PROVE  /\ anchorDisk' \in {anchor, anchorDisk} /\ acked \subseteq acked'
               /\ \A i \in 1..Len(file) : file'[i] = file[i]
    BY <1>4, <1>5, <1>6, <1>8 DEF Step
  <1>9. \A i \in 1..anchorDisk.seq : i \in 1..Len(file)
    BY <1>1, <1>2
  <1>10. CASE \E p \in Procs : Step(p)
    BY <1>1, <1>2, <1>8, <1>9, <1>10
  <1>11. QED
    BY <1>3, <1>7, <1>10 DEF Next

\* The journal keeps its promise: the frames under the durable anchor are
\* only ever added to, across crashes, and only they are reported ANCHORED.
THEOREM Refinement == Spec => DurableSpec
  <1>1. Init => Durable!Init
    BY DEF Init, Durable!Init
  <1>2. IndInv /\ IndInv' /\ [Next]_vars => [Durable!Grow]_(Durable!vars)
    <2> SUFFICES ASSUME IndInv, IndInv', [Next]_vars PROVE Durable!Grow
      OBVIOUS
    <2>1. Anchored \in Seq(Tx) /\ Len(Anchored) = anchorDisk.seq /\ anchorDisk.seq \in Nat
      BY AnchoredIsList DEF AnchoredList
    <2>2. Anchored' \in Seq(Tx) /\ Len(Anchored') = anchorDisk'.seq /\ anchorDisk'.seq \in Nat
      <3>1. AnchoredList'
        BY AnchoredIsList, PTL
      <3>2. QED
        BY <3>1 DEF AnchoredList
    <2>3. /\ anchorDisk.seq <= anchorDisk'.seq
          /\ \A i \in 1..anchorDisk.seq : file'[i] = file[i]
          /\ acked \subseteq acked'
      BY PrefixKept
    <2>4. \A i \in 1..Len(Anchored) : Anchored'[i] = Anchored[i]
      BY <2>1, <2>2, <2>3 DEF Anchored
    <2>5. acked' \subseteq Durable!Logged(Anchored')
      BY <2>2 DEF IndInv, AnchoredSurvives, Durable!Logged, Anchored
    <2>6. QED
      BY <2>1, <2>2, <2>3, <2>4, <2>5 DEF Durable!Grow, Anchored
  <1>3. QED
    BY <1>1, <1>2, Inductive, PTL DEF Spec, DurableSpec, Durable!Spec

-----------------------------------------------------------------------------
(***************************************************************************)
(* The projections                                                         *)
(***************************************************************************)

Committing == {"written", "durable", "replaced"}

ViewTypes ==
    /\ dataView \in Seq(Frame) /\ outboxView \in Seq(Frame)
    /\ anchorRead \in Anchor \cup {None}
    /\ pending \in Blobs \cup {None}
    /\ blobs \in [Blobs -> {"none", "live", "quarantined"}]

\* While append_snapshot() is under way no rebuild is, its blob is live, and
\* nobody has seen its frame.
AppendHeld ==
    pending # None =>
        /\ anchorRead = None /\ blobs[pending] = "live"
        /\ pending \notin acked /\ pending \notin Referenced(outboxView)

\* The anchor a rebuild has read is an old one, but it covers every snapshot
\* that was acknowledged: no snapshot is appended meanwhile.
RebuildCovers ==
    anchorRead # None =>
        /\ anchorRead.seq <= anchor.seq
        /\ \A x \in acked \cap Blobs : \E i \in 1..anchorRead.seq : file[i].tx = x

\* The frame a commit has written is the snapshot under way, or none.
LastFrame ==
    \A p \in Procs : pc[p] \in Committing =>
        IF pending = None THEN file[Len(file)].tx \notin Blobs ELSE file[Len(file)].tx = pending

ViewInv ==
    /\ IndInv /\ ViewTypes
    /\ ProjectionsSound /\ Len(dataView) <= Len(file)
    /\ AppendHeld /\ RebuildCovers /\ LastFrame

\* A prefix of a list of frames.
LEMMA PrefixFacts ==
    ASSUME NEW s \in Seq(Frame), NEW n \in 0..Len(s)
    PROVE  /\ SubSeq(s, 1, n) \in Seq(Frame) /\ Len(SubSeq(s, 1, n)) = n
           /\ \A i \in 1..n : SubSeq(s, 1, n)[i] = s[i]
  OBVIOUS

\* What lies before the end of the file is the same after a record is added.
LEMMA PrefixStays ==
    ASSUME NEW s \in Seq(Frame), NEW f \in Frame, NEW n \in 0..Len(s)
    PROVE  SubSeq(Append(s, f), 1, n) = SubSeq(s, 1, n)
  OBVIOUS

\* Two lists with the same frames refer to the same snapshots.
LEMMA ReferencedPrefix ==
    ASSUME NEW s \in Seq(Frame), NEW n \in 0..Len(s), NEW x
    PROVE  x \in Referenced(SubSeq(s, 1, n)) <=> x \in Blobs /\ \E i \in 1..n : s[i].tx = x
  <1>1. DOMAIN SubSeq(s, 1, n) = 1..n /\ \A i \in 1..n : SubSeq(s, 1, n)[i] = s[i]
    BY PrefixFacts
  <1>2. QED
    BY <1>1 DEF Referenced

\* Every step of the projections is a step of the journal, or none of it:
\* what a projection replays is a replay() of its writer.
LEMMA ViewStepIsStep == [ViewNext]_viewVars => [Next]_vars
  <1> SUFFICES ASSUME [ViewNext]_viewVars PROVE Next \/ UNCHANGED vars
    OBVIOUS
  <1>1. CASE UNCHANGED viewVars
    BY <1>1 DEF viewVars
  <1>2. CASE Lost
    BY <1>2 DEF Lost, Next
  <1>3. ASSUME NEW p \in Procs, Quiet(p) \/ Ends(p) \/ AnchoredBy(p) PROVE Next
    BY <1>3 DEF Quiet, Ends, AnchoredBy, Next, Step
  <1>4. ASSUME NEW p \in Procs,
               (\E x \in Blobs : Publish(p, x)) \/ AppendRaises(p) \/ OutboxReadsAnchor(p)
        PROVE  UNCHANGED vars
    BY <1>4 DEF Publish, AppendRaises, OutboxReadsAnchor
  <1>5. ASSUME NEW p \in Procs, DataSync(p) \/ OutboxRebuilds(p) PROVE Next
    <2>1. Replay(p)
      BY <1>5 DEF DataSync, OutboxRebuilds, Replay
    <2>2. QED
      BY <2>1 DEF Next, Step
  <1>6. QED
    BY <1>1, <1>2, <1>3, <1>4, <1>5 DEF ViewNext

\* With the projections around it the journal is still the journal, and all
\* that is proved of it holds.
THEOREM ViewsKeepJournal == ViewSpec => Spec
  <1>1. ViewInit => Init
    BY DEF ViewInit
  <1>2. QED
    BY <1>1, ViewStepIsStep, PTL DEF ViewSpec, Spec

\* What the parts of the invariant say about types and lengths.
LEMMA ViewFacts ==
    ASSUME ViewInv
    PROVE  /\ file \in Seq(Frame) /\ Len(file) \in Nat /\ anchor \in Anchor /\ anchor.seq \in 0..Len(file)
           /\ anchorDisk.seq <= anchor.seq /\ anchorDisk.seq \in Nat
           /\ Len(outboxView) \in 0..anchor.seq /\ Len(outboxView) \in 0..Len(file)
           /\ Len(dataView) \in 0..Len(file)
           /\ outboxView = SubSeq(file, 1, Len(outboxView))
           /\ dataView = SubSeq(file, 1, Len(dataView))
  <1>1. /\ file \in Seq(Frame) /\ anchor \in Anchor /\ synced \in 0..Len(file) /\ anchor.seq <= synced
        /\ anchorDisk \in Anchor /\ anchorDisk.seq <= anchor.seq
    BY DEF ViewInv, IndInv, TypeOK, AnchorNeverAhead, Names
  <1>2. /\ Len(file) \in Nat /\ anchor.seq \in 0..Len(file)
        /\ anchorDisk.seq <= anchor.seq /\ anchorDisk.seq \in Nat
    BY <1>1 DEF Anchor
  <1>3. /\ dataView \in Seq(Frame) /\ outboxView \in Seq(Frame) /\ Len(dataView) <= Len(file)
        /\ Len(outboxView) <= anchor.seq /\ outboxView = SubSeq(file, 1, Len(outboxView))
        /\ dataView = SubSeq(file, 1, Len(dataView))
    BY DEF ViewInv, ViewTypes, ProjectionsSound, OutboxShowsAnchored, Covered, DataHasNoGaps
  <1>4. Len(dataView) \in Nat /\ Len(outboxView) \in Nat
    BY <1>3
  <1>5. QED
    BY <1>1, <1>2, <1>3, <1>4

\* The services end with the process: the projections are empty again, and
\* only the blobs and what was acknowledged stay.
LEMMA GoneSafe ==
    ASSUME ViewInv, IndInv', ServicesGone, acked' = acked,
           \A p \in Procs : pc'[p] = "down"
    PROVE  ViewInv'
  <1>1. <<>> \in Seq(Frame) /\ Len(<<>>) = 0
    OBVIOUS
  <1>2. ViewTypes'
    BY <1>1 DEF ServicesGone, ViewInv, ViewTypes
  <1>3. file' \in Seq(Frame) /\ anchor' \in Anchor /\ anchor'.seq \in Nat /\ Len(file') \in Nat
    BY DEF IndInv, TypeOK, Anchor
  <1>4. SubSeq(file', 1, 0) = <<>>
    BY <1>3
  <1>5. OutboxShowsAnchored' /\ DataHasNoGaps' /\ Len(dataView') <= Len(file')
    BY <1>1, <1>3, <1>4 DEF ServicesGone, OutboxShowsAnchored, Covered, DataHasNoGaps
  <1>6. AckedReadable'
    BY DEF ServicesGone, ViewInv, ProjectionsSound, AckedReadable
  <1>7. Referenced(outboxView)' = {}
    BY DEF ServicesGone, Referenced
  <1>8. UnreadableIsClosed'
    BY <1>7 DEF UnreadableIsClosed
  <1>9. AppendHeld' /\ RebuildCovers' /\ LastFrame'
    BY DEF ServicesGone, AppendHeld, RebuildCovers, LastFrame, Committing
  <1>10. QED
    BY <1>2, <1>5, <1>6, <1>8, <1>9 DEF ViewInv, ProjectionsSound

\* A step that leaves the services alone, and may add one record to the file.
LEMMA SameViewsSafe ==
    ASSUME ViewInv, IndInv', LastFrame', UNCHANGED <<views, store, acked>>,
           file' = file \/ \E f \in Frame : file' = Append(file, f),
           anchor.seq <= anchor'.seq
    PROVE  ViewInv'
  <1>u. UNCHANGED <<dataView, outboxView, anchorRead, pending, blobs, closed, acked>>
    BY DEF views, store
  <1>f. /\ file \in Seq(Frame) /\ Len(file) \in Nat /\ anchor.seq \in 0..Len(file)
        /\ Len(outboxView) \in 0..anchor.seq /\ Len(outboxView) \in 0..Len(file)
        /\ Len(dataView) \in 0..Len(file)
        /\ outboxView = SubSeq(file, 1, Len(outboxView))
        /\ dataView = SubSeq(file, 1, Len(dataView))
    BY ViewFacts
  <1>a. anchor'.seq \in Nat
    BY DEF IndInv, TypeOK, Anchor
  <1>1. /\ Len(file) <= Len(file') /\ \A i \in 1..Len(file) : file'[i] = file[i]
        /\ \A n \in 0..Len(file) : SubSeq(file', 1, n) = SubSeq(file, 1, n)
    <2>1. CASE file' = file
      BY <1>f, <2>1
    <2>2. ASSUME NEW f \in Frame, file' = Append(file, f)
          PROVE  /\ Len(file) <= Len(file') /\ \A i \in 1..Len(file) : file'[i] = file[i]
                 /\ \A n \in 0..Len(file) : SubSeq(file', 1, n) = SubSeq(file, 1, n)
      BY <1>f, <2>2, PrefixStays
    <2>3. QED
      BY <2>1, <2>2
  <1>2. ViewTypes'
    BY <1>u DEF ViewInv, ViewTypes
  <1>3. OutboxShowsAnchored'
    <2>1. Len(outboxView) <= anchor'.seq
      BY <1>a, <1>f
    <2>2. outboxView = SubSeq(file', 1, Len(outboxView))
      BY <1>f, <1>1
    <2>3. QED
      BY <1>u, <2>1, <2>2 DEF OutboxShowsAnchored, Covered
  <1>4. DataHasNoGaps' /\ Len(dataView') <= Len(file')
    <2>1. dataView = SubSeq(file', 1, Len(dataView))
      BY <1>f, <1>1
    <2>2. Len(dataView) <= Len(file')
      <3>1. Len(file') \in Nat
        BY DEF IndInv, TypeOK
      <3>2. QED
        BY <1>f, <1>1, <3>1
    <2>3. QED
      BY <1>u, <2>1, <2>2 DEF DataHasNoGaps
  <1>5. AckedReadable'
    BY <1>u DEF ViewInv, ProjectionsSound, AckedReadable
  <1>6. UnreadableIsClosed'
    BY <1>u DEF ViewInv, ProjectionsSound, UnreadableIsClosed, Referenced
  <1>7. AppendHeld'
    BY <1>u DEF ViewInv, AppendHeld, Referenced
  <1>8. RebuildCovers'
    <2> SUFFICES ASSUME anchorRead # None
                 PROVE  /\ anchorRead.seq <= anchor'.seq
                        /\ \A x \in acked \cap Blobs : \E i \in 1..anchorRead.seq : file'[i].tx = x
      BY <1>u DEF RebuildCovers
    <2>1. /\ anchorRead.seq <= anchor.seq /\ anchorRead.seq \in Nat
          /\ \A x \in acked \cap Blobs : \E i \in 1..anchorRead.seq : file[i].tx = x
      BY DEF ViewInv, RebuildCovers, ViewTypes, Anchor
    <2>2. \A i \in 1..anchorRead.seq : i \in 1..Len(file)
      BY <1>f, <2>1
    <2>3. \A x \in acked \cap Blobs : \E i \in 1..anchorRead.seq : file'[i].tx = x
      BY <1>1, <2>1, <2>2
    <2>4. QED
      BY <1>a, <1>f, <2>1, <2>3
  <1>9. QED
    BY <1>2, <1>3, <1>4, <1>5, <1>6, <1>7, <1>8 DEF ViewInv, ProjectionsSound

\* The steps of the journal that no projection follows: the guard of
\* append_snapshot() lets no other record in before its own.
LEMMA QuietSafe ==
    ASSUME ViewInv, IndInv', NEW p \in Procs, Quiet(p)
    PROVE  ViewInv'
  <1>i. IndInv /\ file \in Seq(Frame) /\ Len(file) \in Nat /\ anchor.seq \in 0..Len(file)
    BY ViewFacts DEF ViewInv
  <1>u. UNCHANGED <<views, store>> /\ UNCHANGED pending
    BY DEF Quiet, store
  <1>p. pc \in [Procs -> PCs]
    BY <1>i DEF IndInv, TypeOK
  <1>1. ASSUME NEW x \in Tx, MayWrite(x), Write(p, x) PROVE ViewInv'
    <2>1. ~torn /\ mem[p] = file /\ Chained(file) /\ \A q \in Procs \ {p} : pc[q] = "down"
      BY <1>1, <1>i, OthersDown DEF Write, IndInv, Phases, Phase
    <2>2. file' = Append(file, Sealed(p, x)) /\ UNCHANGED <<anchor, acked>>
      BY <1>1, <2>1 DEF Write, anchorVars
    <2>3. Sealed(p, x) \in Frame
      <3>1. HeadOf(mem[p]) \in Anchor
        BY <1>i, <2>1, HeadOfChain
      <3>2. QED
        BY <3>1 DEF Sealed, Frame, Anchor
    <2>4. file'[Len(file')].tx = x
      <3>1. file'[Len(file')] = Sealed(p, x)
        BY <1>i, <2>2, <2>3
      <3>2. QED
        BY <3>1 DEF Sealed
    <2>5. \A q \in Procs : pc'[q] \in Committing => q = p
      BY <1>1, <1>p, <2>1 DEF Write, Committing
    <2>6. LastFrame'
      BY <1>1, <1>u, <2>4 DEF LastFrame, MayWrite
    <2>7. QED
      BY <1>i, <1>u, <2>2, <2>3, <2>6, SameViewsSafe
  <1>2. ASSUME UNCHANGED <<file, acked>>, anchor.seq <= anchor'.seq,
               \A q \in Procs : pc'[q] \in Committing => pc[q] \in Committing
        PROVE  ViewInv'
    <2>1. LastFrame'
      BY <1>u, <1>2 DEF ViewInv, LastFrame
    <2>2. QED
      BY <1>u, <1>2, <2>1, SameViewsSafe
  <1>3. CASE TakeLock(p) \/ Opened(p) \/ Replay(p) \/ WriteFails(p)
    <2>1. UNCHANGED <<file, acked, anchor>>
      BY <1>3 DEF TakeLock, Opened, Replay, WriteFails, Truncate, fileVars, anchorVars
    <2>2. \A q \in Procs : pc'[q] \in Committing => pc[q] \in Committing
      BY <1>3, <1>p DEF TakeLock, Opened, Replay, WriteFails, Committing
    <2>3. QED
      BY <1>2, <1>i, <2>1, <2>2
  <1>4. CASE Sync(p) \/ SyncFails(p) \/ SwapFails(p) \/ ConfirmFails(p)
    <2>1. UNCHANGED <<file, acked, anchor>>
      BY <1>4 DEF Sync, SyncFails, SwapFails, ConfirmFails, fileVars, anchorVars
    <2>2. \A q \in Procs : pc'[q] \in Committing => pc[q] \in Committing
      BY <1>4, <1>p DEF Sync, SyncFails, SwapFails, ConfirmFails, Committing
    <2>3. QED
      BY <1>2, <1>i, <2>1, <2>2
  <1>5. CASE Swap(p)
    <2>1. UNCHANGED <<file, acked>>
      BY <1>5 DEF Swap, fileVars
    <2>2. \A q \in Procs : pc'[q] \in Committing => pc[q] \in Committing
      BY <1>5, <1>p DEF Swap, Committing
    <2>3. anchor'.seq = Len(file)
      <3>1. mem[p] = file /\ Chained(file)
        BY <1>5, <1>i DEF Swap, IndInv, Phases, Phase
      <3>2. QED
        BY <1>5, <1>i, <3>1, HeadOfChain DEF Swap
    <2>4. QED
      BY <1>2, <1>i, <2>1, <2>2, <2>3
  <1>6. QED
    BY <1>1, <1>3, <1>4, <1>5 DEF Quiet

\* The process ends, with its services: it held the flock, so none is left.
LEMMA EndsSafe ==
    ASSUME ViewInv, IndInv', Lost \/ \E p \in Procs : Ends(p)
    PROVE  ViewInv'
  <1>1. CASE Lost
    BY <1>1, GoneSafe DEF Lost, PowerLoss
  <1>2. ASSUME NEW p \in Procs, Ends(p) PROVE ViewInv'
    <2>1. pc[p] # "down" /\ Stop(p) /\ acked' = acked /\ ServicesGone
      BY <1>2 DEF Ends, Refused, Close, Kill
    <2>2. \A q \in Procs : pc'[q] = "down"
      BY <2>1, OthersDown DEF ViewInv, IndInv, TypeOK, Stop
    <2>3. QED
      BY <2>1, <2>2, GoneSafe
  <1>3. QED
    BY <1>1, <1>2


\* Between commits nobody has a record without its outcome.
LEMMA NoneCommitting ==
    ASSUME ViewInv, NEW p \in Procs, pc[p] # "down", pc'[p] = "idle",
           \A q \in Procs \ {p} : pc'[q] = pc[q]
    PROVE  LastFrame'
  <1>1. \A q \in Procs \ {p} : pc[q] = "down"
    BY OthersDown DEF ViewInv, IndInv
  <1>2. QED
    BY <1>1 DEF LastFrame, Committing

\* append_snapshot() publishes its blob: the transaction is new, so neither an
\* acknowledgement nor a projection knows it.
LEMMA PublishSafe ==
    ASSUME ViewInv, IndInv', NEW p \in Procs, NEW x \in Blobs, Publish(p, x)
    PROVE  ViewInv'
  <1>u. UNCHANGED <<dataView, outboxView, anchorRead, closed, file, anchor, pc, acked>>
    BY DEF Publish, views, vars, fileVars, anchorVars
  <1>x. x # None
    BY BlobsAssumption
  <1>1. x \notin acked /\ \A i \in DOMAIN file : file[i].tx # x
    BY DEF Publish, Used
  <1>2. x \notin Referenced(outboxView)
    <2>1. Len(outboxView) \in 0..Len(file) /\ file \in Seq(Frame)
          /\ outboxView = SubSeq(file, 1, Len(outboxView))
      BY ViewFacts
    <2>2. \A i \in 1..Len(outboxView) : i \in DOMAIN file
      BY <2>1
    <2>3. x \in Referenced(SubSeq(file, 1, Len(outboxView)))
             => \E i \in 1..Len(outboxView) : file[i].tx = x
      BY <2>1, ReferencedPrefix
    <2>4. QED
      BY <1>1, <2>1, <2>2, <2>3
  <1>3. pending = None /\ pending' = x /\ blobs' = [blobs EXCEPT ![x] = "live"] /\ anchorRead = None
    BY DEF Publish
  <1>4. blobs'[x] = "live" /\ \A y \in Blobs : blobs[y] = "live" => blobs'[y] = "live"
    BY <1>3 DEF ViewInv, ViewTypes
  <1>5. ViewTypes'
    BY <1>u, <1>3 DEF ViewInv, ViewTypes
  <1>6. OutboxShowsAnchored' /\ DataHasNoGaps' /\ Len(dataView') <= Len(file')
    BY <1>u DEF ViewInv, ProjectionsSound, OutboxShowsAnchored, Covered, DataHasNoGaps
  <1>7. AckedReadable'
    BY <1>u, <1>4 DEF ViewInv, ProjectionsSound, AckedReadable
  <1>8. UnreadableIsClosed'
    BY <1>u, <1>4 DEF ViewInv, ProjectionsSound, UnreadableIsClosed, Referenced
  <1>9. AppendHeld' /\ RebuildCovers'
    BY <1>u, <1>1, <1>2, <1>3, <1>4 DEF AppendHeld, RebuildCovers, Referenced
  <1>10. LastFrame'
    BY <1>u, NoneCommitting DEF Publish
  <1>11. QED
    BY <1>5, <1>6, <1>7, <1>8, <1>9, <1>10 DEF ViewInv, ProjectionsSound

\* append_snapshot() fails and quarantines its blob: it was never reported,
\* and the Outbox does not show its frame.
LEMMA AppendRaisesSafe ==
    ASSUME ViewInv, IndInv', NEW p \in Procs, AppendRaises(p)
    PROVE  ViewInv'
  <1>u. UNCHANGED <<dataView, outboxView, anchorRead, closed, file, anchor, pc, acked>>
    BY DEF AppendRaises, views, vars, fileVars, anchorVars
  <1>1. /\ pending \in Blobs /\ pending \notin acked /\ pending \notin Referenced(outboxView)
        /\ anchorRead = None /\ pending' = None
        /\ blobs' = [blobs EXCEPT ![pending] = "quarantined"]
    BY DEF AppendRaises, ViewInv, AppendHeld, ViewTypes
  <1>2. \A y \in Blobs : y # pending => blobs'[y] = blobs[y]
    BY <1>1 DEF ViewInv, ViewTypes
  <1>3. ViewTypes'
    BY <1>u, <1>1 DEF ViewInv, ViewTypes
  <1>4. OutboxShowsAnchored' /\ DataHasNoGaps' /\ Len(dataView') <= Len(file')
    BY <1>u DEF ViewInv, ProjectionsSound, OutboxShowsAnchored, Covered, DataHasNoGaps
  <1>5. AckedReadable'
    BY <1>u, <1>1, <1>2 DEF ViewInv, ProjectionsSound, AckedReadable
  <1>6. UnreadableIsClosed'
    BY <1>u, <1>1, <1>2 DEF ViewInv, ProjectionsSound, UnreadableIsClosed, Referenced
  <1>7. AppendHeld' /\ RebuildCovers'
    BY <1>u, <1>1 DEF AppendHeld, RebuildCovers
  <1>8. LastFrame'
    BY <1>u, NoneCommitting DEF AppendRaises
  <1>9. QED
    BY <1>3, <1>4, <1>5, <1>6, <1>7, <1>8 DEF ViewInv, ProjectionsSound

\* commit() says ANCHORED and its service applies the frame: it is the last of
\* the file and the anchor covers it; if it is a snapshot, its blob is live.
LEMMA AnchoredBySafe ==
    ASSUME ViewInv, IndInv', NEW p \in Procs, AnchoredBy(p)
    PROVE  ViewInv'
  <1>u. /\ UNCHANGED <<anchorRead, blobs, closed, file, anchor, mem>>
        /\ acked' = acked \cup {anchor.hash} /\ pending' = None
        /\ pc[p] = "replaced" /\ pc' = [pc EXCEPT ![p] = "idle"]
    BY DEF AnchoredBy, Confirm, fileVars
  <1>i. IndInv
    BY DEF ViewInv
  <1>f. /\ file \in Seq(Frame) /\ Len(file) \in Nat /\ anchor.seq = Len(file) /\ mem[p] = file
        /\ Len(file) > 0 /\ file[Len(file)] \in Frame
    BY <1>u, <1>i, ViewFacts DEF IndInv, Phases, Phase
  <1>h. anchor.hash = file[Len(file)].tx
    BY <1>f, <1>i DEF IndInv, AnchorNeverAhead, Names
  <1>l. IF pending = None THEN anchor.hash \notin Blobs ELSE anchor.hash = pending
    BY <1>u, <1>h DEF ViewInv, LastFrame, Committing
  <1>s. SubSeq(file, 1, Len(file)) = file
    BY <1>f
  <1>v. /\ dataView' = dataView \/ dataView' = file
        /\ outboxView' = outboxView \/ outboxView' = file
        /\ pending # None => outboxView' = file
    BY <1>f DEF AnchoredBy
  <1>1. ViewTypes'
    BY <1>u, <1>v, <1>f DEF ViewInv, ViewTypes
  <1>2. OutboxShowsAnchored'
    <2>1. CASE outboxView' = outboxView
      BY <1>u, <2>1 DEF ViewInv, ProjectionsSound, OutboxShowsAnchored, Covered
    <2>2. CASE outboxView' = file
      BY <1>u, <1>f, <1>s, <2>2 DEF OutboxShowsAnchored, Covered
    <2>3. QED
      BY <1>v, <2>1, <2>2
  <1>3. DataHasNoGaps' /\ Len(dataView') <= Len(file')
    BY <1>u, <1>f, <1>s, <1>v DEF ViewInv, ProjectionsSound, DataHasNoGaps
  <1>4. AckedReadable'
    BY <1>u, <1>l DEF ViewInv, ProjectionsSound, AckedReadable, AppendHeld
  <1>5. UnreadableIsClosed'
    <2>1. CASE outboxView' = outboxView
      BY <1>u, <2>1 DEF ViewInv, ProjectionsSound, UnreadableIsClosed, Referenced
    <2>2. CASE outboxView' = file /\ outboxView' # outboxView
      <3>1. outboxView = SubSeq(file, 1, Len(file) - 1)
        BY <1>f, <2>2 DEF AnchoredBy
      <3>2. ASSUME NEW y \in Referenced(file), blobs[y] # "live" PROVE y \in Referenced(outboxView)
        <4>1. PICK i \in 1..Len(file) : file[i].tx = y
          BY <1>f, <3>2 DEF Referenced
        <4>2. y \in Blobs
          BY <3>2 DEF Referenced
        <4>3. y # anchor.hash
          BY <1>l, <3>2, <4>2 DEF ViewInv, AppendHeld
        <4>4. i \in 1..Len(file) - 1
          BY <1>f, <1>h, <4>1, <4>3
        <4>5. Len(file) - 1 \in 0..Len(file)
          BY <1>f
        <4>6. QED
          BY <1>f, <3>1, <4>1, <4>2, <4>4, <4>5, ReferencedPrefix
      <3>3. QED
        BY <1>u, <2>2, <3>2 DEF ViewInv, ProjectionsSound, UnreadableIsClosed, Referenced
    <2>3. QED
      BY <1>v, <2>1, <2>2
  <1>6. AppendHeld'
    BY <1>u DEF AppendHeld
  <1>7. RebuildCovers'
    <2> SUFFICES ASSUME anchorRead # None PROVE RebuildCovers'
      BY <1>u DEF RebuildCovers
    <2>1. pending = None
      BY DEF ViewInv, AppendHeld
    <2>2. acked' \cap Blobs = acked \cap Blobs
      BY <1>u, <1>l, <2>1
    <2>3. QED
      BY <1>u, <2>2 DEF ViewInv, RebuildCovers
  <1>8. LastFrame'
    <2>1. pc'[p] = "idle" /\ \A q \in Procs \ {p} : pc'[q] = pc[q]
      BY <1>u, <1>i DEF IndInv, TypeOK
    <2>2. QED
      BY <1>u, <2>1, NoneCommitting
  <1>9. QED
    BY <1>1, <1>2, <1>3, <1>4, <1>5, <1>6, <1>7, <1>8 DEF ViewInv, ProjectionsSound

\* The employee data replays the whole file.
LEMMA DataSyncSafe ==
    ASSUME ViewInv, IndInv', NEW p \in Procs, DataSync(p)
    PROVE  ViewInv'
  <1>u. /\ UNCHANGED <<outboxView, anchorRead, pending, blobs, closed, file, anchor, pc, acked>>
        /\ dataView' = file
    BY DEF DataSync, store, anchorVars, Truncate
  <1>f. file \in Seq(Frame) /\ Len(file) \in Nat /\ SubSeq(file, 1, Len(file)) = file
    BY ViewFacts
  <1>1. ViewTypes'
    BY <1>u, <1>f DEF ViewInv, ViewTypes
  <1>2. DataHasNoGaps' /\ Len(dataView') <= Len(file')
    BY <1>u, <1>f DEF DataHasNoGaps
  <1>3. OutboxShowsAnchored' /\ AckedReadable' /\ UnreadableIsClosed'
    BY <1>u DEF ViewInv, ProjectionsSound, OutboxShowsAnchored, Covered, AckedReadable,
       UnreadableIsClosed, Referenced
  <1>4. AppendHeld' /\ RebuildCovers'
    BY <1>u DEF ViewInv, AppendHeld, RebuildCovers, Referenced
  <1>5. LastFrame'
    BY <1>u, NoneCommitting DEF DataSync
  <1>6. QED
    BY <1>1, <1>2, <1>3, <1>4, <1>5 DEF ViewInv, ProjectionsSound

\* A rebuild reads the anchor: it covers all that was ever acknowledged.
LEMMA OutboxReadsAnchorSafe ==
    ASSUME ViewInv, IndInv', NEW p \in Procs, OutboxReadsAnchor(p)
    PROVE  ViewInv'
  <1>u. /\ UNCHANGED <<dataView, outboxView, pending, blobs, closed, file, anchor, anchorDisk, pc, acked>>
        /\ anchorRead' = anchor /\ pending = None
    BY DEF OutboxReadsAnchor, store, vars, fileVars, anchorVars
  <1>f. anchor \in Anchor /\ anchor.seq \in Nat /\ anchorDisk.seq \in Nat /\ anchorDisk.seq <= anchor.seq
    BY ViewFacts DEF Anchor
  <1>1. ViewTypes'
    BY <1>u, <1>f DEF ViewInv, ViewTypes
  <1>2. ProjectionsSound' /\ Len(dataView') <= Len(file')
    BY <1>u DEF ViewInv, ProjectionsSound, OutboxShowsAnchored, Covered, DataHasNoGaps, AckedReadable,
       UnreadableIsClosed, Referenced
  <1>3. AppendHeld'
    BY <1>u DEF AppendHeld
  <1>4. RebuildCovers'
    <2>1. \A x \in acked : \E i \in 1..anchorDisk.seq : file[i].tx = x
      BY DEF ViewInv, IndInv, AnchoredSurvives
    <2>2. \A i \in 1..anchorDisk.seq : i \in 1..anchor.seq
      BY <1>f
    <2>3. \A x \in acked : \E i \in 1..anchor.seq : file[i].tx = x
      BY <2>1, <2>2
    <2>4. QED
      BY <1>u, <1>f, <2>3 DEF RebuildCovers
  <1>5. LastFrame'
    BY <1>u DEF ViewInv, LastFrame
  <1>6. QED
    BY <1>1, <1>2, <1>3, <1>4, <1>5 DEF ViewInv

\* A rebuild replays up to the anchor it has read and reconciles the blobs:
\* it may have read an old anchor, but no snapshot was added after it.
LEMMA OutboxRebuildsSafe ==
    ASSUME ViewInv, IndInv', NEW p \in Procs, OutboxRebuilds(p)
    PROVE  ViewInv'
  <1> DEFINE n == anchorRead.seq
             shown == SubSeq(file, 1, n)
  <1>u. /\ UNCHANGED <<dataView, pending, file, anchor, pc, acked>>
        /\ anchorRead # None /\ anchorRead' = None /\ outboxView' = shown /\ Reconcile(shown)
    BY DEF OutboxRebuilds, anchorVars, Truncate
  <1>f. /\ file \in Seq(Frame) /\ Len(file) \in Nat /\ anchor.seq \in 0..Len(file)
        /\ n \in Nat /\ n <= anchor.seq
    BY <1>u, ViewFacts DEF ViewInv, ViewTypes, RebuildCovers, Anchor
  <1>n. n \in 0..Len(file) /\ shown \in Seq(Frame) /\ Len(shown) = n
    BY <1>f, PrefixFacts
  <1>p. pending = None
    BY <1>u DEF ViewInv, AppendHeld
  <1>b. /\ blobs' \in [Blobs -> {"none", "live", "quarantined"}]
        /\ \A x \in Blobs : x \in Referenced(shown) => blobs'[x] = blobs[x]
    BY <1>u DEF Reconcile, ViewInv, ViewTypes
  <1>1. ViewTypes'
    BY <1>u, <1>n, <1>b DEF ViewInv, ViewTypes
  <1>2. OutboxShowsAnchored'
    BY <1>u, <1>f, <1>n DEF OutboxShowsAnchored, Covered
  <1>3. DataHasNoGaps' /\ Len(dataView') <= Len(file')
    BY <1>u DEF ViewInv, ProjectionsSound, DataHasNoGaps
  <1>4. AckedReadable'
    <2>1. ASSUME NEW x \in acked \cap Blobs PROVE x \in Referenced(shown)
      <3>1. \E i \in 1..n : file[i].tx = x
        BY <1>u DEF ViewInv, RebuildCovers
      <3>2. QED
        BY <1>f, <1>n, <3>1, ReferencedPrefix
    <2>2. QED
      BY <1>u, <1>b, <2>1 DEF ViewInv, ProjectionsSound, AckedReadable
  <1>5. UnreadableIsClosed'
    <2>1. Referenced(outboxView)' = Referenced(shown) /\ Referenced(shown) \subseteq Blobs
      BY <1>u DEF Referenced
    <2>2. closed' = (\E x \in Referenced(shown) : blobs[x] # "live")
      BY <1>u DEF Reconcile
    <2>3. QED
      BY <1>b, <2>1, <2>2 DEF UnreadableIsClosed
  <1>6. AppendHeld' /\ RebuildCovers'
    BY <1>u, <1>p DEF AppendHeld, RebuildCovers
  <1>7. LastFrame'
    BY <1>u, NoneCommitting DEF OutboxRebuilds
  <1>8. QED
    BY <1>1, <1>2, <1>3, <1>4, <1>5, <1>6, <1>7 DEF ViewInv, ProjectionsSound

\* The journal starts empty, and so do the projections.
LEMMA ViewInitSafe == ViewInit => ViewInv
  <1> SUFFICES ASSUME ViewInit PROVE ViewInv
    OBVIOUS
  <1>1. IndInv
    BY InitInv DEF ViewInit
  <1>2. /\ file = <<>> /\ dataView = <<>> /\ outboxView = <<>> /\ anchorRead = None /\ pending = None
        /\ acked = {} /\ anchor.seq = 0 /\ pc = [p \in Procs |-> "down"]
        /\ blobs = [x \in Blobs |-> "none"]
    BY DEF ViewInit, Init
  <1>3. <<>> \in Seq(Frame) /\ Len(<<>>) = 0 /\ SubSeq(<<>>, 1, 0) = <<>>
    OBVIOUS
  <1>4. ViewTypes
    BY <1>2, <1>3 DEF ViewTypes
  <1>5. Referenced(outboxView) = {}
    BY <1>2 DEF Referenced
  <1>6. OutboxShowsAnchored /\ DataHasNoGaps /\ Len(dataView) <= Len(file)
    BY <1>2, <1>3 DEF OutboxShowsAnchored, Covered, DataHasNoGaps
  <1>7. AckedReadable /\ UnreadableIsClosed /\ AppendHeld /\ RebuildCovers
    BY <1>2, <1>5 DEF AckedReadable, UnreadableIsClosed, AppendHeld, RebuildCovers
  <1>8. LastFrame
    BY <1>2 DEF LastFrame, Committing
  <1>9. QED
    BY <1>1, <1>4, <1>6, <1>7, <1>8 DEF ViewInv, ProjectionsSound

\* Every step of the services keeps the invariant.
LEMMA ViewStepSafe == ViewInv /\ [ViewNext]_viewVars => ViewInv'
  <1> SUFFICES ASSUME ViewInv, [ViewNext]_viewVars PROVE ViewInv'
    OBVIOUS
  <1>1. IndInv'
    BY ViewStepIsStep, StepInv DEF ViewInv
  <1>2. CASE UNCHANGED viewVars
    <2>1. UNCHANGED <<dataView, outboxView, anchorRead, pending, blobs, closed, file, anchor, pc, acked>>
      BY <1>2 DEF viewVars, views, store, vars, fileVars, anchorVars
    <2>2. LastFrame'
      BY <2>1 DEF ViewInv, LastFrame
    <2>3. UNCHANGED <<views, store, acked>> /\ file' = file /\ anchor.seq <= anchor'.seq
      BY <2>1, ViewFacts DEF views, store
    <2>4. QED
      BY <1>1, <2>2, <2>3, SameViewsSafe
  <1>3. CASE Lost \/ \E p \in Procs : Ends(p)
    BY <1>1, <1>3, EndsSafe
  <1>4. ASSUME NEW p \in Procs, Quiet(p) \/ AnchoredBy(p) \/ AppendRaises(p) PROVE ViewInv'
    BY <1>1, <1>4, QuietSafe, AnchoredBySafe, AppendRaisesSafe
  <1>5. ASSUME NEW p \in Procs, NEW x \in Blobs, Publish(p, x) PROVE ViewInv'
    BY <1>1, <1>5, PublishSafe
  <1>6. ASSUME NEW p \in Procs, DataSync(p) \/ OutboxReadsAnchor(p) \/ OutboxRebuilds(p) PROVE ViewInv'
    BY <1>1, <1>6, DataSyncSafe, OutboxReadsAnchorSafe, OutboxRebuildsSafe
  <1>7. QED
    BY <1>2, <1>3, <1>4, <1>5, <1>6 DEF ViewNext

\* For any number of processes and transactions, with kills and power losses
\* anywhere: the Outbox's projection (rebuild_projection()) shows only anchored
\* frames, the employee data (_synchronize_projection_unlocked()) skips none,
\* an acknowledged snapshot (append_snapshot()) keeps its blob, and one whose
\* blob is gone has closed its employee.
THEOREM ProjectionsAreSound == ViewSpec => []ProjectionsSound
  <1>1. ViewInv => ProjectionsSound
    BY DEF ViewInv
  <1>2. QED
    BY <1>1, ViewInitSafe, ViewStepSafe, PTL DEF ViewSpec
==============================================================================
