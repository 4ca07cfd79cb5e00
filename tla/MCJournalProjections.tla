------------------------- MODULE MCJournalProjections ------------------------
(***************************************************************************)
(* Instance of JournalProjections for TLC.                                 *)
(***************************************************************************)
EXTENDS JournalProjections, TLC

JournalSymmetry ==
    Permutations(Procs) \cup Permutations(Blobs) \cup Permutations(Tx \ Blobs)
==============================================================================
