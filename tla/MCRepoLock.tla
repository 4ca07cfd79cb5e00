------------------------------ MODULE MCRepoLock ------------------------------
(***************************************************************************)
(* Instance of RepoLock for TLC.                                           *)
(***************************************************************************)
EXTENDS RepoLock

CONSTANT c1

\* Every run belongs to the one chat, so that only the run id tells them apart.
SharedChat == [r \in Runs |-> c1]
===============================================================================
