------------------------ MODULE MCEmployeeExecution -------------------------
(***************************************************************************)
(* Instances of EmployeeExecution for TLC.                                 *)
(***************************************************************************)
EXTENDS EmployeeExecution, TLC

CONSTANTS w1, w2, a1

\* One employee gets all the work.
SameAgent == [w \in Works |-> a1]
=============================================================================
