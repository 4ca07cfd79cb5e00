-------------------------- MODULE MCEmployeeOutbox ---------------------------
(***************************************************************************)
(* Instances of EmployeeOutbox for TLC.                                    *)
(***************************************************************************)
EXTENDS EmployeeOutbox, TLC

CONSTANTS a1, k1, e1

\* One employee owns every card.
SameEmployee == [c \in Cards |-> e1]
==============================================================================
