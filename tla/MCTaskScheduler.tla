--------------------------- MODULE MCTaskScheduler ---------------------------
(***************************************************************************)
(* Instances of TaskScheduler for TLC: which tasks callers submit.         *)
(***************************************************************************)
EXTENDS TaskScheduler, TLC

\* /help and /exit run on the system queue at HIGH priority.
HelpTask == [NoSpec EXCEPT !.system = TRUE, !.high = TRUE, !.control = TRUE]

\* Tasks that learn their project later, and system commands.
MixedSpecs == {NoSpec, HelpTask}

RunSymmetry == Permutations(Runs)
==============================================================================
