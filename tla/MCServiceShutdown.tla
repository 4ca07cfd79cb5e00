-------------------------- MODULE MCServiceShutdown --------------------------
(***************************************************************************)
(* Instance of ServiceShutdown for TLC.                                    *)
(***************************************************************************)
EXTENDS ServiceShutdown

\* One ordinary task without a project and one system command.
LaneSpecs == {NoSpec, [NoSpec EXCEPT !.system = TRUE, !.high = TRUE, !.control = TRUE]}
==============================================================================
