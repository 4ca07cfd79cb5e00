------------------------------ MODULE DurableLog ------------------------------
(***************************************************************************)
(* What the journal promises to the domains that commit to it: one list of *)
(* transactions that only grows at its end, and survives every crash, and  *)
(* acknowledgements that are only given for transactions in the list.      *)
(*                                                                         *)
(* A transaction may be in the list without having been acknowledged: the  *)
(* caller of a commit that failed, or that a crash cut off, does not know. *)
(***************************************************************************)
EXTENDS Integers, Sequences

CONSTANT Tx

VARIABLES
    log,   \* the transactions that survive any crash
    acked  \* those whose commit was reported as ANCHORED

vars == <<log, acked>>

Logged(l) == {l[i] : i \in 1..Len(l)}

Init == log = <<>> /\ acked = {}

\* Transactions are added after all the others, and some are acknowledged.
Grow ==
    /\ log' \in Seq(Tx)
    /\ Len(log) <= Len(log')
    /\ \A i \in 1..Len(log) : log'[i] = log[i]
    /\ acked \subseteq acked' /\ acked' \subseteq Logged(log')

Spec == Init /\ [][Grow]_vars
===============================================================================
