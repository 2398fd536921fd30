----------------------------- MODULE MCGetBlock ------------------------------
(***************************************************************************)
(* An instance of GetBlock for TLC: rounds with no transactions, with as   *)
(* many as the endpoint returns at once, and with more than two pages.     *)
(***************************************************************************)
EXTENDS GetBlock

MCTxCount == [r \in 0 .. LastRound |-> CASE r = 0 -> 1 [] r = 1 -> 0 [] r = 2 -> 2 [] OTHER -> 7]
==============================================================================
