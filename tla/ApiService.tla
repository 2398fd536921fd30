----------------------------- MODULE ApiService ------------------------------
(***************************************************************************)
(* What AlgorandApiService promises to the rest of the node                *)
(* (packages/node/src/algorand/api.service.algorand.ts): init ends, with a *)
(* service that can be used or with the end of the process, and everything *)
(* a usable service hands out comes from the chain that the project names, *)
(* whatever endpoints there are behind it.                                 *)
(***************************************************************************)
CONSTANT ChainId   \* genesis hash of the project's chain

VARIABLES
  status,   \* of the service: "off", "init", "ready" or "exit"
  sources   \* genesis hashes of the chains whose data was handed out

vars == <<status, sources>>

Init == status = "off" /\ sources = {}

\* AlgorandApiService.init
Start == status = "off" /\ status' = "init" /\ UNCHANGED sources

\* It resolves, or it calls exitWithError.
Settle == status = "init" /\ status' \in {"ready", "exit"} /\ UNCHANGED sources

Answer == status = "ready" /\ sources' = sources \cup {ChainId} /\ UNCHANGED status

Next == Start \/ Settle \/ Answer

SafeSpec == Init /\ [][Next]_vars

Spec == SafeSpec /\ WF_vars(Settle)
==============================================================================
