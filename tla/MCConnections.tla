---------------------------- MODULE MCConnections ----------------------------
(***************************************************************************)
(* An instance of Connections for TLC: two endpoints.                      *)
(***************************************************************************)
EXTENDS Connections, TLC

CONSTANTS e1, e2

Right == [hash |-> ChainId, id |-> "genesis-id"]

\* What the block 1 of e2 can say when e1 is right, and two endpoints that are wrong.
MCNetworks ==
  {e1 :> Right @@ e2 :> n : n \in [hash : {ChainId, OtherHash, Empty}, id : {Empty, "genesis-id"}]}
  \cup {e1 :> [Right EXCEPT !.hash = OtherHash] @@ e2 :> [Right EXCEPT !.id = Empty]}
==============================================================================
