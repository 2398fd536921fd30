------------------------------ MODULE MCStartup ------------------------------
(***************************************************************************)
(* An instance of Startup for TLC: two endpoints, two dictionary           *)
(* endpoints.                                                              *)
(***************************************************************************)
EXTENDS Startup, TLC

CONSTANTS e1, e2, d1, d2

Right == [hash |-> ChainId, id |-> "genesis-id"]
AllRight == e1 :> Right @@ e2 :> Right

\* One endpoint of the chain, one of another chain; none of the chain.
MCNetworks ==
  {AllRight, e1 :> Right @@ e2 :> [Right EXCEPT !.hash = OtherHash],
   e1 :> [Right EXCEPT !.hash = OtherHash] @@ e2 :> [Right EXCEPT !.id = Empty]}

Manifests ==
  {NoDictionary, [array |-> FALSE, value |-> d1], [array |-> TRUE, value |-> << >>],
   [array |-> TRUE, value |-> <<d2, d1>>]}

\* All networks without dictionaries, and all dictionaries over one network.
MCSituations ==
  [process : Processes \ {"forceClean"}, network : MCNetworks,
   manifest : {NoDictionary}, registry : {<< >>}, valid : {{}}]
  \cup [process : {"node"}, network : {AllRight},
        manifest : Manifests, registry : {<< >>, <<d1>>}, valid : SUBSET {d1, d2}]
  \cup [process : {"forceClean"}, network : {AllRight},
        manifest : {NoDictionary}, registry : {<< >>}, valid : {{}}]
==============================================================================
