---------------------------- MODULE MCFetchBlocks ----------------------------
(***************************************************************************)
(* Instances of FetchBlocks for TLC.  The hash of round r is the number r. *)
(***************************************************************************)
EXTENDS FetchBlocks, TLC

CONSTANTS j1, j2

MCHash == [r \in 0 .. MaxRound |-> r]
MCHashes == 0 .. MaxRound

\* A batch with a gap, as a dictionary produces, and a descending one that overlaps it, as
\* heights are fetched again after a rewind: the lookup ahead for 1 caches 2, which the other
\* call may take, and the round after 3 may be pending.
GapBatches == j1 :> <<1, 3>> @@ j2 :> <<3, 2>>
==============================================================================
