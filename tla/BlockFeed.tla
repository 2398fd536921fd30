------------------------------ MODULE BlockFeed ------------------------------
(***************************************************************************)
(* What AlgorandApi.fetchBlocks promises to the rest of the node, with no  *)
(* cache, no requests and no failures: a job (a batch of heights that the  *)
(* block dispatcher asks for) is answered once, with the headers of        *)
(* exactly those heights, in the order asked, and only when the chain has  *)
(* a successor for every one of them, because the hash of an Algorand      *)
(* round is only known from the round after it.                            *)
(***************************************************************************)
EXTENDS Integers

CONSTANTS
  Jobs,        \* batches the dispatcher asks for
  Batches,     \* Batches[j] is the sequence of heights of job j
  MaxRound,    \* bound on the chain's length
  Hash,        \* Hash[r] is the hash of round r
  NoResult     \* the job has not been answered

VARIABLES
  head,        \* last round the indexer endpoint serves
  delivered    \* delivered[j] is NoResult or the headers given for job j

feedVars == <<head, delivered>>

\* The header of round r, as algorandBlockToHeader would build it from a
\* block whose hash is known.
TrueHeader(r) ==
  [blockHeight |-> r, blockHash |-> Hash[r], parentHash |-> Hash[r - 1]]

TrueHeaders(j) == [i \in DOMAIN Batches[j] |-> TrueHeader(Batches[j][i])]

Init ==
  /\ head \in 1 .. MaxRound
  /\ delivered = [j \in Jobs |-> NoResult]

Grow ==
  /\ head < MaxRound
  /\ head' = head + 1
  /\ UNCHANGED delivered

Deliver(j) ==
  /\ delivered[j] = NoResult
  /\ \A i \in DOMAIN Batches[j] : Batches[j][i] < head
  /\ delivered' = [delivered EXCEPT ![j] = TrueHeaders(j)]
  /\ UNCHANGED head

Next == Grow \/ \E j \in Jobs : Deliver(j)

SafeSpec == Init /\ [][Next]_feedVars

Spec == SafeSpec /\ WF_feedVars(Grow) /\ \A j \in Jobs : WF_feedVars(Deliver(j))
==============================================================================
