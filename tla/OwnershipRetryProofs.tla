----------------------- MODULE OwnershipRetryProofs -------------------------
(***************************************************************************)
(* Two more proofs about FetchBlocks, on top of SafeInv: fetchBlocks never *)
(* shares a block object, and how often it rejects.                        *)
(***************************************************************************)
EXTENDS FetchBlocksProofs

------------------------------------------------------------------------------
(***************************************************************************)
(* fetchBlocks never shares a block object: TLAPS proof of ExclusiveBlocks *)
(* on top of SafeInv.                                                      *)
(*                                                                         *)
(* The argument is about where objects come from.  An object in the cache  *)
(* was made by a lookup ahead that has ended, so a lookup that ends now    *)
(* makes an object nobody has; blockInCache moves an object from the cache *)
(* to one position; two positions of a batch take different rounds.        *)
(***************************************************************************)

\* Only a lookup ahead that has ended can have created an object with this id.
LookedAhead(id) ==
  \E c \in Calls : \E p \in DOMAIN slots[c] :
    /\ id = <<c, p, "next">>
    /\ Stage(c, p) = "hashed"

CacheOrigin == \A b \in cache : LookedAhead(b.id)

CacheIds == \A b, d \in cache : b.id = d.id => b = d

HeldOrigin ==
  \A c \in Calls : \A p \in DOMAIN slots[c] : Holds(c, p) =>
    slots[c][p].block.id = <<c, p, "own">> \/ LookedAhead(slots[c][p].block.id)

OwnershipInv == CacheOrigin /\ CacheIds /\ HeldOrigin /\ ExclusiveBlocks

LEMMA InitOwnershipInv == Init => OwnershipInv
<1> SUFFICES ASSUME Init PROVE OwnershipInv
  OBVIOUS
<1>1. \A c \in Calls : DOMAIN slots[c] = {}
  BY DEF Init
<1>2. cache = {}
  BY DEF Init
<1>3. CacheOrigin /\ CacheIds
  BY <1>2 DEF CacheOrigin, CacheIds
<1>4. HeldOrigin /\ ExclusiveBlocks
  BY <1>1 DEF HeldOrigin, ExclusiveBlocks
<1> QED
  BY <1>3, <1>4 DEF OwnershipInv

\* A lookup ahead that has ended stays ended: positions are never dropped and
\* no step leaves the stage "hashed".
SlotsGrow ==
  \A c \in Calls : \A p \in DOMAIN slots[c] :
    p \in DOMAIN slots'[c] /\ (Stage(c, p) = "hashed" => slots'[c][p].stage = "hashed")

LEMMA LookedAheadStays ==
  ASSUME SlotsGrow, NEW id, LookedAhead(id)
  PROVE  LookedAhead(id)'
BY DEF SlotsGrow, LookedAhead, Stage

\* An object that a lookup of its own or an ended lookup ahead created is not
\* the one that the lookup ahead of (c, p) creates, as long as it has not ended.
LEMMA NotYetLookedAhead ==
  ASSUME NEW c, NEW p, Stage(c, p) # "hashed"
  PROVE  ~ LookedAhead(<<c, p, "next">>) /\ ~ LookedAhead(<<c, p, "own">>)
BY DEF LookedAhead

\* Steps that leave every object where it is.
LEMMA BlocksKept ==
  ASSUME OwnershipInv, SlotsGrow, cache' = cache,
         \A c \in Calls : DOMAIN slots'[c] = DOMAIN slots[c],
         \A c \in Calls : \A p \in DOMAIN slots[c] : slots'[c][p].block = slots[c][p].block
  PROVE  OwnershipInv'
<1> USE DEF OwnershipInv
<1>1. CacheOrigin' /\ CacheIds'
  BY LookedAheadStays DEF CacheOrigin, CacheIds
<1>2. HeldOrigin'
  BY LookedAheadStays DEF HeldOrigin, Holds
<1>3. ExclusiveBlocks'
  BY DEF ExclusiveBlocks, Holds
<1> QED
  BY <1>1, <1>2, <1>3

\* The stages of a call move on and its blocks stay, at one position.
LEMMA StageMoveKeeps ==
  ASSUME SafeInv, OwnershipInv, NEW c \in Calls, NEW p \in DOMAIN slots[c],
         NEW stage, Stage(c, p) # "hashed", cache' = cache,
         SetSlot(c, p, [slots[c][p] EXCEPT !.stage = stage])
  PROVE  OwnershipInv'
<1> DEFINE s == [slots[c][p] EXCEPT !.stage = stage]
<1>1. slots[c][p] \in Slots
  BY SlotDomain DEF SafeInv
<1>2. s.block = slots[c][p].block
  BY <1>1 DEF Slots
<1>3. SetSlot(c, p, s)
  OBVIOUS
<1> HIDE DEF s
<1>4. /\ \A d \in Calls : DOMAIN slots'[d] = DOMAIN slots[d]
      /\ slots'[c][p] = s
      /\ \A d \in Calls : \A q \in DOMAIN slots[d] :
           d # c \/ q # p => slots'[d][q] = slots[d][q]
  BY <1>3 DEF SetSlot, SafeInv, TypeOK
<1>5. SlotsGrow
  BY <1>4 DEF SlotsGrow, Stage
<1>6. \A d \in Calls : \A q \in DOMAIN slots[d] : slots'[d][q].block = slots[d][q].block
  BY <1>2, <1>4
<1> QED
  BY <1>4, <1>5, <1>6, BlocksKept

\* getBlockByHeight makes an object of its own.
LEMMA LookupOkOwnership ==
  ASSUME SafeInv, OwnershipInv, NEW c \in Calls, NEW p \in DOMAIN slots[c],
         LookupOk(c, p)
  PROVE  OwnershipInv'
<1> USE DEF OwnershipInv
<1> DEFINE own == <<c, p, "own">>
           b == LookedUp(own, Num(c, p))
           s == [slots[c][p] EXCEPT !.stage = "got", !.block = b]
<1>1. SetSlot(c, p, s) /\ Stage(c, p) = "lookup" /\ cache' = cache
  BY DEF LookupOk
<1>2. slots[c][p] \in Slots
  BY SlotDomain DEF SafeInv
<1>3. s.block = b /\ b.id = own
  BY <1>2 DEF Slots, LookedUp
<1> HIDE DEF s, b
<1>4. /\ \A d \in Calls : DOMAIN slots'[d] = DOMAIN slots[d]
      /\ slots'[c][p] = s
      /\ \A d \in Calls : \A q \in DOMAIN slots[d] :
           d # c \/ q # p => slots'[d][q] = slots[d][q]
  BY <1>1 DEF SetSlot, SafeInv, TypeOK
<1>5. SlotsGrow
  BY <1>1, <1>4 DEF SlotsGrow, Stage
<1>6. CacheOrigin' /\ CacheIds'
  BY <1>1, <1>5, LookedAheadStays DEF CacheOrigin, CacheIds
<1>7. HeldOrigin'
  BY <1>3, <1>4, <1>5, LookedAheadStays DEF HeldOrigin, Holds
<1>8. ~ LookedAhead(own)
  BY <1>1, NotYetLookedAhead
<1>9. \A x \in cache : x.id # own
  BY <1>8 DEF CacheOrigin
<1>10. \A d \in Calls : \A q \in DOMAIN slots[d] :
         Holds(d, q) /\ (d # c \/ q # p) => slots[d][q].block.id # own
  BY <1>8 DEF HeldOrigin
<1> HIDE DEF own
<1>11. ExclusiveBlocks'
  <2> SUFFICES ASSUME NEW d \in Calls, NEW q \in DOMAIN slots[d], Holds(d, q)'
               PROVE  /\ \A x \in cache : x.id # slots'[d][q].block.id
                      /\ \A e \in Calls : \A r \in DOMAIN slots[e] :
                           Holds(e, r)' /\ slots'[d][q].block.id = slots'[e][r].block.id
                             => <<d, q>> = <<e, r>>
    BY <1>1, <1>4 DEF ExclusiveBlocks
  <2>1. CASE d = c /\ q = p
    BY <1>3, <1>4, <1>9, <1>10, <2>1 DEF Holds
  <2>2. CASE d # c \/ q # p
    BY <1>3, <1>4, <1>10, <2>2 DEF ExclusiveBlocks, Holds
  <2> QED
    BY <2>1, <2>2
<1> QED
  BY <1>6, <1>7, <1>11

\* The lookup ahead makes an object that nobody has, and caches it.
LEMMA NextBlockOkOwnership ==
  ASSUME SafeInv, OwnershipInv, NEW c \in Calls, NEW p \in DOMAIN slots[c],
         NextBlockOk(c, p)
  PROVE  OwnershipInv'
<1> USE DEF OwnershipInv
<1> DEFINE new == <<c, p, "next">>
           b == LookedUp(new, RoundAt(c, p) + 1)
           s == [slots[c][p] EXCEPT !.stage = "hashed", !.hash = b.previousBlockHash]
<1>1. SetSlot(c, p, s) /\ Stage(c, p) = "next" /\ cache' = cache \cup {b}
  BY DEF NextBlockOk
<1>2. slots[c][p] \in Slots
  BY SlotDomain DEF SafeInv
<1>3. s.block = slots[c][p].block /\ s.stage = "hashed" /\ b.id = new
  BY <1>2 DEF Slots, LookedUp
<1> HIDE DEF s, b
<1>4. /\ \A d \in Calls : DOMAIN slots'[d] = DOMAIN slots[d]
      /\ slots'[c][p] = s
      /\ \A d \in Calls : \A q \in DOMAIN slots[d] :
           d # c \/ q # p => slots'[d][q] = slots[d][q]
  BY <1>1 DEF SetSlot, SafeInv, TypeOK
<1>5. SlotsGrow
  BY <1>3, <1>4 DEF SlotsGrow, Stage
<1>6. \A d \in Calls : \A q \in DOMAIN slots[d] : slots'[d][q].block = slots[d][q].block
  BY <1>3, <1>4
<1>7. LookedAhead(new)'
  BY <1>3, <1>4 DEF LookedAhead, Stage
<1>8. ~ LookedAhead(new)
  BY <1>1, NotYetLookedAhead
<1>9. \A x \in cache : x.id # new
  BY <1>8 DEF CacheOrigin
<1>10. \A d \in Calls : \A q \in DOMAIN slots[d] : Holds(d, q) => slots[d][q].block.id # new
  BY <1>8 DEF HeldOrigin
<1> HIDE DEF new
<1>11. CacheOrigin'
  BY <1>1, <1>3, <1>5, <1>7, LookedAheadStays DEF CacheOrigin
<1>12. CacheIds'
  BY <1>1, <1>3, <1>9 DEF CacheIds
<1>13. HeldOrigin'
  BY <1>4, <1>5, <1>6, LookedAheadStays DEF HeldOrigin, Holds
<1>14. ExclusiveBlocks'
  BY <1>1, <1>3, <1>4, <1>6, <1>10 DEF ExclusiveBlocks, Holds
<1> QED
  BY <1>11, <1>12, <1>13, <1>14

\* A call takes different objects for its positions and out of the cache.
LEMMA FetchBlocksOwnership ==
  ASSUME SafeInv, OwnershipInv, NEW j \in Jobs, FetchBlocks(j)
  PROVE  OwnershipInv'
<1> USE DEF OwnershipInv
<1> DEFINE c == <<j, attempt[j] + 1>>
<1>1. PICK taken \in [Positions(j) -> cache \cup {NoBlock}] :
        /\ \A p \in Positions(j) : taken[p] \in BlockInCache(Batches[j][p])
        /\ cache' = cache \ {taken[p] : p \in Positions(j)}
        /\ c \in Calls
        /\ slots[c] = << >>
        /\ slots' = [slots EXCEPT ![c] = NewSlots(j, taken)]
  BY FetchBlocksEffect
<1>2. JobOf(c) = j
  BY DEF JobOf
<1> HIDE DEF c
<1>3. /\ NewSlots(j, taken) \in [Positions(j) -> Slots]
      /\ \A p \in Positions(j) : NewSlots(j, taken)[p].block = taken[p]
  BY <1>1, <1>2, NewSlotsInv
<1>4. /\ slots'[c] = NewSlots(j, taken)
      /\ DOMAIN slots'[c] = Positions(j)
      /\ \A p \in Positions(j) : slots'[c][p].block = taken[p]
      /\ \A d \in Calls : d # c => slots'[d] = slots[d]
      /\ DOMAIN slots[c] = {}
  BY <1>1, <1>3 DEF SafeInv, TypeOK
<1>5. SlotsGrow
  BY <1>4 DEF SlotsGrow, Stage
<1>6. ASSUME NEW p \in Positions(j), taken[p] # NoBlock
      PROVE  taken[p] \in cache /\ taken[p] \notin cache' /\ taken[p].round = Batches[j][p]
  BY <1>1, <1>6 DEF BlockInCache
<1>7. ASSUME NEW p \in Positions(j), NEW q \in Positions(j),
             taken[p] # NoBlock, taken[q] # NoBlock, taken[p].id = taken[q].id
      PROVE  p = q
  <2>1. taken[p] = taken[q]
    BY <1>6, <1>7 DEF CacheIds
  <2>2. Batches[j][p] = Batches[j][q]
    BY <1>6, <1>7, <2>1
  <2> QED
    BY <2>2, BatchAssumption
<1>8. CacheOrigin' /\ CacheIds'
  BY <1>1, <1>5, LookedAheadStays DEF CacheOrigin, CacheIds
<1>9. HeldOrigin'
  <2> SUFFICES ASSUME NEW d \in Calls, NEW q \in DOMAIN slots'[d], Holds(d, q)',
                      NEW id, id = slots'[d][q].block.id
               PROVE  id = <<d, q, "own">> \/ LookedAhead(id)'
    BY DEF HeldOrigin
  <2>1. CASE d = c
    BY <1>4, <1>5, <1>6, <2>1, LookedAheadStays DEF CacheOrigin, Holds
  <2>2. CASE d # c
    BY <1>4, <1>5, <2>2, LookedAheadStays DEF HeldOrigin, Holds
  <2> QED
    BY <2>1, <2>2
<1>10. ExclusiveBlocks'
  <2> SUFFICES ASSUME NEW d \in Calls, NEW q \in DOMAIN slots'[d], Holds(d, q)'
               PROVE  /\ \A x \in cache' : x.id # slots'[d][q].block.id
                      /\ \A e \in Calls : \A r \in DOMAIN slots'[e] :
                           Holds(e, r)' /\ slots'[d][q].block.id = slots'[e][r].block.id
                             => <<d, q>> = <<e, r>>
    BY DEF ExclusiveBlocks
  <2>1. cache' \subseteq cache
    BY <1>1
  <2>2. CASE d = c
    <3>1. q \in Positions(j) /\ slots'[d][q].block = taken[q] /\ taken[q] # NoBlock
      BY <1>4, <2>2 DEF Holds
    <3>2. \A x \in cache' : x.id # taken[q].id
      BY <1>6, <2>1, <3>1 DEF CacheIds
    <3>3. ASSUME NEW e \in Calls, NEW r \in DOMAIN slots'[e], Holds(e, r)',
                 taken[q].id = slots'[e][r].block.id
          PROVE  <<d, q>> = <<e, r>>
      <4>1. CASE e = c
        BY <1>4, <1>7, <2>2, <3>1, <3>3, <4>1 DEF Holds
      <4>2. CASE e # c
        BY <1>4, <1>6, <3>1, <3>3, <4>2 DEF Holds, ExclusiveBlocks
      <4> QED
        BY <4>1, <4>2
    <3> QED
      BY <3>1, <3>2, <3>3
  <2>3. CASE d # c
    <3>1. q \in DOMAIN slots[d] /\ slots'[d] = slots[d] /\ Holds(d, q)
      BY <1>4, <2>3 DEF Holds
    <3>2. \A x \in cache : x.id # slots[d][q].block.id
      BY <3>1 DEF ExclusiveBlocks
    <3>3. ASSUME NEW e \in Calls, NEW r \in DOMAIN slots'[e], Holds(e, r)',
                 slots[d][q].block.id = slots'[e][r].block.id
          PROVE  <<d, q>> = <<e, r>>
      <4>1. CASE e = c
        BY <1>4, <1>6, <3>2, <3>3, <4>1 DEF Holds
      <4>2. CASE e # c
        BY <1>4, <3>1, <3>3, <4>2 DEF Holds, ExclusiveBlocks
      <4> QED
        BY <4>1, <4>2
    <3> QED
      BY <2>1, <3>1, <3>2, <3>3
  <2> QED
    BY <2>2, <2>3
<1> QED
  BY <1>8, <1>9, <1>10

LEMMA NextOwnershipInv ==
  SafeInv /\ OwnershipInv /\ [Next]_vars => OwnershipInv'
<1> SUFFICES ASSUME SafeInv, OwnershipInv, [Next]_vars PROVE OwnershipInv'
  OBVIOUS
<1>1. ASSUME UNCHANGED <<cache, slots>> PROVE OwnershipInv'
  BY <1>1, BlocksKept DEF SlotsGrow, Stage
<1>2. CASE UNCHANGED vars \/ AdvanceHead \/ \E c \in Calls : Resolve(c)
  BY <1>1, <1>2 DEF vars, AdvanceHead, Resolve
<1>3. CASE \E j \in Jobs : FetchBlocks(j)
  BY <1>3, FetchBlocksOwnership
<1>4. CASE \E c \in Calls : CollectHashes(c)
  <2>1. PICK c \in Calls : CollectHashes(c)
    BY <1>4
  <2>2. /\ \A d \in Calls : d # c => slots'[d] = slots[d]
        /\ DOMAIN slots'[c] = DOMAIN slots[c]
        /\ \A p \in DOMAIN slots[c] :
             Stage(c, p) = "got" /\ slots'[c][p] = HashFromBatch(c, p)
        /\ cache' = cache
    BY <2>1 DEF CollectHashes, SafeInv, TypeOK
  <2>3. \A p \in DOMAIN slots[c] : slots'[c][p].block = slots[c][p].block
    BY <2>2, HashFromBatchInv
  <2>4. SlotsGrow
    BY <2>2 DEF SlotsGrow, Stage
  <2> QED
    BY <2>2, <2>3, <2>4, BlocksKept
<1>5. CASE \E c \in Calls : \E p \in DOMAIN slots[c] : Answer(c, p) \/ FaultyAnswer(c, p)
  <2>0. PICK c \in Calls : \E p \in DOMAIN slots[c] : Answer(c, p) \/ FaultyAnswer(c, p)
    BY <1>5
  <2>1. PICK p \in DOMAIN slots[c] : Answer(c, p) \/ FaultyAnswer(c, p)
    BY <2>0
  <2>2. CASE LookupOk(c, p)
    BY <2>2, LookupOkOwnership
  <2>3. CASE NextBlockOk(c, p)
    BY <2>3, NextBlockOkOwnership
  <2>4. CASE ~ LookupOk(c, p) /\ ~ NextBlockOk(c, p)
    <3>1. /\ Stage(c, p) # "hashed"
          /\ cache' = cache
          /\ \E stage \in Stages : SetSlot(c, p, [slots[c][p] EXCEPT !.stage = stage])
      BY <2>1, <2>4 DEF Answer, FaultyAnswer, NextBlockMissing, HealthThrows, HealthWaits,
                        WaitEnds, LookupFault, NextBlockFault, HealthFault, Fail, Stages
    <3> QED
      BY <3>1, StageMoveKeeps
  <2> QED
    BY <2>2, <2>3, <2>4
<1>6. CASE Terminating
  BY <1>2, <1>6 DEF Terminating
<1> QED
  BY <1>2, <1>3, <1>4, <1>5, <1>6 DEF Next

\* No block object is in the cache and held by a position, or held by two, of one
\* call of fetchBlocks or of two, whatever the batches and the failures are: what
\* blockInCache returns is out of the cache for good.
THEOREM ExclusiveCorrect == SafeSpec => []ExclusiveBlocks
<1>1. OwnershipInv => ExclusiveBlocks
  BY DEF OwnershipInv
<1> QED
  BY <1>1, InitOwnershipInv, NextOwnershipInv, SafeInvHolds, PTL DEF SafeSpec

------------------------------------------------------------------------------
(***************************************************************************)
(* How often fetchBlocks rejects: TLAPS proofs of AttemptsBounded and      *)
(* WaitsForPendingRound, on top of SafeInv.                                *)
(*                                                                         *)
(* Neither is inductive: the attempt that is about to be lost shows first  *)
(* in a position that is past the catch of getBlockHash.  Such a position  *)
(* got there by a transient failure, or because the round after it was     *)
(* missing; and that can happen in one attempt only, because the chain     *)
(* needs one round more to complete a batch whose heights all exist.       *)
(***************************************************************************)

\* The round after each height of job j is there.
Complete(j) == \A p \in Positions(j) : Batches[j][p] + 1 <= head

PastCatch(c, p) == p \in DOMAIN slots[c] /\ Stage(c, p) \in {"health", "waiting"}

\* A failure of the current call is coming.
Failing(j) == attempt[j] > 0 /\ \E p \in Positions(j) : PastCatch(Current(j), p)

\* It comes from a position whose next round exists already.
FailingEarly(j) ==
  /\ attempt[j] > 0
  /\ \E p \in Positions(j) : PastCatch(Current(j), p) /\ Batches[j][p] + 1 <= head

JobRetry(j) ==
  /\ attempt[j] <= faults[j] + 2
  /\ Rejected(j) \/ Failing(j) => attempt[j] <= faults[j] + 1
  /\ ~ Complete(j) => attempt[j] <= faults[j] + 1
  /\ ~ Complete(j) /\ (Rejected(j) \/ FailingEarly(j)) => attempt[j] <= faults[j]

RetryInv == \A j \in Jobs : JobRetry(j)

\* The counters of a job are numbers.
LEMMA Counters ==
  ASSUME SafeInv, NEW j \in Jobs
  PROVE  /\ attempt[j] \in Nat /\ faults[j] \in Nat /\ head \in Nat
         /\ \A p \in Positions(j) : Batches[j][p] \in Nat
         /\ attempt[j] > 0 => Current(j) \in Calls
<1>1. attempt[j] \in 0 .. MaxAttempts /\ faults[j] \in 0 .. MaxFaults /\ head \in 1 .. MaxRound
  BY DEF SafeInv, TypeOK
<1>2. \A p \in Positions(j) : Batches[j][p] \in 1 .. MaxRound - 1
  BY BatchType DEF Heights
<1>3. attempt[j] > 0 => Current(j) \in Calls
  BY <1>1, NatAssumption DEF Current, Calls
<1> QED
  BY <1>1, <1>2, <1>3, NatAssumption

LEMMA InitRetryInv == Init => RetryInv
<1> SUFFICES ASSUME Init, NEW j \in Jobs PROVE JobRetry(j)
  BY DEF RetryInv
<1>1. attempt[j] = 0 /\ faults[j] = 0
  BY DEF Init
<1> QED
  BY <1>1 DEF JobRetry

\* A step that brings job j no nearer to a rejection.
LEMMA NoNewFailure ==
  ASSUME SafeInv, NEW j \in Jobs, JobRetry(j),
         attempt'[j] = attempt[j], faults'[j] = faults[j], head' = head,
         Rejected(j)' \/ Failing(j)' => Rejected(j) \/ Failing(j),
         Rejected(j)' \/ FailingEarly(j)' => Rejected(j) \/ FailingEarly(j)
  PROVE  JobRetry(j)'
<1>1. Complete(j)' <=> Complete(j)
  BY DEF Complete
<1> QED
  BY <1>1 DEF JobRetry

\* A transient failure pays for one more attempt.
LEMMA FaultPays ==
  ASSUME SafeInv, NEW j \in Jobs, JobRetry(j),
         attempt'[j] = attempt[j], faults'[j] = faults[j] + 1, head' = head
  PROVE  JobRetry(j)'
<1>1. Complete(j)' <=> Complete(j)
  BY DEF Complete
<1>2. attempt[j] \in Nat /\ faults[j] \in Nat
  BY Counters
<1> QED
  BY <1>1, <1>2 DEF JobRetry

\* The current call of job j and its counters are left alone.
LEMMA Untouched ==
  ASSUME SafeInv, NEW j \in Jobs, JobRetry(j),
         attempt'[j] = attempt[j], faults'[j] = faults[j], head' = head,
         attempt[j] > 0 => /\ slots'[Current(j)] = slots[Current(j)]
                           /\ pc'[Current(j)] = pc[Current(j)]
  PROVE  JobRetry(j)'
<1>1. Current(j)' = Current(j)
  BY DEF Current
<1>2. Rejected(j)' <=> Rejected(j)
  BY <1>1 DEF Rejected
<1>3. Failing(j)' <=> Failing(j)
  BY <1>1 DEF Failing, PastCatch, Stage
<1>4. FailingEarly(j)' <=> FailingEarly(j)
  BY <1>1 DEF FailingEarly, PastCatch, Stage
<1> QED
  BY <1>2, <1>3, <1>4, NoNewFailure

\* When the chain grows, every batch that was asked for is complete.
LEMMA AdvanceHeadRetry ==
  ASSUME SafeInv, NEW j \in Jobs, JobRetry(j), AdvanceHead
  PROVE  JobRetry(j)'
<1>1. attempt' = attempt /\ faults' = faults /\ pc' = pc /\ slots' = slots /\ head' = head + 1
  BY DEF AdvanceHead
<1>2. CASE attempt[j] = 0
  <2>1. faults[j] \in Nat
    BY Counters
  <2> QED
    BY <1>1, <1>2, <2>1 DEF JobRetry
<1>3. CASE attempt[j] # 0
  <2>1. attempt[j] > 0
    BY <1>3, Counters
  <2>2. Complete(j)'
    BY <1>1, <2>1, Counters DEF Complete, SafeInv, ReachedInv
  <2>3. Current(j)' = Current(j)
    BY <1>1 DEF Current
  <2>4. (Rejected(j)' <=> Rejected(j)) /\ (Failing(j)' <=> Failing(j))
    BY <1>1, <2>3 DEF Rejected, Failing, PastCatch, Stage
  <2> QED
    BY <1>1, <2>2, <2>4 DEF JobRetry
<1> QED
  BY <1>2, <1>3

\* A new call has lost nothing yet.
LEMMA FetchBlocksRetry ==
  ASSUME SafeInv, NEW j \in Jobs, FetchBlocks(j), NEW k \in Jobs, JobRetry(k)
  PROVE  JobRetry(k)'
<1> DEFINE c == <<j, attempt[j] + 1>>
<1>1. PICK taken \in [Positions(j) -> cache \cup {NoBlock}] :
        /\ \A p \in Positions(j) : taken[p] \in BlockInCache(Batches[j][p])
        /\ c \in Calls
        /\ slots' = [slots EXCEPT ![c] = NewSlots(j, taken)]
        /\ pc' = [pc EXCEPT ![c] = "blocks"]
        /\ attempt' = [attempt EXCEPT ![j] = @ + 1]
        /\ UNCHANGED <<head, nums, faults>>
  BY FetchBlocksEffect
<1>2. attempt[j] = 0 \/ Rejected(j)
  BY DEF FetchBlocks, MayCall
<1>3. attempt[j] \in Nat /\ faults[j] \in Nat
  BY Counters
<1>4. CASE k # j
  <2>1. Current(k) # c
    BY <1>4 DEF Current
  <2>2. attempt'[k] = attempt[k] /\ faults'[k] = faults[k] /\ head' = head
    BY <1>1, <1>4 DEF SafeInv, TypeOK
  <2>3. attempt[k] > 0 => slots'[Current(k)] = slots[Current(k)] /\ pc'[Current(k)] = pc[Current(k)]
    BY <1>1, <2>1, Counters DEF SafeInv, TypeOK
  <2> QED
    BY <2>2, <2>3, Untouched
<1>5. CASE k = j
  <2>1. /\ attempt'[j] = attempt[j] + 1 /\ faults'[j] = faults[j] /\ head' = head
        /\ Current(j)' = c
    BY <1>1 DEF Current, SafeInv, TypeOK
  <2>2. JobOf(c) = j
    BY DEF JobOf
  <2> HIDE DEF c
  <2>3. \A p \in Positions(j) : NewSlots(j, taken)[p].stage \in {"lookup", "got"}
    BY <1>1, <2>2, NewSlotsInv
  <2>4. slots'[c] = NewSlots(j, taken) /\ pc'[c] = "blocks"
    BY <1>1 DEF SafeInv, TypeOK
  <2>5. ~ Rejected(j)'
    BY <2>1, <2>4 DEF Rejected
  <2>6. ~ Failing(j)' /\ ~ FailingEarly(j)'
    BY <2>1, <2>3, <2>4 DEF Failing, FailingEarly, PastCatch, Stage
  <2>7. Complete(j)' <=> Complete(j)
    BY <2>1 DEF Complete
  <2> QED
    BY <1>2, <1>3, <1>5, <2>1, <2>5, <2>6, <2>7 DEF JobRetry
<1> QED
  BY <1>4, <1>5

\* The steps that change no slot past the catch, and reject nothing.
LEMMA CollectHashesRetry ==
  ASSUME SafeInv, NEW c \in Calls, CollectHashes(c) \/ Resolve(c),
         NEW k \in Jobs, JobRetry(k)
  PROVE  JobRetry(k)'
<1>1. UNCHANGED <<head, attempt, faults>>
  BY DEF CollectHashes, Resolve
<1>2. Current(k)' = Current(k)
  BY <1>1 DEF Current
<1>3. CASE attempt[k] > 0 /\ Current(k) = c
  <2>1. pc'[c] \in {"hashes", "resolved"}
    BY DEF CollectHashes, Resolve, SafeInv, TypeOK
  <2>2. ~ Rejected(k)'
    BY <1>2, <1>3, <2>1 DEF Rejected
  <2>3. \A p \in DOMAIN slots[c] : slots'[c][p].stage \in {"next", "hashed"}
    <3>1. CASE CollectHashes(c)
      <4>1. \A p \in DOMAIN slots[c] : Stage(c, p) = "got" /\ slots'[c][p] = HashFromBatch(c, p)
        BY <3>1 DEF CollectHashes, SafeInv, TypeOK
      <4> QED
        BY <4>1, HashFromBatchInv
    <3>2. CASE Resolve(c)
      BY <3>2 DEF Resolve, Stage
    <3> QED
      BY <3>1, <3>2
  <2>4. DOMAIN slots'[c] = DOMAIN slots[c]
    BY DEF CollectHashes, Resolve, SafeInv, TypeOK
  <2>5. ~ Failing(k)' /\ ~ FailingEarly(k)'
    BY <1>2, <1>3, <2>3, <2>4 DEF Failing, FailingEarly, PastCatch, Stage
  <2> QED
    BY <1>1, <2>2, <2>5, NoNewFailure
<1>4. CASE ~ (attempt[k] > 0 /\ Current(k) = c)
  <2>1. attempt[k] > 0 => slots'[Current(k)] = slots[Current(k)] /\ pc'[Current(k)] = pc[Current(k)]
    BY <1>4, Counters DEF CollectHashes, Resolve, SafeInv, TypeOK
  <2> QED
    BY <1>1, <2>1, Untouched
<1> QED
  BY <1>3, <1>4

\* A step at one position, without a transient failure.
LEMMA AnswerRetry ==
  ASSUME SafeInv, NEW c \in Calls, NEW p \in DOMAIN slots[c], Answer(c, p),
         NEW k \in Jobs, JobRetry(k)
  PROVE  JobRetry(k)'
<1> USE DEF Answer, LookupOk, NextBlockOk, NextBlockMissing, HealthThrows, HealthWaits,
            WaitEnds, Fail
<1>1. UNCHANGED <<head, attempt, faults>>
  OBVIOUS
<1>2. PICK s : SetSlot(c, p, s)
  OBVIOUS
<1>3. /\ \A d \in Calls : DOMAIN slots'[d] = DOMAIN slots[d]
      /\ \A q \in DOMAIN slots[c] : q # p => slots'[c][q] = slots[c][q]
      /\ \A d \in Calls : d # c => slots'[d] = slots[d] /\ pc'[d] = pc[d]
  BY <1>2 DEF SetSlot, SafeInv, TypeOK
<1>4. Current(k)' = Current(k)
  BY <1>1 DEF Current
<1>5. CASE ~ (attempt[k] > 0 /\ Current(k) = c)
  <2>1. attempt[k] > 0 => slots'[Current(k)] = slots[Current(k)] /\ pc'[Current(k)] = pc[Current(k)]
    BY <1>3, <1>5, Counters
  <2> QED
    BY <1>1, <2>1, Untouched
<1>6. CASE attempt[k] > 0 /\ Current(k) = c
  <2>1. JobOf(c) = k /\ DOMAIN slots[c] = Positions(k) /\ slots[c][p] \in Slots
    BY <1>6, SlotDomain DEF Current, JobOf, SafeInv
  <2>2. Stage(c, p) \in {"next", "health", "waiting"} => RoundAt(c, p) = Batches[k][p]
    BY <2>1 DEF SafeInv, SlotsInv, SlotInv, RoundAt, Stage
  <2>3. \A q \in Positions(k) : q # p => (PastCatch(c, q)' <=> PastCatch(c, q))
    BY <1>3, <2>1 DEF PastCatch, Stage
  <2>4. attempt[k] \in Nat /\ faults[k] \in Nat /\ head \in Nat /\ Batches[k][p] \in Nat
    BY <2>1, Counters
  <2>5. CASE LookupOk(c, p) \/ NextBlockOk(c, p)
    <3>1. pc' = pc /\ slots'[c][p].stage \in {"got", "hashed"}
      <4>1. CASE LookupOk(c, p)
        BY <2>1, <4>1 DEF SetSlot, SafeInv, TypeOK, Slots
      <4>2. CASE NextBlockOk(c, p)
        BY <2>1, <4>2 DEF SetSlot, SafeInv, TypeOK, Slots
      <4> QED
        BY <2>5, <4>1, <4>2
    <3>2. ~ PastCatch(c, p)'
      BY <3>1 DEF PastCatch, Stage
    <3>3. Rejected(k)' <=> Rejected(k)
      BY <1>1, <1>4, <3>1 DEF Rejected
    <3>4. (Failing(k)' => Failing(k)) /\ (FailingEarly(k)' => FailingEarly(k))
      BY <1>1, <1>4, <1>6, <2>3, <3>2 DEF Failing, FailingEarly
    <3> QED
      BY <1>1, <3>3, <3>4, NoNewFailure
  <2>6. CASE HealthWaits(c, p)
    <3>1. pc' = pc /\ PastCatch(c, p)
      BY <2>6 DEF PastCatch
    <3>2. Rejected(k)' <=> Rejected(k)
      BY <1>1, <1>4, <3>1 DEF Rejected
    <3>3. (Failing(k)' => Failing(k)) /\ (FailingEarly(k)' => FailingEarly(k))
      BY <1>1, <1>4, <1>6, <2>3, <3>1 DEF Failing, FailingEarly
    <3> QED
      BY <1>1, <3>2, <3>3, NoNewFailure
  <2>7. CASE NextBlockMissing(c, p)
    <3>1. pc' = pc /\ ~ (Batches[k][p] + 1 <= head)
      BY <2>2, <2>4, <2>7
    <3>2. ~ Complete(k)
      BY <2>1, <3>1 DEF Complete
    <3>3. Rejected(k)' <=> Rejected(k)
      BY <1>1, <1>4, <3>1 DEF Rejected
    <3>4. FailingEarly(k)' => FailingEarly(k)
      BY <1>1, <1>4, <1>6, <2>3, <3>1 DEF FailingEarly
    <3>5. Complete(k)' <=> Complete(k)
      BY <1>1 DEF Complete
    <3> QED
      BY <1>1, <3>2, <3>3, <3>4, <3>5 DEF JobRetry
  <2>8. CASE HealthThrows(c, p) \/ WaitEnds(c, p)
    <3>1. PastCatch(c, p) /\ Batches[k][p] + 1 <= head
      BY <2>2, <2>4, <2>8 DEF PastCatch
    <3>2. Failing(k) /\ FailingEarly(k)
      BY <1>6, <2>1, <3>1 DEF Failing, FailingEarly
    <3> QED
      BY <1>1, <3>2, NoNewFailure
  <2> QED
    BY <2>5, <2>6, <2>7, <2>8
<1> QED
  BY <1>5, <1>6

LEMMA FaultyAnswerRetry ==
  ASSUME SafeInv, NEW c \in Calls, NEW p \in DOMAIN slots[c], FaultyAnswer(c, p),
         NEW k \in Jobs, JobRetry(k)
  PROVE  JobRetry(k)'
<1> USE DEF FaultyAnswer, LookupFault, NextBlockFault, HealthFault, Fail
<1>1. UNCHANGED <<head, attempt>> /\ Fault(c)
  OBVIOUS
<1>2. JobOf(c) \in Jobs
  BY SlotDomain DEF SafeInv
<1>3. CASE k = JobOf(c)
  <2>1. faults'[k] = faults[k] + 1
    BY <1>1, <1>3 DEF Fault, SafeInv, TypeOK
  <2> QED
    BY <1>1, <2>1, FaultPays
<1>4. CASE k # JobOf(c)
  <2>1. faults'[k] = faults[k]
    BY <1>1, <1>4 DEF Fault, SafeInv, TypeOK
  <2>2. Current(k) # c
    BY <1>4 DEF Current, JobOf
  <2>3. PICK s : SetSlot(c, p, s)
    OBVIOUS
  <2>4. \A d \in Calls : d # c => slots'[d] = slots[d] /\ pc'[d] = pc[d]
    BY <2>3 DEF SetSlot, SafeInv, TypeOK
  <2>5. attempt[k] > 0 => slots'[Current(k)] = slots[Current(k)] /\ pc'[Current(k)] = pc[Current(k)]
    BY <2>2, <2>4, Counters
  <2> QED
    BY <1>1, <2>1, <2>5, Untouched
<1> QED
  BY <1>3, <1>4

LEMMA NextRetryInv == SafeInv /\ RetryInv /\ [Next]_vars => RetryInv'
<1> SUFFICES ASSUME SafeInv, RetryInv, [Next]_vars, NEW k \in Jobs, JobRetry(k)
             PROVE  JobRetry(k)'
  BY DEF RetryInv
<1>1. CASE UNCHANGED vars \/ Terminating
  BY <1>1, Untouched DEF vars, Terminating
<1>2. CASE AdvanceHead
  BY <1>2, AdvanceHeadRetry
<1>3. CASE \E j \in Jobs : FetchBlocks(j)
  BY <1>3, FetchBlocksRetry
<1>4. CASE \E c \in Calls : CollectHashes(c) \/ Resolve(c)
  BY <1>4, CollectHashesRetry
<1>5. CASE \E c \in Calls : \E p \in DOMAIN slots[c] : Answer(c, p) \/ FaultyAnswer(c, p)
  BY <1>5, AnswerRetry, FaultyAnswerRetry
<1> QED
  BY <1>1, <1>2, <1>3, <1>4, <1>5 DEF Next

LEMMA RetryInvHolds == SafeSpec => []RetryInv
BY InitRetryInv, NextRetryInv, SafeInvHolds, PTL DEF SafeSpec

\* fetchBlocks is called for a batch at most once more than it had transient
\* failures, plus once for a round that is still pending: node-core's fixed
\* number of attempts is not used up by waiting at the head of the chain.
THEOREM AttemptsCorrect == SafeSpec => []AttemptsBounded
<1>1. RetryInv => AttemptsBounded
  BY DEF RetryInv, JobRetry, AttemptsBounded
<1> QED
  BY <1>1, RetryInvHolds, PTL

\* Without a transient failure, getBlockHash rejects only once the round after
\* each height of the batch exists, so that the retry finds it.
THEOREM WaitsCorrect == SafeSpec => []WaitsForPendingRound
<1>1. SafeInv /\ RetryInv => WaitsForPendingRound
  <2> SUFFICES ASSUME SafeInv, RetryInv, NEW j \in Jobs, Rejected(j), faults[j] = 0
               PROVE  Complete(j)
    BY DEF WaitsForPendingRound, Complete
  <2>1. attempt[j] \in Nat /\ attempt[j] > 0
    BY Counters DEF Rejected
  <2> QED
    BY <2>1 DEF RetryInv, JobRetry
<1> QED
  BY <1>1, SafeInvHolds, RetryInvHolds, PTL
==============================================================================
