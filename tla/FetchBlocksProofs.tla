-------------------------- MODULE FetchBlocksProofs --------------------------
(***************************************************************************)
(* TLAPS proofs about FetchBlocks, for any jobs, batches, chain and bounds.*)
(***************************************************************************)
EXTENDS FetchBlocks, TLAPS

(***************************************************************************)
(* The inductive invariant.  Each part says what is true of one piece of   *)
(* the state between two steps.                                            *)
(***************************************************************************)

\* A block object holds what the chain holds at its round.
Real(b) == b.round <= head /\ b.previousBlockHash = Hash[b.round - 1]

CacheInv == \A b \in cache : Real(b)

\* The calls made for a job are its attempts so far; all but the last failed.
AttemptInv ==
  \A c \in Calls :
    /\ pc[c] = "idle" <=> c[2] > attempt[c[1]]
    /\ c[2] < attempt[c[1]] => pc[c] = "rejected"

\* A job is only started when the endpoint has its rounds.
ReachedInv ==
  \A j \in Jobs : attempt[j] > 0 =>
    \A p \in Positions(j) : Batches[j][p] <= head

\* What is known of one slot s at position p of call c.
SlotInv(c, p, s) ==
  /\ s.num = Batches[JobOf(c)][p]
  /\ s.block # NoBlock => s.block.round = s.num /\ Real(s.block)
  /\ s.stage \notin {"lookup", "failed"} => s.block # NoBlock
  /\ s.stage = "hashed" => s.hash = Hash[s.num] /\ s.num + 1 <= head

SlotsInv == \A c \in Calls : \A p \in DOMAIN slots[c] : SlotInv(c, p, slots[c][p])

\* The stages a slot can have while its call is at pc.
StageAt(at, stage) ==
  /\ at = "blocks" => stage \in {"lookup", "got"}
  /\ at = "hashes" => stage \in {"next", "health", "waiting", "hashed"}
  /\ at = "resolved" => stage = "hashed"

StageInv == \A c \in Calls : \A p \in DOMAIN slots[c] : StageAt(pc[c], Stage(c, p))

SafeInv ==
  /\ TypeOK
  /\ nums = Batches
  /\ CacheInv
  /\ AttemptInv
  /\ ReachedInv
  /\ SlotsInv
  /\ StageInv
------------------------------------------------------------------------------
(***************************************************************************)
(* Facts about the operators of the model.                                 *)
(***************************************************************************)

\* A batch is a function from its positions to heights.
LEMMA BatchType ==
  ASSUME NEW j \in Jobs
  PROVE  /\ Batches[j] \in Seq(Heights)
         /\ Batches[j] \in [Positions(j) -> Heights]
         /\ Positions(j) \subseteq Nat
<1>1. Batches[j] \in Seq(Heights)
  BY BatchAssumption
<1>2. /\ Positions(j) = 1 .. Len(Batches[j])
      /\ Len(Batches[j]) \in Nat
      /\ Batches[j] \in [1 .. Len(Batches[j]) -> Heights]
  BY <1>1 DEF Positions
<1> QED
  BY <1>1, <1>2

\* A call has slots only once it was made; they are at its batch's positions.
LEMMA SlotDomain ==
  ASSUME TypeOK, NEW c \in Calls, NEW p \in DOMAIN slots[c]
  PROVE  /\ pc[c] # "idle"
         /\ JobOf(c) \in Jobs
         /\ DOMAIN slots[c] = Positions(JobOf(c))
         /\ slots[c] \in [Positions(JobOf(c)) -> Slots]
         /\ slots[c][p] \in Slots
         /\ p \in Nat
<1>1. JobOf(c) \in Jobs
  BY DEF Calls, JobOf
<1>2. CASE pc[c] = "idle" /\ slots[c] = << >>
  BY <1>2
<1>3. CASE pc[c] # "idle" /\ slots[c] \in [Positions(JobOf(c)) -> Slots]
  BY <1>1, <1>3, BatchType
<1> QED
  BY <1>2, <1>3 DEF TypeOK

\* SetSlot changes the slot at one position of one call and nothing else.
LEMMA SlotUpdate ==
  ASSUME TypeOK, NEW c \in Calls, NEW p \in DOMAIN slots[c], NEW s, SetSlot(c, p, s)
  PROVE  /\ DOMAIN slots' = Calls
         /\ \A d \in Calls : DOMAIN slots'[d] = DOMAIN slots[d]
         /\ slots'[c][p] = s
         /\ \A d \in Calls : \A q \in DOMAIN slots[d] :
              d # c \/ q # p => slots'[d][q] = slots[d][q]
         /\ \A d \in Calls : d # c => slots'[d] = slots[d]
         /\ slots'[c] = [slots[c] EXCEPT ![p] = s]
BY DEF TypeOK, SetSlot

\* What lookupBlock returns is a block of the chain.
LEMMA LookedUpType ==
  ASSUME NEW id \in BlockIds, NEW r \in 1 .. MaxRound
  PROVE  /\ LookedUp(id, r) \in Blocks
         /\ LookedUp(id, r).id = id
         /\ LookedUp(id, r).round = r
         /\ LookedUp(id, r).previousBlockHash = Hash[r - 1]
<1>1. r - 1 \in 0 .. MaxRound
  BY NatAssumption
<1>2. Hash[r - 1] \in Hashes
  BY <1>1, ChainAssumption
<1> QED
  BY <1>2 DEF LookedUp, Blocks
------------------------------------------------------------------------------
(***************************************************************************)
(* SafeInv is inductive.                                                   *)
(***************************************************************************)
LEMMA InitSafeInv == Init => SafeInv
<1> SUFFICES ASSUME Init PROVE SafeInv
  OBVIOUS
<1> USE DEF Init
<1>1. TypeOK
  <2>1. nums \in [Jobs -> Seq(Heights)]
    BY BatchAssumption
  <2>2. \A c \in Calls : pc[c] = "idle" /\ slots[c] = << >>
    OBVIOUS
  <2> QED
    BY <2>1, <2>2, NatAssumption DEF TypeOK
<1>2. AttemptInv
  BY DEF AttemptInv, Calls
<1>3. SlotsInv /\ StageInv
  BY DEF SlotsInv, StageInv
<1>4. CacheInv /\ ReachedInv
  BY DEF CacheInv, ReachedInv
<1> QED
  BY <1>1, <1>2, <1>3, <1>4 DEF SafeInv

\* A step at one position keeps SafeInv when the slot it writes and the cache
\* it leaves are as they should be.
LEMMA PositionStep ==
  ASSUME SafeInv,
         NEW c \in Calls, NEW p \in DOMAIN slots[c], NEW s \in Slots,
         SetSlot(c, p, s),
         SlotInv(c, p, s),
         UNCHANGED <<head, nums, attempt>>,
         cache' \subseteq Blocks,
         \A b \in cache' : Real(b),
         faults' \in [Jobs -> 0 .. MaxFaults],
         \/ pc' = pc /\ StageAt(pc[c], s.stage)
         \/ pc' = [pc EXCEPT ![c] = "rejected"]
  PROVE  SafeInv'
<1> USE DEF SafeInv
<1>1. /\ DOMAIN slots' = Calls
      /\ \A d \in Calls : DOMAIN slots'[d] = DOMAIN slots[d]
      /\ slots'[c][p] = s
      /\ \A d \in Calls : \A q \in DOMAIN slots[d] :
           d # c \/ q # p => slots'[d][q] = slots[d][q]
      /\ \A d \in Calls : d # c => slots'[d] = slots[d]
      /\ slots'[c] = [slots[c] EXCEPT ![p] = s]
  BY SlotUpdate
<1>2. /\ pc[c] # "idle"
      /\ slots[c] \in [Positions(JobOf(c)) -> Slots]
      /\ DOMAIN slots[c] = Positions(JobOf(c))
  BY SlotDomain
<1>3. /\ pc' \in [Calls -> {"idle", "blocks", "hashes", "resolved", "rejected"}]
      /\ \A d \in Calls : d # c => pc'[d] = pc[d]
      /\ pc'[c] = "rejected" \/ pc'[c] = pc[c]
      /\ StageAt(pc'[c], s.stage)
  BY DEF TypeOK, StageAt
<1>4. TypeOK'
  <2>1. slots'[c] \in [Positions(JobOf(c)) -> Slots] /\ pc'[c] # "idle"
    BY <1>1, <1>2, <1>3
  <2>2. \A d \in Calls :
          \/ pc'[d] = "idle" /\ slots'[d] = << >>
          \/ pc'[d] # "idle" /\ slots'[d] \in [Positions(JobOf(d)) -> Slots]
    BY <1>1, <1>3, <2>1 DEF TypeOK
  <2> QED
    BY <1>1, <1>3, <2>2 DEF TypeOK
<1>5. AttemptInv'
  BY <1>2, <1>3 DEF AttemptInv
<1>6. SlotsInv'
  BY <1>1 DEF SlotsInv, SlotInv, Real
<1>7. StageInv'
  <2> SUFFICES ASSUME NEW d \in Calls, NEW q \in DOMAIN slots'[d]
               PROVE  StageAt(pc'[d], slots'[d][q].stage)
    BY DEF StageInv, Stage
  <2>1. q \in DOMAIN slots[d] /\ StageAt(pc[d], slots[d][q].stage)
    BY <1>1 DEF StageInv, Stage
  <2>2. CASE d # c
    BY <1>1, <1>3, <2>1, <2>2
  <2>3. CASE d = c /\ q # p
    BY <1>1, <1>3, <2>1, <2>3 DEF StageAt
  <2>4. CASE d = c /\ q = p
    BY <1>1, <1>3, <2>4
  <2> QED
    BY <2>2, <2>3, <2>4
<1>8. CacheInv' /\ ReachedInv' /\ nums' = Batches
  BY DEF CacheInv, ReachedInv, Real
<1> QED
  BY <1>4, <1>5, <1>6, <1>7, <1>8

\* The steps that only move a slot to another stage.
LEMMA StageMove ==
  ASSUME SafeInv,
         NEW c \in Calls, NEW p \in DOMAIN slots[c],
         NEW stage \in Stages \ {"hashed"},
         Stage(c, p) # "lookup" \/ stage = "failed",
         Stage(c, p) # "failed",
         SetSlot(c, p, [slots[c][p] EXCEPT !.stage = stage]),
         UNCHANGED <<head, cache, nums, attempt>>,
         faults' \in [Jobs -> 0 .. MaxFaults],
         \/ pc' = pc /\ StageAt(pc[c], stage)
         \/ pc' = [pc EXCEPT ![c] = "rejected"]
  PROVE  SafeInv'
<1> DEFINE s == [slots[c][p] EXCEPT !.stage = stage]
<1> USE DEF SafeInv
<1>1. slots[c][p] \in Slots
  BY SlotDomain
<1>2. s \in Slots /\ s.stage = stage
  BY <1>1 DEF Slots
<1>3. SlotInv(c, p, s)
  BY <1>1 DEF SlotsInv, SlotInv, Slots, Stage, Stages
<1>4. cache' \subseteq Blocks /\ \A b \in cache' : Real(b)
  BY DEF CacheInv, TypeOK
<1> HIDE DEF s
<1>5. SetSlot(c, p, s)
  BY DEF s
<1> QED
  BY <1>2, <1>3, <1>4, <1>5, PositionStep

\* One step of the endpoint's answers, its failures included, keeps SafeInv.
LEMMA AnswerSafeInv ==
  ASSUME SafeInv, NEW c \in Calls, NEW p \in DOMAIN slots[c],
         Answer(c, p) \/ FaultyAnswer(c, p)
  PROVE  SafeInv'
<1> USE DEF SafeInv
<1>1. /\ JobOf(c) \in Jobs
      /\ slots[c][p] \in Slots
      /\ p \in Nat
      /\ SlotInv(c, p, slots[c][p])
      /\ StageAt(pc[c], Stage(c, p))
  BY SlotDomain DEF SlotsInv, StageInv
<1>2. ASSUME Fault(c) PROVE faults' \in [Jobs -> 0 .. MaxFaults]
  BY <1>1, <1>2, NatAssumption DEF Fault, TypeOK
<1>3. ASSUME UNCHANGED faults PROVE faults' \in [Jobs -> 0 .. MaxFaults]
  BY <1>3 DEF TypeOK
<1>4. CASE LookupOk(c, p)
  <2> DEFINE b == LookedUp(<<c, p, "own">>, Num(c, p))
             s == [slots[c][p] EXCEPT !.stage = "got", !.block = b]
  <2>1. Num(c, p) \in 1 .. MaxRound /\ <<c, p, "own">> \in BlockIds
    BY <1>1, NatAssumption DEF Num, Slots, Heights, BlockIds
  <2>2. /\ b \in Blocks
        /\ b.round = Num(c, p)
        /\ b.previousBlockHash = Hash[Num(c, p) - 1]
    BY <2>1, LookedUpType
  <2>3. s \in Slots /\ s.stage = "got" /\ s.block = b /\ s.num = Num(c, p)
    BY <1>1, <2>2 DEF Slots, Stages, Num
  <2>4. SlotInv(c, p, s)
    BY <1>1, <1>4, <2>2, <2>3, NoBlockAssumption DEF SlotInv, Real, LookupOk, Num
  <2>5. /\ pc' = pc
        /\ StageAt(pc[c], "got")
        /\ UNCHANGED <<head, nums, attempt>>
        /\ cache' \subseteq Blocks
        /\ \A x \in cache' : Real(x)
    BY <1>4 DEF LookupOk, StageAt, CacheInv, TypeOK
  <2>6. SetSlot(c, p, s)
    BY <1>4 DEF LookupOk
  <2>7. faults' \in [Jobs -> 0 .. MaxFaults]
    BY <1>3, <1>4 DEF LookupOk
  <2> HIDE DEF s, b
  <2> QED
    BY <2>3, <2>4, <2>5, <2>6, <2>7, PositionStep
<1>5. CASE NextBlockOk(c, p)
  <2> DEFINE r == RoundAt(c, p) + 1
             b == LookedUp(<<c, p, "next">>, r)
             s == [slots[c][p] EXCEPT !.stage = "hashed", !.hash = b.previousBlockHash]
  <2>1. /\ Stage(c, p) = "next"
        /\ r <= head
        /\ cache' = cache \cup {b}
        /\ SetSlot(c, p, s)
        /\ UNCHANGED <<head, nums, attempt, pc, faults>>
    BY <1>5 DEF NextBlockOk
  <2>2. /\ slots[c][p].num \in Heights
        /\ RoundAt(c, p) = slots[c][p].num
        /\ slots[c][p].block # NoBlock
    BY <1>1, <2>1 DEF SlotInv, RoundAt, Slots, Stage
  <2>3. r \in 1 .. MaxRound /\ r - 1 = slots[c][p].num /\ <<c, p, "next">> \in BlockIds
    BY <1>1, <2>2, NatAssumption DEF BlockIds, Heights
  <2>4. /\ b \in Blocks
        /\ b.round = r
        /\ b.previousBlockHash = Hash[r - 1]
    BY <2>3, LookedUpType
  <2>5. b.previousBlockHash = Hash[slots[c][p].num]
    BY <2>3, <2>4
  <2>6. /\ s \in Slots
        /\ s.stage = "hashed"
        /\ s.hash = b.previousBlockHash
        /\ s.num = slots[c][p].num
        /\ s.block = slots[c][p].block
    BY <1>1, <2>4 DEF Slots, Stages, Blocks
  <2>7. SlotInv(c, p, s)
    BY <1>1, <2>1, <2>2, <2>5, <2>6 DEF SlotInv
  <2>8. cache' \subseteq Blocks /\ \A x \in cache' : Real(x)
    BY <2>1, <2>4 DEF CacheInv, TypeOK, Real
  <2>9. StageAt(pc[c], "hashed")
    BY <1>1, <2>1 DEF StageAt
  <2>10. faults' \in [Jobs -> 0 .. MaxFaults]
    BY <1>3, <2>1
  <2> HIDE DEF s, b, r
  <2> QED
    BY <2>1, <2>6, <2>7, <2>8, <2>9, <2>10, PositionStep
<1>6. CASE NextBlockMissing(c, p) \/ NextBlockFault(c, p)
  <2>1. faults' \in [Jobs -> 0 .. MaxFaults]
    BY <1>2, <1>3, <1>6 DEF NextBlockMissing, NextBlockFault
  <2>2. Stage(c, p) = "next" /\ StageAt(pc[c], "health")
    BY <1>1, <1>6 DEF NextBlockMissing, NextBlockFault, StageAt
  <2>3. /\ SetSlot(c, p, [slots[c][p] EXCEPT !.stage = "health"])
        /\ UNCHANGED <<head, cache, nums, attempt, pc>>
    BY <1>6 DEF NextBlockMissing, NextBlockFault
  <2>4. "health" \in Stages \ {"hashed"}
    BY DEF Stages
  <2> QED
    BY <2>1, <2>2, <2>3, <2>4, StageMove
<1>7. CASE HealthWaits(c, p)
  <2>1. Stage(c, p) = "health" /\ StageAt(pc[c], "waiting")
    BY <1>1, <1>7 DEF HealthWaits, StageAt
  <2>2. "waiting" \in Stages \ {"hashed"}
    BY DEF Stages
  <2> QED
    BY <1>3, <1>7, <2>1, <2>2, StageMove DEF HealthWaits
<1>8. CASE \/ HealthThrows(c, p) \/ WaitEnds(c, p)
           \/ LookupFault(c, p) \/ HealthFault(c, p)
  <2>1. faults' \in [Jobs -> 0 .. MaxFaults]
    BY <1>2, <1>3, <1>8 DEF HealthThrows, WaitEnds, LookupFault, HealthFault
  <2>2. Fail(c, p) /\ Stage(c, p) # "failed"
    BY <1>8 DEF HealthThrows, WaitEnds, LookupFault, HealthFault
  <2>3. "failed" \in Stages \ {"hashed"}
    BY DEF Stages
  <2> QED
    BY <2>1, <2>2, <2>3, StageMove DEF Fail
<1> QED
  BY <1>4, <1>5, <1>6, <1>7, <1>8 DEF Answer, FaultyAnswer

\* The chain grows: what was known of a round stays known.
LEMMA AdvanceHeadSafeInv == SafeInv /\ AdvanceHead => SafeInv'
<1> SUFFICES ASSUME SafeInv, AdvanceHead PROVE SafeInv'
  OBVIOUS
<1> USE DEF SafeInv, AdvanceHead
<1>1. head \in Nat /\ head' = head + 1 /\ head' \in 1 .. MaxRound
  BY NatAssumption DEF TypeOK
<1>2. TypeOK'
  BY <1>1 DEF TypeOK
<1>3. ASSUME NEW b \in Blocks, Real(b) PROVE Real(b)'
  BY <1>1, <1>3 DEF Real, Blocks
<1>4. CacheInv'
  BY <1>3 DEF CacheInv, TypeOK
<1>5. ReachedInv'
  <2>1. \A j \in Jobs : \A p \in Positions(j) : Batches[j][p] \in Int
    BY BatchType DEF Heights
  <2> QED
    BY <1>1, <2>1 DEF ReachedInv
<1>6. SlotsInv'
  <2> SUFFICES ASSUME NEW c \in Calls, NEW p \in DOMAIN slots[c]
               PROVE  SlotInv(c, p, slots[c][p])'
    BY DEF SlotsInv
  <2>1. slots[c][p] \in Slots /\ SlotInv(c, p, slots[c][p])
    BY SlotDomain DEF SlotsInv
  <2>2. slots[c][p].num \in Int
    BY <2>1 DEF Slots, Heights
  <2>3. slots[c][p].block # NoBlock => Real(slots[c][p].block)'
    BY <1>3, <2>1 DEF SlotInv, Slots
  <2> QED
    BY <1>1, <2>1, <2>2, <2>3 DEF SlotInv
<1>7. StageInv' /\ AttemptInv'
  BY DEF StageInv, AttemptInv, Stage
<1> QED
  BY <1>2, <1>4, <1>5, <1>6, <1>7

\* A hash found in the batch is the hash of the round at p.
LEMMA HashFromBatchInv ==
  ASSUME SafeInv, NEW c \in Calls, NEW p \in DOMAIN slots[c],
         \A q \in DOMAIN slots[c] : Stage(c, q) = "got"
  PROVE  /\ HashFromBatch(c, p) \in Slots
         /\ SlotInv(c, p, HashFromBatch(c, p))
         /\ HashFromBatch(c, p).stage \in {"next", "hashed"}
         /\ HashFromBatch(c, p).block = slots[c][p].block
<1> USE DEF SafeInv
<1>1. \A q \in DOMAIN slots[c] :
        /\ slots[c][q] \in Slots
        /\ slots[c][q].num \in Heights
        /\ slots[c][q].block \in Blocks
        /\ slots[c][q].block # NoBlock
        /\ RoundAt(c, q) = slots[c][q].num
        /\ Real(slots[c][q].block)
        /\ SlotInv(c, q, slots[c][q])
  BY SlotDomain DEF SlotsInv, SlotInv, Slots, Stage, RoundAt
<1>2. CASE Successors(c, p) = {}
  <2>1. HashFromBatch(c, p) = [slots[c][p] EXCEPT !.stage = "next"]
    BY <1>2 DEF HashFromBatch
  <2> QED
    BY <1>1, <2>1 DEF SlotInv, Slots, Stages
<1>3. CASE Successors(c, p) # {}
  <2> DEFINE q == CHOOSE q \in Successors(c, p) : TRUE
             h == slots[c][q].block.previousBlockHash
  <2>1. q \in Successors(c, p)
    BY <1>3
  <2>2. q \in DOMAIN slots[c] /\ slots[c][q].num = slots[c][p].num + 1
    BY <1>1, <2>1 DEF Successors
  <2>3. HashFromBatch(c, p) = [slots[c][p] EXCEPT !.stage = "hashed", !.hash = h]
    BY <1>3 DEF HashFromBatch
  <2> HIDE DEF q
  <2>4. h \in Hashes /\ h = Hash[slots[c][q].num - 1] /\ slots[c][q].num <= head
    BY <1>1, <2>2 DEF Real, Blocks, RoundAt
  <2>5. slots[c][q].num - 1 = slots[c][p].num
    BY <1>1, <2>2 DEF Heights
  <2> HIDE DEF h
  <2>6. h = Hash[slots[c][p].num] /\ slots[c][p].num + 1 <= head
    BY <2>2, <2>4, <2>5
  <2> QED
    BY <1>1, <2>3, <2>4, <2>6 DEF SlotInv, Slots, Stages
<1> QED
  BY <1>2, <1>3

LEMMA CollectHashesSafeInv ==
  ASSUME SafeInv, NEW c \in Calls, CollectHashes(c)
  PROVE  SafeInv'
<1> USE DEF SafeInv, CollectHashes
<1>1. /\ DOMAIN slots' = Calls
      /\ slots'[c] = [p \in DOMAIN slots[c] |-> HashFromBatch(c, p)]
      /\ DOMAIN slots'[c] = DOMAIN slots[c]
      /\ \A d \in Calls : d # c => slots'[d] = slots[d]
  BY DEF TypeOK
<1>2. /\ pc' \in [Calls -> {"idle", "blocks", "hashes", "resolved", "rejected"}]
      /\ pc'[c] = "hashes"
      /\ \A d \in Calls : d # c => pc'[d] = pc[d]
  BY DEF TypeOK
<1>3. \A p \in DOMAIN slots[c] :
        /\ slots'[c][p] = HashFromBatch(c, p)
        /\ slots'[c][p] \in Slots
        /\ SlotInv(c, p, slots'[c][p])
        /\ slots'[c][p].stage \in {"next", "hashed"}
  BY <1>1, HashFromBatchInv
<1>4. TypeOK'
  <2>1. slots[c] \in [Positions(JobOf(c)) -> Slots]
    BY DEF TypeOK
  <2>2. slots'[c] \in [Positions(JobOf(c)) -> Slots]
    BY <1>1, <1>3, <2>1
  <2>3. \A d \in Calls :
          \/ pc'[d] = "idle" /\ slots'[d] = << >>
          \/ pc'[d] # "idle" /\ slots'[d] \in [Positions(JobOf(d)) -> Slots]
    BY <1>1, <1>2, <2>2 DEF TypeOK
  <2> QED
    BY <1>1, <1>2, <2>3 DEF TypeOK
<1>5. AttemptInv'
  BY <1>2 DEF AttemptInv
<1>6. SlotsInv'
  BY <1>1, <1>3 DEF SlotsInv, SlotInv, Real
<1>7. StageInv'
  BY <1>1, <1>2, <1>3 DEF StageInv, Stage, StageAt
<1>8. CacheInv' /\ ReachedInv'
  BY DEF CacheInv, ReachedInv, Real
<1> QED
  BY <1>4, <1>5, <1>6, <1>7, <1>8

LEMMA ResolveSafeInv ==
  ASSUME SafeInv, NEW c \in Calls, Resolve(c)
  PROVE  SafeInv'
<1> USE DEF SafeInv, Resolve
<1>1. /\ pc' \in [Calls -> {"idle", "blocks", "hashes", "resolved", "rejected"}]
      /\ pc'[c] = "resolved"
      /\ \A d \in Calls : d # c => pc'[d] = pc[d]
  BY DEF TypeOK
<1>2. TypeOK'
  BY <1>1 DEF TypeOK
<1>3. AttemptInv'
  BY <1>1 DEF AttemptInv
<1>4. StageInv'
  BY <1>1 DEF StageInv, Stage, StageAt
<1>5. CacheInv' /\ ReachedInv' /\ SlotsInv'
  BY DEF CacheInv, ReachedInv, Real, SlotsInv, SlotInv
<1> QED
  BY <1>2, <1>3, <1>4, <1>5

\* The new call: its slots, with the cached blocks taken at each position.
NewSlots(j, taken) ==
  [p \in DOMAIN nums[j] |->
     [stage |-> IF taken[p] = NoBlock THEN "lookup" ELSE "got",
      num   |-> nums[j][p],
      block |-> taken[p],
      hash  |-> NoHash]]

\* What a call of fetchBlocks does, with the taken blocks named.
LEMMA FetchBlocksEffect ==
  ASSUME SafeInv, NEW j \in Jobs, FetchBlocks(j)
  PROVE  \E taken \in [Positions(j) -> cache \cup {NoBlock}] :
           LET c == <<j, attempt[j] + 1>>
           IN  /\ \A p \in Positions(j) : taken[p] \in BlockInCache(Batches[j][p])
               /\ cache' = cache \ {taken[p] : p \in Positions(j)}
               /\ c \in Calls
               /\ pc[c] = "idle"
               /\ slots[c] = << >>
               /\ slots' = [slots EXCEPT ![c] = NewSlots(j, taken)]
               /\ pc' = [pc EXCEPT ![c] = "blocks"]
               /\ attempt' = [attempt EXCEPT ![j] = @ + 1]
               /\ UNCHANGED <<head, nums, faults>>
<1> USE DEF SafeInv
<1>1. attempt[j] \in Nat /\ attempt[j] < MaxAttempts
  BY NatAssumption DEF FetchBlocks, MayCall, TypeOK
<1>2. <<j, attempt[j] + 1>> \in Calls
  BY <1>1, NatAssumption DEF Calls
<1>3. pc[<<j, attempt[j] + 1>>] = "idle"
  BY <1>1, <1>2 DEF AttemptInv
<1>4. slots[<<j, attempt[j] + 1>>] = << >>
  BY <1>2, <1>3 DEF TypeOK
<1>5. DOMAIN nums[j] = Positions(j) /\ nums[j] = Batches[j]
  BY DEF Positions
<1>6. PICK taken \in [DOMAIN nums[j] -> cache \cup {NoBlock}] :
         /\ \A p \in DOMAIN nums[j] : taken[p] \in BlockInCache(nums[j][p])
         /\ cache' = SpliceTaken({taken[p] : p \in DOMAIN nums[j]})
         /\ slots' = [slots EXCEPT ![<<j, attempt[j] + 1>>] = NewSlots(j, taken)]
  BY DEF FetchBlocks, NewSlots
<1>7. cache' = cache \ {taken[p] : p \in Positions(j)}
  BY <1>5, <1>6 DEF SpliceTaken
<1>8. /\ pc' = [pc EXCEPT ![<<j, attempt[j] + 1>>] = "blocks"]
      /\ attempt' = [attempt EXCEPT ![j] = @ + 1]
      /\ UNCHANGED <<head, nums, faults>>
  BY DEF FetchBlocks
<1> QED
  BY <1>2, <1>3, <1>4, <1>5, <1>6, <1>7, <1>8

\* The slots of a new call are well formed.
LEMMA NewSlotsInv ==
  ASSUME SafeInv, NEW j \in Jobs, NEW c \in Calls, JobOf(c) = j,
         NEW taken \in [Positions(j) -> cache \cup {NoBlock}],
         \A p \in Positions(j) : taken[p] \in BlockInCache(Batches[j][p])
  PROVE  /\ NewSlots(j, taken) \in [Positions(j) -> Slots]
         /\ \A p \in Positions(j) :
              /\ SlotInv(c, p, NewSlots(j, taken)[p])
              /\ NewSlots(j, taken)[p].stage \in {"lookup", "got"}
              /\ NewSlots(j, taken)[p].block = taken[p]
<1> USE DEF SafeInv
<1>1. DOMAIN nums[j] = Positions(j) /\ nums[j] = Batches[j]
  BY DEF Positions
<1>2. ASSUME NEW p \in Positions(j)
      PROVE  /\ taken[p] \in Blocks \cup {NoBlock}
             /\ taken[p] # NoBlock => taken[p].round = Batches[j][p] /\ Real(taken[p])
             /\ Batches[j][p] \in Heights
  BY BatchType DEF TypeOK, BlockInCache, CacheInv
<1> DEFINE s(p) == [stage |-> IF taken[p] = NoBlock THEN "lookup" ELSE "got",
                    num   |-> Batches[j][p],
                    block |-> taken[p],
                    hash  |-> NoHash]
<1>3. ASSUME NEW p \in Positions(j)
      PROVE  /\ s(p) \in Slots
             /\ SlotInv(c, p, s(p))
             /\ s(p).stage \in {"lookup", "got"}
             /\ s(p).block = taken[p]
  BY <1>2 DEF Slots, Stages, SlotInv
<1>4. NewSlots(j, taken) = [p \in Positions(j) |-> s(p)]
  BY <1>1 DEF NewSlots
<1> HIDE DEF s
<1> QED
  BY <1>3, <1>4

LEMMA FetchBlocksSafeInv ==
  ASSUME SafeInv, NEW j \in Jobs, FetchBlocks(j)
  PROVE  SafeInv'
<1> USE DEF SafeInv
<1> DEFINE c == <<j, attempt[j] + 1>>
<1>1. PICK taken \in [Positions(j) -> cache \cup {NoBlock}] :
        /\ \A p \in Positions(j) : taken[p] \in BlockInCache(Batches[j][p])
        /\ cache' = cache \ {taken[p] : p \in Positions(j)}
        /\ c \in Calls
        /\ pc[c] = "idle"
        /\ slots[c] = << >>
        /\ slots' = [slots EXCEPT ![c] = NewSlots(j, taken)]
        /\ pc' = [pc EXCEPT ![c] = "blocks"]
        /\ attempt' = [attempt EXCEPT ![j] = @ + 1]
        /\ UNCHANGED <<head, nums, faults>>
  BY FetchBlocksEffect
<1>2. JobOf(c) = j /\ c[1] = j /\ c[2] = attempt[j] + 1
  BY DEF JobOf
<1>3. attempt[j] \in Nat /\ attempt[j] + 1 \in 0 .. MaxAttempts
  BY <1>1, NatAssumption DEF TypeOK, Calls
<1> HIDE DEF c
<1>4. /\ NewSlots(j, taken) \in [Positions(j) -> Slots]
      /\ \A p \in Positions(j) :
           /\ SlotInv(c, p, NewSlots(j, taken)[p])
           /\ NewSlots(j, taken)[p].stage \in {"lookup", "got"}
  BY <1>1, <1>2, NewSlotsInv
<1>5. /\ DOMAIN slots' = Calls
      /\ slots'[c] = NewSlots(j, taken)
      /\ DOMAIN slots'[c] = Positions(j)
      /\ \A d \in Calls : d # c => slots'[d] = slots[d]
      /\ pc' \in [Calls -> {"idle", "blocks", "hashes", "resolved", "rejected"}]
      /\ pc'[c] = "blocks"
      /\ \A d \in Calls : d # c => pc'[d] = pc[d]
  BY <1>1, <1>4 DEF TypeOK
<1>6. /\ attempt' \in [Jobs -> 0 .. MaxAttempts]
      /\ attempt'[j] = attempt[j] + 1
      /\ \A k \in Jobs : k # j => attempt'[k] = attempt[k]
  BY <1>1, <1>3 DEF TypeOK
<1>7. TypeOK'
  <2>1. \A d \in Calls :
          \/ pc'[d] = "idle" /\ slots'[d] = << >>
          \/ pc'[d] # "idle" /\ slots'[d] \in [Positions(JobOf(d)) -> Slots]
    BY <1>2, <1>4, <1>5 DEF TypeOK
  <2> QED
    BY <1>1, <1>5, <1>6, <2>1 DEF TypeOK
<1>8. attempt[j] = 0 \/ pc[<<j, attempt[j]>>] = "rejected"
  BY DEF FetchBlocks, MayCall, Rejected, Current
<1>9. AttemptInv'
  <2> SUFFICES ASSUME NEW d \in Calls
               PROVE  /\ pc'[d] = "idle" <=> d[2] > attempt'[d[1]]
                      /\ d[2] < attempt'[d[1]] => pc'[d] = "rejected"
    BY DEF AttemptInv
  <2>1. /\ d[1] \in Jobs /\ d[2] \in Nat \ {0} /\ d = <<d[1], d[2]>>
        /\ attempt[d[1]] \in Nat
    BY NatAssumption DEF Calls, TypeOK
  <2>2. /\ pc[d] = "idle" <=> d[2] > attempt[d[1]]
        /\ d[2] < attempt[d[1]] => pc[d] = "rejected"
    BY DEF AttemptInv
  <2>3. CASE d[1] # j
    BY <1>2, <1>5, <1>6, <2>1, <2>2, <2>3
  <2>4. CASE d[1] = j /\ d[2] = attempt[j] + 1
    <3>1. d = c
      BY <2>1, <2>4 DEF c
    <3> QED
      BY <1>2, <1>3, <1>5, <1>6, <2>1, <2>4, <3>1
  <2>5. CASE d[1] = j /\ d[2] = attempt[j]
    <3>1. d # c /\ d = <<j, attempt[j]>> /\ attempt[j] # 0
      BY <1>2, <1>3, <2>1, <2>5
    <3> QED
      BY <1>3, <1>5, <1>6, <1>8, <2>1, <2>5, <3>1
  <2>6. CASE d[1] = j /\ d[2] # attempt[j] + 1 /\ d[2] # attempt[j]
    <3>1. d # c
      BY <1>2, <2>6
    <3> QED
      BY <1>3, <1>5, <1>6, <2>1, <2>2, <2>6, <3>1
  <2> QED
    BY <2>3, <2>4, <2>5, <2>6
<1>10. SlotsInv'
  <2>1. \A d \in Calls : \A p \in DOMAIN slots'[d] : SlotInv(d, p, slots'[d][p])
    BY <1>4, <1>5 DEF SlotsInv
  <2> QED
    BY <1>1, <2>1 DEF SlotsInv, SlotInv, Real
<1>11. StageInv'
  BY <1>4, <1>5 DEF StageInv, Stage, StageAt
<1>12. CacheInv'
  BY <1>1 DEF CacheInv, Real
<1>13. ReachedInv'
  <2>1. \A p \in Positions(j) : Batches[j][p] <= head
    BY <1>3 DEF FetchBlocks, MayCall, ReachedInv, Positions
  <2> QED
    BY <1>1, <1>6, <2>1 DEF ReachedInv
<1> QED
  BY <1>1, <1>7, <1>9, <1>10, <1>11, <1>12, <1>13

LEMMA NextSafeInv == SafeInv /\ [Next]_vars => SafeInv'
<1> SUFFICES ASSUME SafeInv, [Next]_vars PROVE SafeInv'
  OBVIOUS
<1>1. CASE UNCHANGED vars
  BY <1>1 DEF vars, SafeInv, TypeOK, CacheInv, AttemptInv, ReachedInv, SlotsInv,
              SlotInv, StageInv, Stage, Real
<1>2. CASE AdvanceHead
  BY <1>2, AdvanceHeadSafeInv
<1>3. CASE \E j \in Jobs : FetchBlocks(j)
  BY <1>3, FetchBlocksSafeInv
<1>4. CASE \E c \in Calls : CollectHashes(c) \/ Resolve(c)
  BY <1>4, CollectHashesSafeInv, ResolveSafeInv
<1>5. CASE \E c \in Calls : \E p \in DOMAIN slots[c] : Answer(c, p) \/ FaultyAnswer(c, p)
  BY <1>5, AnswerSafeInv
<1>6. CASE Terminating
  BY <1>1, <1>6 DEF Terminating
<1> QED
  BY <1>1, <1>2, <1>3, <1>4, <1>5, <1>6 DEF Next

LEMMA SafeInvHolds == SafeSpec => []SafeInv
BY InitSafeInv, NextSafeInv, PTL DEF SafeSpec

\* Every reachable state of concurrent fetchBlocks calls has the declared shape.
THEOREM TypeCorrect == SafeSpec => []TypeOK
<1>1. SafeInv => TypeOK
  BY DEF SafeInv
<1> QED
  BY <1>1, SafeInvHolds, PTL

LEMMA SafeInvDelivered == SafeInv => DeliveredAsAsked
<1> SUFFICES ASSUME SafeInv, NEW c \in Calls, pc[c] = "resolved"
             PROVE  /\ DOMAIN slots[c] = Positions(JobOf(c))
                    /\ \A p \in DOMAIN slots[c] :
                         Header(slots[c][p]) =
                           [blockHeight |-> Batches[JobOf(c)][p],
                            blockHash   |-> Hash[Batches[JobOf(c)][p]],
                            parentHash  |-> Hash[Batches[JobOf(c)][p] - 1]]
  BY DEF DeliveredAsAsked
<1> USE DEF SafeInv
<1>1. DOMAIN slots[c] = Positions(JobOf(c))
  BY DEF TypeOK
<1>2. ASSUME NEW p \in DOMAIN slots[c]
      PROVE  /\ slots[c][p].block.round = Batches[JobOf(c)][p]
             /\ slots[c][p].hash = Hash[Batches[JobOf(c)][p]]
             /\ slots[c][p].block.previousBlockHash = Hash[Batches[JobOf(c)][p] - 1]
  BY DEF SlotsInv, SlotInv, StageInv, StageAt, Stage, Real
<1> QED
  BY <1>1, <1>2 DEF Header

\* fetchBlocks returns one block per requested height, in order, with the hashes
\* of the chain, after any history of calls, cache hits, failures and retries.
THEOREM DeliveredCorrect == SafeSpec => []DeliveredAsAsked
BY SafeInvHolds, SafeInvDelivered, PTL
------------------------------------------------------------------------------
(***************************************************************************)
(* The calls implement BlockFeed.                                          *)
(***************************************************************************)

\* A resolved call is its job's current one and its result is the true headers.
LEMMA DeliveredValue ==
  ASSUME SafeInv, NEW j \in Jobs
  PROVE  /\ ~ Answered(j) => Delivered(j) = NoResult
         /\ Answered(j) => /\ Delivered(j) = Feed!TrueHeaders(j)
                           /\ Delivered(j) # NoResult
                           /\ \A p \in Positions(j) : Batches[j][p] < head
<1>1. ~ Answered(j) => Delivered(j) = NoResult
  BY DEF Delivered
<1>2. ASSUME Answered(j)
      PROVE  /\ Delivered(j) = Feed!TrueHeaders(j)
             /\ Delivered(j) # NoResult
             /\ \A p \in Positions(j) : Batches[j][p] < head
  <2> DEFINE c == <<j, attempt[j]>>
  <2>1. c \in Calls /\ JobOf(c) = j /\ pc[c] = "resolved" /\ Current(j) = c
    BY <1>2, NatAssumption DEF Answered, Current, SafeInv, TypeOK, Calls, JobOf
  <2> HIDE DEF c
  <2>2. /\ DOMAIN slots[c] = Positions(j)
        /\ \A p \in Positions(j) : Header(slots[c][p]) = Feed!TrueHeader(Batches[j][p])
    BY <2>1, SafeInvDelivered DEF DeliveredAsAsked, Feed!TrueHeader
  <2>3. Delivered(j) = [p \in Positions(j) |-> Header(slots[c][p])]
    BY <1>2, <2>1, <2>2 DEF Delivered
  <2>4. Delivered(j) = [p \in Positions(j) |-> Feed!TrueHeader(Batches[j][p])]
    BY <2>2, <2>3
  <2>5. Delivered(j) = Feed!TrueHeaders(j)
    BY <2>4 DEF Feed!TrueHeaders, Positions
  <2>6. \A p \in Positions(j) : Feed!TrueHeader(Batches[j][p]) \in Headers
    <3> SUFFICES ASSUME NEW p \in Positions(j)
                 PROVE  Feed!TrueHeader(Batches[j][p]) \in Headers
      OBVIOUS
    <3>1. Batches[j][p] \in 1 .. MaxRound - 1
      BY BatchType DEF Heights
    <3>2. Batches[j][p] \in 0 .. MaxRound /\ Batches[j][p] - 1 \in 0 .. MaxRound
      BY <3>1, NatAssumption
    <3> QED
      BY <3>1, <3>2, ChainAssumption DEF Feed!TrueHeader, Headers, Heights
  <2>7. Delivered(j) # NoResult
    BY <2>4, <2>6, NoResultAssumption
  <2>8. \A p \in Positions(j) : Batches[j][p] < head
    <3> SUFFICES ASSUME NEW p \in Positions(j) PROVE Batches[j][p] < head
      OBVIOUS
    <3>1. SlotInv(c, p, slots[c][p]) /\ Stage(c, p) = "hashed"
      BY <2>1, <2>2 DEF SafeInv, SlotsInv, StageInv, StageAt
    <3>2. Batches[j][p] + 1 <= head
      BY <2>1, <3>1 DEF SlotInv, Stage
    <3> QED
      BY <3>2, BatchType DEF Heights, SafeInv, TypeOK
  <2> QED
    BY <2>5, <2>7, <2>8
<1> QED
  BY <1>1, <1>2

\* The result a job has, if it has one, is fixed by the chain.
ResultFixed ==
  \A j \in Jobs : IF Answered(j) THEN Delivered(j) = Feed!TrueHeaders(j)
                                 ELSE Delivered(j) = NoResult

LEMMA ResultFixedNow == SafeInv => ResultFixed
BY DeliveredValue DEF ResultFixed

LEMMA ResultFixedThen == SafeInv' => ResultFixed'
BY ResultFixedNow, PTL

\* A step that leaves Answered as it is leaves what was delivered as it is.
LEMMA DeliveredStutter ==
  ASSUME SafeInv, SafeInv', NEW j \in Jobs, Answered(j)' <=> Answered(j)
  PROVE  Delivered(j)' = Delivered(j)
<1>1. Feed!TrueHeaders(j)' = Feed!TrueHeaders(j)
  BY DEF Feed!TrueHeaders, Feed!TrueHeader
<1> QED
  BY <1>1, ResultFixedNow, ResultFixedThen DEF ResultFixed

LEMMA InitFeed == Init => Feed!Init
<1> SUFFICES ASSUME Init PROVE Feed!Init
  OBVIOUS
<1>1. \A j \in Jobs : ~ Answered(j)
  <2>1. \A j \in Jobs : attempt[j] = 0
    BY DEF Init
  <2>2. ~ (0 > 0)
    OBVIOUS
  <2> QED
    BY <2>1, <2>2 DEF Answered
<1>2. \A j \in Jobs : Delivered(j) = NoResult
  BY <1>1 DEF Delivered
<1> QED
  BY <1>2 DEF Init, Feed!Init

\* Resolve(c) is where job JobOf(c) is answered.
LEMMA ResolveDelivers ==
  ASSUME SafeInv, SafeInv', NEW c \in Calls, Resolve(c)
  PROVE  Feed!Deliver(JobOf(c))
<1> DEFINE j == JobOf(c)
<1>1. /\ j \in Jobs
      /\ c = <<j, attempt[j]>>
      /\ attempt[j] > 0
      /\ c[2] \in Nat
  <2>1. c[1] \in Jobs /\ c[2] \in Nat \ {0} /\ c = <<c[1], c[2]>> /\ attempt[c[1]] \in Nat
    BY NatAssumption DEF Calls, SafeInv, TypeOK
  <2>2. c[2] = attempt[c[1]]
    BY <2>1 DEF Resolve, SafeInv, AttemptInv
  <2> QED
    BY <2>1, <2>2 DEF JobOf
<1>2. ~ Answered(j)
  BY <1>1 DEF Resolve, Answered, Current
<1>3. pc' = [pc EXCEPT ![c] = "resolved"] /\ UNCHANGED <<head, attempt>>
  BY DEF Resolve
<1>4. Answered(j)'
  BY <1>1, <1>3 DEF Answered, Current, SafeInv, TypeOK
<1>5. \A k \in Jobs : k # j => (Answered(k)' <=> Answered(k))
  <2> SUFFICES ASSUME NEW k \in Jobs, k # j PROVE Answered(k)' <=> Answered(k)
    OBVIOUS
  <2>1. <<k, attempt[k]>> # c
    BY <1>1
  <2> QED
    BY <1>3, <2>1 DEF Answered, Current, SafeInv, TypeOK
<1>6. \A k \in Jobs : k # j => Delivered(k)' = Delivered(k)
  BY <1>5, DeliveredStutter
<1>7. Delivered(j) = NoResult /\ Delivered(j)' = Feed!TrueHeaders(j)'
  BY <1>1, <1>2, <1>4, ResultFixedNow, ResultFixedThen DEF ResultFixed
<1>8. Feed!TrueHeaders(j)' = Feed!TrueHeaders(j)
  BY DEF Feed!TrueHeaders, Feed!TrueHeader
<1>9. \A i \in DOMAIN Batches[j] : Batches[j][i] < head
  <2> SUFFICES ASSUME NEW p \in Positions(j) PROVE Batches[j][p] < head
    BY DEF Positions
  <2>1. DOMAIN slots[c] = Positions(j)
    BY DEF Resolve, SafeInv, TypeOK
  <2>2. SlotInv(c, p, slots[c][p]) /\ Stage(c, p) = "hashed"
    BY <2>1 DEF Resolve, SafeInv, SlotsInv
  <2>3. Batches[j][p] + 1 <= head
    BY <2>2 DEF SlotInv, Stage
  <2> QED
    BY <1>1, <2>3, BatchType DEF Heights, SafeInv, TypeOK
<1> HIDE DEF j
<1>10. [k \in Jobs |-> Delivered(k)]' =
         [[k \in Jobs |-> Delivered(k)] EXCEPT ![j] = Feed!TrueHeaders(j)]
  BY <1>1, <1>6, <1>7, <1>8
<1> QED
  BY <1>1, <1>3, <1>7, <1>9, <1>10 DEF Feed!Deliver, j

\* A call that neither was resolved nor becomes so changes no answer.
LEMMA PcChange ==
  ASSUME SafeInv, NEW c \in Calls, NEW v, v # "resolved", pc[c] # "resolved",
         pc' = [pc EXCEPT ![c] = v], attempt' = attempt, NEW k \in Jobs
  PROVE  Answered(k)' <=> Answered(k)
<1>1. CASE attempt[k] > 0
  <2>1. <<k, attempt[k]>> \in Calls
    BY <1>1, NatAssumption DEF SafeInv, TypeOK, Calls
  <2>2. pc'[<<k, attempt[k]>>] = "resolved" <=> pc[<<k, attempt[k]>>] = "resolved"
    BY <2>1 DEF SafeInv, TypeOK
  <2> QED
    BY <2>2 DEF Answered, Current
<1>2. CASE ~ (attempt[k] > 0)
  BY <1>2 DEF Answered
<1> QED
  BY <1>1, <1>2

\* No other step changes whether a job has its answer.
LEMMA OtherStepsSilent ==
  ASSUME SafeInv, SafeInv',
         \/ UNCHANGED vars
         \/ AdvanceHead
         \/ \E j \in Jobs : FetchBlocks(j)
         \/ \E c \in Calls : CollectHashes(c)
         \/ \E c \in Calls : \E p \in DOMAIN slots[c] : Answer(c, p) \/ FaultyAnswer(c, p)
  PROVE  \A k \in Jobs : Delivered(k)' = Delivered(k)
<1> SUFFICES ASSUME NEW k \in Jobs PROVE Answered(k)' <=> Answered(k)
  BY DeliveredStutter
<1> USE DEF Answered, Current
<1>1. CASE UNCHANGED vars \/ AdvanceHead
  BY <1>1 DEF vars, AdvanceHead
<1>2. CASE \E j \in Jobs : FetchBlocks(j)
  <2>1. PICK j \in Jobs : FetchBlocks(j)
    BY <1>2
  <2>2. /\ attempt' = [attempt EXCEPT ![j] = @ + 1]
        /\ pc' = [pc EXCEPT ![<<j, attempt[j] + 1>>] = "blocks"]
    BY <2>1 DEF FetchBlocks
  <2>3. attempt[j] \in Nat /\ attempt[j] < MaxAttempts
    BY <2>1 DEF FetchBlocks, MayCall, SafeInv, TypeOK
  <2>4. <<j, attempt[j] + 1>> \in Calls
    BY <2>3, NatAssumption DEF Calls
  <2>5. CASE k = j
    <3>1. ~ Answered(j)
      BY <2>1 DEF FetchBlocks, MayCall, Rejected
    <3>2. attempt'[j] = attempt[j] + 1 /\ pc'[<<j, attempt[j] + 1>>] = "blocks"
      BY <2>2, <2>4 DEF SafeInv, TypeOK
    <3> QED
      BY <2>5, <3>1, <3>2
  <2>6. CASE k # j
    <3>1. attempt'[k] = attempt[k] /\ pc'[<<k, attempt[k]>>] = pc[<<k, attempt[k]>>]
      BY <2>2, <2>6 DEF SafeInv, TypeOK
    <3> QED
      BY <3>1
  <2> QED
    BY <2>5, <2>6
<1>3. CASE \E c \in Calls : CollectHashes(c)
  <2>1. PICK c \in Calls : CollectHashes(c)
    BY <1>3
  <2>2. /\ pc[c] = "blocks" /\ pc' = [pc EXCEPT ![c] = "hashes"] /\ attempt' = attempt
    BY <2>1 DEF CollectHashes
  <2> QED
    BY <2>2, PcChange
<1>4. CASE \E c \in Calls : \E p \in DOMAIN slots[c] : Answer(c, p) \/ FaultyAnswer(c, p)
  <2>0. PICK c \in Calls : \E p \in DOMAIN slots[c] : Answer(c, p) \/ FaultyAnswer(c, p)
    BY <1>4
  <2>1. PICK p \in DOMAIN slots[c] : Answer(c, p) \/ FaultyAnswer(c, p)
    BY <2>0
  <2>2. attempt' = attempt
    BY <2>1 DEF Answer, FaultyAnswer, LookupOk, NextBlockOk, NextBlockMissing,
                HealthThrows, HealthWaits, WaitEnds, LookupFault, NextBlockFault,
                HealthFault, Fail
  <2>3. \/ pc' = pc
        \/ /\ pc' = [pc EXCEPT ![c] = "rejected"]
           /\ Stage(c, p) \in {"lookup", "health", "waiting"}
    BY <2>1 DEF Answer, FaultyAnswer, LookupOk, NextBlockOk, NextBlockMissing,
                HealthThrows, HealthWaits, WaitEnds, LookupFault, NextBlockFault,
                HealthFault, Fail
  <2>4. Stage(c, p) \in {"lookup", "health", "waiting"} => pc[c] # "resolved"
    BY DEF SafeInv, StageInv, StageAt
  <2>5. CASE pc' = pc
    BY <2>2, <2>5
  <2>6. CASE pc' = [pc EXCEPT ![c] = "rejected"] /\ pc[c] # "resolved"
    BY <2>2, <2>6, PcChange
  <2> QED
    BY <2>3, <2>4, <2>5, <2>6
<1> QED
  BY <1>1, <1>2, <1>3, <1>4

LEMMA NextFeed == SafeInv /\ SafeInv' /\ [Next]_vars => [Feed!Next]_(Feed!feedVars)
<1> SUFFICES ASSUME SafeInv, SafeInv', [Next]_vars
             PROVE  Feed!Next \/ UNCHANGED Feed!feedVars
  OBVIOUS
<1> DEFINE Silent == \A k \in Jobs : Delivered(k)' = Delivered(k)
<1>1. CASE AdvanceHead
  <2>1. Silent
    BY <1>1, OtherStepsSilent
  <2> QED
    BY <1>1, <2>1 DEF AdvanceHead, Feed!Next, Feed!Grow
<1>2. CASE \E c \in Calls : Resolve(c)
  <2>1. PICK c \in Calls : Resolve(c)
    BY <1>2
  <2>2. JobOf(c) \in Jobs
    BY DEF Calls, JobOf
  <2> QED
    BY <2>1, <2>2, ResolveDelivers DEF Feed!Next
<1>3. CASE \/ UNCHANGED vars
           \/ \E j \in Jobs : FetchBlocks(j)
           \/ \E c \in Calls : CollectHashes(c)
           \/ \E c \in Calls : \E p \in DOMAIN slots[c] : Answer(c, p) \/ FaultyAnswer(c, p)
  <2>1. Silent
    BY <1>3, OtherStepsSilent
  <2>2. head' = head
    BY <1>3 DEF vars, FetchBlocks, CollectHashes, Answer, FaultyAnswer, LookupOk,
                NextBlockOk, NextBlockMissing, HealthThrows, HealthWaits, WaitEnds,
                LookupFault, NextBlockFault, HealthFault, Fail
  <2> QED
    BY <2>1, <2>2 DEF Feed!feedVars
<1> QED
  BY <1>1, <1>2, <1>3 DEF Next, Terminating

\* Concurrent calls with a shared cache, lookups ahead, failures and retries are
\* seen from outside as the plain feed: each job is answered at most once, with
\* the true headers of its heights, and only when all their hashes are known.
THEOREM FeedImplemented == SafeSpec => Feed!SafeSpec
<1>1. Init => Feed!Init
  BY InitFeed
<1>2. SafeInv /\ SafeInv' /\ [Next]_vars => [Feed!Next]_(Feed!feedVars)
  BY NextFeed
<1> QED
  BY <1>1, <1>2, SafeInvHolds, PTL DEF SafeSpec, Feed!SafeSpec
==============================================================================
