----------------------------- MODULE FetchBlocks -----------------------------
(***************************************************************************)
(* AlgorandApi.fetchBlocks (packages/node/src/algorand/api.algorand.ts):   *)
(* concurrent calls that share one block cache and one indexer endpoint.   *)
(*                                                                         *)
(* A call first collects the blocks of its batch, from the cache or with   *)
(* lookupBlock, and then the hash of each block.  The hash of a round is   *)
(* the previousBlockHash of the next one: taken from the batch when the    *)
(* next round is in it, otherwise from a lookup of the next round, whose   *)
(* block is pushed to the cache because it will probably be asked for.     *)
(*                                                                         *)
(* Promise.all rejects with the first failure and does not stop the other  *)
(* promises: the lookups of a rejected call go on and still push to the    *)
(* cache while the caller's retry is running.                              *)
(*                                                                         *)
(* JavaScript runs one callback at a time, so an action here is the code   *)
(* between two awaits.  getBlockByHeight is one request in this module;    *)
(* its pagination is in GetBlock.                                          *)
(***************************************************************************)
EXTENDS Integers, Sequences

CONSTANTS
  Jobs,          \* batches the dispatcher asks for
  Batches,       \* Batches[j] is the sequence of heights of job j
  MaxRound,      \* bound on the chain's length
  MaxFaults,     \* bound on the requests of a job that fail for a transient reason
  MaxAttempts,   \* how often the caller calls fetchBlocks for one job
  Hashes,        \* block hashes
  Hash,          \* Hash[r] is the hash of round r
  NoBlock, NoHash, NoResult

ASSUME NatAssumption ==
  /\ MaxRound \in Nat \ {0}
  /\ MaxFaults \in Nat
  /\ MaxAttempts \in Nat \ {0}

ASSUME ChainAssumption == Hash \in [0 .. MaxRound -> Hashes]

Heights == 1 .. MaxRound - 1

Positions(j) == DOMAIN Batches[j]

\* The dispatcher enqueues each height once, so a batch has no duplicates.
ASSUME BatchAssumption ==
  /\ Batches \in [Jobs -> Seq(Heights)]
  /\ \A j \in Jobs :
       /\ Batches[j] # << >>
       /\ \A p, q \in Positions(j) : Batches[j][p] = Batches[j][q] => p = q

(***************************************************************************)
(* A call is one invocation of fetchBlocks: the attempt-th one for a job.  *)
(* A block is a JavaScript object: its id tells apart two objects that     *)
(* hold the same round.  It names the lookup that created the object.      *)
(***************************************************************************)
Calls == Jobs \X (1 .. MaxAttempts)

JobOf(c) == c[1]

BlockIds == Calls \X Nat \X {"own", "next"}

Blocks == [id : BlockIds, round : 1 .. MaxRound, previousBlockHash : Hashes]

\* Mutant: the answer's keys are left as the endpoint spells them, so
\* previousBlockHash is undefined.
LookedUpRaw(id, r) == [id |-> id, round |-> r, previousBlockHash |-> NoHash]

\* What lookupBlock(r) answers, as constructBlock turns it into a new object.
LookedUp(id, r) == [id |-> id, round |-> r, previousBlockHash |-> Hash[r - 1]]

ASSUME NoBlockAssumption == NoBlock \notin Blocks

Stages == {"lookup", "got", "next", "health", "waiting", "hashed", "failed"}

Slots ==
  [stage : Stages,
   num   : Heights,                    \* the height of this position
   block : Blocks \cup {NoBlock},
   hash  : Hashes \cup {NoHash}]

\* What a caller reads of a block: getHeader of formatBlockUtil.
Headers == [blockHeight : Heights, blockHash : Hashes, parentHash : Hashes]

ASSUME NoResultAssumption ==
  \A j \in Jobs : NoResult \notin [Positions(j) -> Headers]

VARIABLES
  head,      \* last round the endpoint serves; also what its health check says
  cache,     \* blockCache; the order of the array only picks among equal rounds
  nums,      \* nums[j] is the array of heights the caller passes on every attempt
  attempt,   \* attempt[j] is the number of calls made for job j
  pc,        \* where call c is
  slots,     \* slots[c][p] is the progress of the p-th height of call c
  faults     \* faults[j] counts the requests of job j that failed for a transient reason

vars == <<head, cache, nums, attempt, pc, slots, faults>>

Current(j) == <<j, attempt[j]>>

Rejected(j) == attempt[j] > 0 /\ pc[Current(j)] = "rejected"

Init ==
  /\ head \in 1 .. MaxRound
  /\ cache = {}
  /\ nums = Batches
  /\ attempt = [j \in Jobs |-> 0]
  /\ pc = [c \in Calls |-> "idle"]
  /\ slots = [c \in Calls |-> << >>]
  /\ faults = [j \in Jobs |-> 0]

\* The chain produces a round and the endpoint serves it.
AdvanceHead ==
  /\ head < MaxRound
  /\ head' = head + 1
  /\ UNCHANGED <<cache, nums, attempt, pc, slots, faults>>

(***************************************************************************)
(* Calling fetchBlocks.  The dispatcher only asks for heights the endpoint *)
(* reported; a rejected call is repeated with the same array.              *)
(***************************************************************************)
MayCall(j) ==
  /\ attempt[j] < MaxAttempts
  /\ IF attempt[j] = 0 THEN \A p \in DOMAIN nums[j] : nums[j][p] <= head
                       ELSE Rejected(j)

\* The blocks that blockInCache(r) can return: a copy of round r, or nothing
\* when there is none.
BlockInCache(r) ==
  LET copies == {b \in cache : b.round = r}
  IN  IF copies = {} THEN {NoBlock} ELSE copies

\* Mutant: the cached block is returned and stays in the array.
SpliceNothing(taken) == cache

\* blockInCache splices what it returns out of the array.
SpliceTaken(taken) == cache \ taken

\* Mutant, a bug the code once had: a cached height is removed from the array
\* of the caller, which passes the same array when it tries again.
FetchBlocksMutatingNums(j) ==
  /\ MayCall(j)
  /\ attempt' = [attempt EXCEPT ![j] = @ + 1]
  /\ \E taken \in [DOMAIN nums[j] -> cache \cup {NoBlock}] :
       /\ \A p \in DOMAIN nums[j] : taken[p] \in BlockInCache(nums[j][p])
       /\ cache' = SpliceTaken({taken[p] : p \in DOMAIN nums[j]})
       /\ nums' = [nums EXCEPT ![j] = SelectSeq(@, LAMBDA h : BlockInCache(h) = {NoBlock})]
       /\ slots' = [slots EXCEPT ![<<j, attempt[j] + 1>>] =
            [p \in DOMAIN nums[j] |->
               [stage |-> IF taken[p] = NoBlock THEN "lookup" ELSE "got",
                num   |-> nums[j][p],
                block |-> taken[p],
                hash  |-> NoHash]]]
  /\ pc' = [pc EXCEPT ![<<j, attempt[j] + 1>>] = "blocks"]
  /\ UNCHANGED <<head, faults>>

\* blockNums.map(...) runs without a break: every cached block is taken out of
\* the cache, every other height gets its lookup.
FetchBlocks(j) ==
  /\ MayCall(j)
  /\ attempt' = [attempt EXCEPT ![j] = @ + 1]
  /\ \E taken \in [DOMAIN nums[j] -> cache \cup {NoBlock}] :
       /\ \A p \in DOMAIN nums[j] : taken[p] \in BlockInCache(nums[j][p])
       /\ cache' = SpliceTaken({taken[p] : p \in DOMAIN nums[j]})
       /\ slots' = [slots EXCEPT ![<<j, attempt[j] + 1>>] =
            [p \in DOMAIN nums[j] |->
               [stage |-> IF taken[p] = NoBlock THEN "lookup" ELSE "got",
                num   |-> nums[j][p],
                block |-> taken[p],
                hash  |-> NoHash]]]
  /\ pc' = [pc EXCEPT ![<<j, attempt[j] + 1>>] = "blocks"]
  /\ UNCHANGED <<head, nums, faults>>

(***************************************************************************)
(* Steps of one call c, most of them at one position p of its batch.       *)
(***************************************************************************)
Num(c, p) == slots[c][p].num

Stage(c, p) == slots[c][p].stage

RoundAt(c, p) == slots[c][p].block.round

\* A transient failure of a request made by call c.
Fault(c) ==
  /\ faults[JobOf(c)] < MaxFaults
  /\ faults' = [faults EXCEPT ![JobOf(c)] = @ + 1]

SetSlot(c, p, slot) == slots' = [slots EXCEPT ![c][p] = slot]

\* A promise of c rejects: so does Promise.all, and with it the call.
Fail(c, p) ==
  /\ SetSlot(c, p, [slots[c][p] EXCEPT !.stage = "failed"])
  /\ pc' = [pc EXCEPT ![c] = "rejected"]
  /\ UNCHANGED <<head, cache, nums, attempt>>

\* getBlockByHeight(num) answers.  After a rejection nobody uses the answer.
LookupOk(c, p) ==
  /\ pc[c] = "blocks"
  /\ Stage(c, p) = "lookup"
  /\ Num(c, p) <= head
  /\ SetSlot(c, p, [slots[c][p] EXCEPT
                       !.stage = "got",
                       !.block = LookedUp(<<c, p, "own">>, Num(c, p))])
  /\ UNCHANGED <<head, cache, nums, attempt, pc, faults>>

LookupFault(c, p) ==
  /\ pc[c] = "blocks"
  /\ Stage(c, p) = "lookup"
  /\ Fault(c)
  /\ Fail(c, p)

\* Mutant: the loop looks for the round itself instead of the next one.
SuccessorsOffByOne(c, p) ==
  {q \in DOMAIN slots[c] : RoundAt(c, q) = RoundAt(c, p)}

\* The positions of c's batch that hold the round after the one at p.
Successors(c, p) ==
  {q \in DOMAIN slots[c] : RoundAt(c, q) = RoundAt(c, p) + 1}

\* What the loop at the top of getBlockHash leaves at p: the hash found in the
\* batch, or a lookup of the next round under way.
HashFromBatch(c, p) ==
  IF Successors(c, p) = {}
  THEN [slots[c][p] EXCEPT !.stage = "next"]
  ELSE LET q == CHOOSE q \in Successors(c, p) : TRUE
       IN  [slots[c][p] EXCEPT !.stage = "hashed",
                               !.hash = slots[c][q].block.previousBlockHash]

\* Promise.all has every block: getBlockHash starts for each of them.
CollectHashes(c) ==
  /\ pc[c] = "blocks"
  /\ \A p \in DOMAIN slots[c] : Stage(c, p) = "got"
  /\ slots' = [slots EXCEPT ![c] = [p \in DOMAIN slots[c] |-> HashFromBatch(c, p)]]
  /\ pc' = [pc EXCEPT ![c] = "hashes"]
  /\ UNCHANGED <<head, cache, nums, attempt, faults>>

\* The next round arrives: it is cached and its previousBlockHash is the hash.
\* No guard on pc: the promises of a rejected call go on.
NextBlockOk(c, p) ==
  /\ Stage(c, p) = "next"
  /\ RoundAt(c, p) + 1 <= head
  /\ LET fetched == LookedUp(<<c, p, "next">>, RoundAt(c, p) + 1)
     IN  /\ cache' = cache \cup {fetched}
         /\ SetSlot(c, p, [slots[c][p] EXCEPT !.stage = "hashed",
                                               !.hash = fetched.previousBlockHash])
  /\ UNCHANGED <<head, nums, attempt, pc, faults>>

\* The next round is not there yet: the catch block asks for the health.
NextBlockMissing(c, p) ==
  /\ Stage(c, p) = "next"
  /\ RoundAt(c, p) + 1 > head
  /\ SetSlot(c, p, [slots[c][p] EXCEPT !.stage = "health"])
  /\ UNCHANGED <<head, cache, nums, attempt, pc, faults>>

NextBlockFault(c, p) ==
  /\ Stage(c, p) = "next"
  /\ Fault(c)
  /\ SetSlot(c, p, [slots[c][p] EXCEPT !.stage = "health"])
  /\ UNCHANGED <<head, cache, nums, attempt, pc>>

\* Mutant: the error is thrown even when the next round is only pending.
HealthAlwaysThrows(c, p) ==
  /\ Stage(c, p) = "health"
  /\ Fail(c, p)
  /\ UNCHANGED faults

\* The health check says the next round exists: the lookup's error is thrown.
HealthThrows(c, p) ==
  /\ Stage(c, p) = "health"
  /\ head >= RoundAt(c, p) + 1
  /\ Fail(c, p)
  /\ UNCHANGED faults

\* It does not exist: wait for it, with a health check every second.
HealthWaits(c, p) ==
  /\ Stage(c, p) = "health"
  /\ head < RoundAt(c, p) + 1
  /\ SetSlot(c, p, [slots[c][p] EXCEPT !.stage = "waiting"])
  /\ UNCHANGED <<head, cache, nums, attempt, pc, faults>>

\* Mutant: one health check, then the code after the loop runs anyway.
WaitOnce(c, p) ==
  /\ Stage(c, p) = "waiting"
  /\ Fail(c, p)
  /\ UNCHANGED faults

\* Mutant: the loop does not assign currentRound again, so it compares the
\* round read before it, which was too low, for ever.
WaitOnStaleRound(c, p) == Stage(c, p) = "waiting" /\ FALSE /\ UNCHANGED vars

\* The awaited round exists.  The loop ends, and the code after it throws.
WaitEnds(c, p) ==
  /\ Stage(c, p) = "waiting"
  /\ head >= RoundAt(c, p) + 1
  /\ Fail(c, p)
  /\ UNCHANGED faults

\* A health check fails, the first one or one of the loop's.
HealthFault(c, p) ==
  /\ Stage(c, p) \in {"health", "waiting"}
  /\ Fault(c)
  /\ Fail(c, p)

\* Every hash is there: the call resolves with the formatted blocks.
Resolve(c) ==
  /\ pc[c] = "hashes"
  /\ \A p \in DOMAIN slots[c] : Stage(c, p) = "hashed"
  /\ pc' = [pc EXCEPT ![c] = "resolved"]
  /\ UNCHANGED <<head, cache, nums, attempt, slots, faults>>

\* The steps at one position: the endpoint answers, or a request fails.
Answer(c, p) ==
  \/ LookupOk(c, p)
  \/ NextBlockOk(c, p)
  \/ NextBlockMissing(c, p)
  \/ HealthThrows(c, p)
  \/ HealthWaits(c, p)
  \/ WaitEnds(c, p)

FaultyAnswer(c, p) ==
  \/ LookupFault(c, p)
  \/ NextBlockFault(c, p)
  \/ HealthFault(c, p)

Answered(j) == attempt[j] > 0 /\ pc[Current(j)] = "resolved"

\* Every job has its blocks and no promise of any call is pending.
Terminating ==
  /\ head = MaxRound
  /\ \A j \in Jobs : Answered(j)
  /\ \A c \in Calls : \A p \in DOMAIN slots[c] :
       Stage(c, p) \notin {"next", "health", "waiting"}
  /\ UNCHANGED vars

Next ==
  \/ AdvanceHead
  \/ \E j \in Jobs : FetchBlocks(j)
  \/ \E c \in Calls : CollectHashes(c) \/ Resolve(c)
  \/ \E c \in Calls : \E p \in DOMAIN slots[c] : Answer(c, p) \/ FaultyAnswer(c, p)
  \/ Terminating

SafeSpec == Init /\ [][Next]_vars

(***************************************************************************)
(* The chain produces rounds, the event loop runs what is ready, a request *)
(* is answered sooner or later, and node-core retries.  A transient        *)
(* failure is never fair: there are at most MaxFaults of them per job.     *)
(***************************************************************************)
AnswerPending(c, p) == p \in DOMAIN slots[c] /\ Answer(c, p)

Fairness ==
  /\ WF_vars(AdvanceHead)
  /\ \A j \in Jobs : WF_vars(FetchBlocks(j))
  /\ \A c \in Calls :
       /\ WF_vars(CollectHashes(c))
       /\ WF_vars(Resolve(c))
       /\ \A p \in Positions(JobOf(c)) : WF_vars(AnswerPending(c, p))

Spec == SafeSpec /\ Fairness
------------------------------------------------------------------------------
\* Shape of the state; a call under way has one slot per height of its batch.
TypeOK ==
  /\ head \in 1 .. MaxRound
  /\ cache \subseteq Blocks
  /\ nums \in [Jobs -> Seq(Heights)]
  /\ attempt \in [Jobs -> 0 .. MaxAttempts]
  /\ pc \in [Calls -> {"idle", "blocks", "hashes", "resolved", "rejected"}]
  /\ DOMAIN slots = Calls
  /\ \A c \in Calls :
       \/ pc[c] = "idle" /\ slots[c] = << >>
       \/ pc[c] # "idle" /\ slots[c] \in [Positions(JobOf(c)) -> Slots]
  /\ faults \in [Jobs -> 0 .. MaxFaults]

\* algorandBlockToHeader on a block whose hash was assigned.
Header(slot) ==
  [blockHeight |-> slot.block.round,
   blockHash   |-> slot.hash,
   parentHash  |-> slot.block.previousBlockHash]

\* What the caller has received for job j.
Delivered(j) ==
  IF Answered(j)
  THEN [p \in DOMAIN slots[Current(j)] |-> Header(slots[Current(j)][p])]
  ELSE NoResult

(***************************************************************************)
(* A resolved call carries one block per height asked for, in that order,  *)
(* each with the chain's own hash and parent hash, however many attempts,  *)
(* cache hits and concurrent calls came before.  (The retry after a failed *)
(* request once missed the cached heights: algorand.spec.ts, "block        *)
(* caching doesnt mutate the block nums".)                                 *)
(***************************************************************************)
DeliveredAsAsked ==
  \A c \in Calls : pc[c] = "resolved" =>
    /\ DOMAIN slots[c] = Positions(JobOf(c))
    /\ \A p \in DOMAIN slots[c] :
         LET r == Batches[JobOf(c)][p]
         IN  Header(slots[c][p]) =
               [blockHeight |-> r, blockHash |-> Hash[r], parentHash |-> Hash[r - 1]]

(***************************************************************************)
(* fetchBlocks writes block.hash into the object it got, and handlers are  *)
(* given that object: an object taken from the cache must be out of it for *)
(* good ("remove block cache once used"), and no two positions, of one     *)
(* call or of two, may hold the same object.                               *)
(***************************************************************************)
Holds(c, p) == slots[c][p].block # NoBlock

ExclusiveBlocks ==
  \A c \in Calls : \A p \in DOMAIN slots[c] : Holds(c, p) =>
    /\ \A b \in cache : b.id # slots[c][p].block.id
    /\ \A d \in Calls : \A q \in DOMAIN slots[d] :
         Holds(d, q) /\ slots[c][p].block.id = slots[d][q].block.id => <<c, p>> = <<d, q>>

(***************************************************************************)
(* getBlockHash waits for a pending round instead of failing: a call that  *)
(* is rejected without a transient failure of its own job is rejected only *)
(* once the round after its last height exists.                            *)
(***************************************************************************)
WaitsForPendingRound ==
  \A j \in Jobs : Rejected(j) /\ faults[j] = 0 =>
    \A p \in Positions(j) : Batches[j][p] + 1 <= head

(***************************************************************************)
(* The retries of a job are bounded: a pending round costs one attempt,    *)
(* a transient failure at most one each, whatever other jobs do.  node-core*)
(* gives up after a fixed number of attempts, so this bound is what keeps  *)
(* a node at the head of the chain from exiting.                           *)
(***************************************************************************)
AttemptsBounded == \A j \in Jobs : attempt[j] <= faults[j] + 2

\* Every job the dispatcher enqueues is answered in the end.
EveryJobAnswered == \A j \in Jobs : <>Answered(j)

\* What fetchBlocks promises, with the internals hidden.
Feed == INSTANCE BlockFeed WITH delivered <- [j \in Jobs |-> Delivered(j)]

\* Calls with a cache, lookups ahead, failures and retries implement the plain
\* feed of headers, its progress included.
ImplementsBlockFeed == Feed!Spec
------------------------------------------------------------------------------
\* Test "waits on pending block to fetch hash" (indexer/api.service.spec.ts)
\* expects that getBlockHash, having waited for the round after the head, gives
\* the hash: a wait during which no request fails ends with it.  It is not so:
\* see the findings.
WaitGivesHash ==
  [][\A c \in Calls : \A p \in DOMAIN slots[c] :
       Stage(c, p) = "waiting" /\ Stage(c, p)' # "waiting" /\ faults' = faults
         => Stage(c, p)' = "hashed"]_vars
==============================================================================
