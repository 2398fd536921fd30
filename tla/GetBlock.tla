------------------------------ MODULE GetBlock -------------------------------
(***************************************************************************)
(* One request to AlgorandApi for a block (api.algorand.ts): the lookup,   *)
(* the switch to header plus pages when the endpoint refuses a block with  *)
(* too many transactions, and the conversions of what it answers.  The     *)
(* operations that only call getBlockByHeight or getHeaderOnly and look at *)
(* the result (SafeAPIService, getLatestBlockHeader) are here too.         *)
(*                                                                         *)
(* The indexer spells keys with hyphens and camelCaseObjectKey respells    *)
(* them.  An object is modelled with the spelling of its keys; a key of    *)
(* more than one word reads as Undefined in the wrong spelling.            *)
(***************************************************************************)
EXTENDS Integers, Sequences

CONSTANTS
  LastRound,       \* last round the endpoint serves
  TxCount,         \* TxCount[r] is the number of transactions of round r
  LookupLimit,     \* most transactions the endpoint returns with a block
  PaginationLimit, \* paginationLimit of AlgorandApi
  MaxFaults,       \* bound on the requests that fail for a transient reason
  Undefined

ASSUME BoundsAssumption ==
  /\ LastRound \in Nat
  /\ TxCount \in [0 .. LastRound -> Nat]
  /\ LookupLimit \in Nat
  /\ PaginationLimit \in Nat \ {0}
  /\ MaxFaults \in Nat

ASSUME UndefinedAssumption ==
  /\ Undefined \notin Nat
  /\ Undefined \notin Seq(Nat \X {"camel", "hyphen"})

Operations == {"block", "header", "latest", "safeBlock", "safeTxns"}

\* Heights that are asked for; the last one is not on the chain yet.
Rounds == 0 .. LastRound + 1

Spellings == {"camel", "hyphen"}

\* A transaction is its place in the block and the spelling of its keys.
Txs == Nat \X Spellings

TxLists == Seq(Txs) \cup {Undefined}

(***************************************************************************)
(* A block object: byGroup is the list that its getTransactionsByGroup     *)
(* filters, fixed when constructBlock builds the closure.                  *)
(***************************************************************************)
BlockObjects ==
  [round : Nat, spelling : Spellings, transactions : TxLists, byGroup : TxLists]

\* The hash of the round before, as the indexer answers it.
HashBefore(b) == b.round - 1

PreviousBlockHash(b) == IF b.spelling = "camel" THEN HashBefore(b) ELSE Undefined

\* Transactions from + 1 .. to of a round, as the endpoint answers them.
RawTxs(from, to) == [i \in 1 .. to - from |-> <<from + i, "hyphen">>]

\* What the endpoint answers: JSON has no closures, so byGroup is not there.
RawBlock(r, txs) ==
  [round |-> r, spelling |-> "hyphen", transactions |-> txs, byGroup |-> Undefined]

\* camelCaseObjectKey on a list.
CamelCaseList(txs) == [i \in DOMAIN txs |-> <<txs[i][1], "camel">>]

\* Mutant: keys are respelled with underscores.
SnakeCaseBlock(b) == [b EXCEPT !.spelling = "snake"]

\* camelCaseObjectKey on a block.  A key that is absent is not visited.
CamelCaseBlock(b) ==
  [b EXCEPT !.spelling = "camel",
            !.transactions = IF @ = Undefined THEN Undefined ELSE CamelCaseList(@)]

\* Mutant: the spread comes last, so a closure the argument already has wins.
ConstructBlockSpreadLast(b) ==
  [b EXCEPT !.byGroup = IF @ = Undefined THEN b.transactions ELSE @]

\* constructBlock: the closure is over the new block's own transactions.
ConstructBlock(b) == [b EXCEPT !.byGroup = b.transactions]

VARIABLES
  op,         \* the operation asked for
  height,     \* the round it is about
  pc,         \* where the operation is
  header,     \* answer to getHeaderOnly inside combinePaginateBlock, or Undefined
  collected,  \* transactions of the pages so far
  token,      \* next-token: how many transactions the endpoint has returned
  paging,     \* a page is still to come
  omitted,    \* an answer had no transactions key at all
  result,     \* what the operation resolved with
  faults

vars == <<op, height, pc, header, collected, token, paging, omitted, result, faults>>

\* getLatestBlockHeader begins with the health check, the others with a lookup.
FirstStep(o) ==
  CASE o = "latest" -> "health"
    [] o = "header" -> "header"
    [] OTHER        -> "lookup"

Init ==
  /\ op \in Operations
  /\ height \in Rounds
  /\ pc = FirstStep(op)
  /\ header = Undefined
  /\ collected = << >>
  /\ token = 0
  /\ paging = FALSE
  /\ omitted = FALSE
  /\ result = Undefined
  /\ faults = 0

\* The endpoint may leave out an empty list of transactions (it is optional in
\* AlgorandBlock), and does not send transactions with a header.
EmptyLists == {<< >>, Undefined}

Reject ==
  /\ pc' = "failed"
  /\ UNCHANGED <<op, height, header, collected, token, paging, omitted, result>>

(***************************************************************************)
(* The block b is there.  getBlock of the safe API throws on a falsy round *)
(* and getTxns on an absent list; an empty list is not falsy.              *)
(***************************************************************************)
Refused(b) ==
  \/ op = "safeBlock" /\ b.round = 0
  \/ op = "safeTxns" /\ b.transactions = Undefined

Finish(b) ==
  /\ IF Refused(b)
     THEN pc' = "failed" /\ result' = result
     ELSE pc' = "done" /\ result' = b
  /\ UNCHANGED <<op, height, header, collected, token>>

\* lookupBlock answers with the block.
LookupOk ==
  /\ pc = "lookup"
  /\ height <= LastRound
  /\ TxCount[height] <= LookupLimit
  /\ \E txs \in IF TxCount[height] = 0 THEN EmptyLists ELSE {RawTxs(0, TxCount[height])} :
       /\ Finish(ConstructBlock(CamelCaseBlock(RawBlock(height, txs))))
       /\ omitted' = (txs = Undefined)
  /\ UNCHANGED <<paging, faults>>

\* Mutant: the error for a large block is not told apart from the others.
LookupTooLargeThrows ==
  /\ pc = "lookup"
  /\ height <= LastRound
  /\ TxCount[height] > LookupLimit
  /\ Reject
  /\ UNCHANGED faults

\* "Max transactions limit exceeded": combinePaginateBlock starts both requests.
LookupTooLarge ==
  /\ pc = "lookup"
  /\ height <= LastRound
  /\ TxCount[height] > LookupLimit
  /\ pc' = "combine"
  /\ paging' = TRUE
  /\ UNCHANGED <<op, height, header, collected, token, omitted, result, faults>>

\* Any other error is thrown again.
LookupMissing ==
  /\ pc \in {"lookup", "header"}
  /\ height > LastRound
  /\ Reject
  /\ UNCHANGED faults

\* A request of the operation fails: Promise.all, and the operation, reject.
RequestFault ==
  /\ pc \in {"health", "lookup", "header", "combine"}
  /\ pc = "combine" => paging \/ header = Undefined
  /\ faults < MaxFaults
  /\ faults' = faults + 1
  /\ Reject

\* The health check of getLatestBlockHeader names the round.
HealthOk ==
  /\ pc = "health"
  /\ height' = LastRound
  /\ pc' = "header"
  /\ UNCHANGED <<op, header, collected, token, paging, omitted, result, faults>>

\* getHeaderOnly as an operation: the answer is not respelled.
HeaderOnlyOk ==
  /\ pc = "header"
  /\ height <= LastRound
  /\ \E txs \in EmptyLists :
       /\ Finish(ConstructBlock(RawBlock(height, txs)))
       /\ omitted' = (txs = Undefined)
  /\ UNCHANGED <<paging, faults>>

\* getHeaderOnly inside combinePaginateBlock.
HeaderOk ==
  /\ pc = "combine"
  /\ header = Undefined
  /\ \E txs \in EmptyLists :
       /\ header' = ConstructBlock(RawBlock(height, txs))
       /\ omitted' = (txs = Undefined)
  /\ UNCHANGED <<op, height, pc, collected, token, paging, result, faults>>

\* Mutant: a page shorter than the limit is taken for the last one.
PageOkStopsWhenShort(n) ==
  /\ pc = "combine"
  /\ paging
  /\ n \in 0 .. PaginationLimit
  /\ token + n <= TxCount[height]
  /\ n = 0 <=> token = TxCount[height]
  /\ collected' = collected \o RawTxs(token, token + n)
  /\ token' = token + n
  /\ paging' = (n = PaginationLimit)
  /\ UNCHANGED <<op, height, pc, header, omitted, result, faults>>

\* Mutant: the next page is asked for without the token, so it is the first one.
PageOkWithoutToken(n) ==
  /\ pc = "combine"
  /\ paging
  /\ n \in 0 .. PaginationLimit
  /\ token + n <= TxCount[height]
  /\ n = 0 <=> token = TxCount[height]
  /\ UNCHANGED <<collected, token>>
  /\ paging' = (n > 0)
  /\ UNCHANGED <<op, height, pc, header, omitted, result, faults>>

(***************************************************************************)
(* A page of n transactions, possibly fewer than asked for and than are    *)
(* left.  An empty page, and nothing else, ends the recursion of           *)
(* paginatedTransactions.  That a non-empty page carries a next-token is   *)
(* an assumption about the indexer: without one the code would ask for the *)
(* first page again.                                                       *)
(***************************************************************************)
PageOk(n) ==
  /\ pc = "combine"
  /\ paging
  /\ n \in 0 .. PaginationLimit
  /\ token + n <= TxCount[height]
  /\ n = 0 <=> token = TxCount[height]
  /\ collected' = collected \o RawTxs(token, token + n)
  /\ token' = token + n
  /\ paging' = (n > 0)
  /\ UNCHANGED <<op, height, pc, header, omitted, result, faults>>

(***************************************************************************)
(* Both answers are there.  The header is an object of constructBlock, so  *)
(* it has a transactions key even when the answer had none, and            *)
(* camelCaseObjectKey throws on the undefined value behind it.             *)
(***************************************************************************)
Combine ==
  /\ pc = "combine"
  /\ ~ paging
  /\ header # Undefined
  /\ IF header.transactions = Undefined
     THEN Reject
     ELSE /\ Finish(ConstructBlock([CamelCaseBlock(header) EXCEPT
                                      !.transactions = CamelCaseList(collected)]))
          /\ UNCHANGED <<paging, omitted>>
  /\ UNCHANGED faults

Terminating == pc \in {"done", "failed"} /\ UNCHANGED vars

Next ==
  \/ LookupOk \/ LookupTooLarge \/ LookupMissing
  \/ RequestFault
  \/ HealthOk \/ HeaderOnlyOk
  \/ HeaderOk \/ Combine
  \/ \E n \in 0 .. PaginationLimit : PageOk(n)
  \/ Terminating

SafeSpec == Init /\ [][Next]_vars

\* Every request is answered in the end.
Spec ==
  /\ SafeSpec
  /\ WF_vars(LookupOk \/ LookupTooLarge \/ LookupMissing)
  /\ WF_vars(HealthOk \/ HeaderOnlyOk)
  /\ WF_vars(HeaderOk)
  /\ WF_vars(Combine)
  /\ WF_vars(\E n \in 0 .. PaginationLimit : PageOk(n))
------------------------------------------------------------------------------
TypeOK ==
  /\ op \in Operations
  /\ height \in Rounds
  /\ pc \in {"health", "lookup", "header", "combine", "done", "failed"}
  /\ header \in BlockObjects \cup {Undefined}
  /\ collected \in Seq(Nat \X {"hyphen"})
  /\ token \in Nat
  /\ paging \in BOOLEAN
  /\ omitted \in BOOLEAN
  /\ result \in BlockObjects \cup {Undefined}
  /\ faults \in 0 .. MaxFaults

\* All transactions of round r, in the chain's order, each once, respelled.
AllTxs(r) == [i \in 1 .. TxCount[r] |-> <<i, "camel">>]

(***************************************************************************)
(* getBlockByHeight resolves with the whole block whichever way it was     *)
(* fetched: the round asked for, every transaction once and in order, and  *)
(* keys spelled the way the handlers read them.                            *)
(***************************************************************************)
WholeBlock ==
  pc = "done" /\ op \in {"block", "safeBlock", "safeTxns"} =>
    /\ result.round = height
    /\ PreviousBlockHash(result) = height - 1
    /\ \/ result.transactions = AllTxs(height)
       \/ result.transactions = Undefined /\ TxCount[height] = 0

\* getTransactionsByGroup of a block searches that block's transactions, not
\* those of the header it was combined from.
GroupsOfOwnBlock == pc = "done" => result.byGroup = result.transactions

(***************************************************************************)
(* An operation fails only for a reason: a failed request, a round that is *)
(* not there, an answer without a transactions key, or round 0 in the safe *)
(* API.  In particular a block over the endpoint's limit is not one.       *)
(***************************************************************************)
FailsForCause ==
  pc = "failed" =>
    \/ faults > 0
    \/ height > LastRound
    \/ omitted
    \/ op = "safeBlock" /\ height = 0

\* Pagination ends: every operation resolves or rejects.
Ends == <>(pc \in {"done", "failed"})
------------------------------------------------------------------------------
\* getHeaderOnly and getLatestBlockHeader are declared to return AlgorandBlock,
\* whose previousBlockHash is a string (types/src/interfaces.ts).  It is not so:
\* see the findings.
HeaderHasParentHash ==
  pc = "done" /\ op \in {"header", "latest"} => PreviousBlockHash(result) # Undefined
==============================================================================
