--------------------------- MODULE GetBlockProofs ----------------------------
(***************************************************************************)
(* TLAPS proofs about GetBlock, for any chain, page size and limit of the  *)
(* endpoint: what a request resolves with, and why it fails.               *)
(***************************************************************************)
EXTENDS GetBlock, TLAPS

BlockOperations == {"block", "safeBlock", "safeTxns"}

(***************************************************************************)
(* The inductive invariant.  WholeBlock is about the end of a request; on  *)
(* the way there the pages collected are the first token transactions.     *)
(***************************************************************************)

\* Which operation is where.
StageInv ==
  /\ pc = "health" => op = "latest"
  /\ pc = "header" => op \in {"header", "latest"}
  /\ pc \in {"lookup", "combine"} => op \in BlockOperations
  /\ pc = "combine" => height <= LastRound
  /\ pc = "lookup" => header = Undefined /\ token = 0

\* The pages so far are the transactions up to the token, and an empty page,
\* which ends them, comes after the last one.
PagesInv ==
  /\ collected = RawTxs(0, token)
  /\ pc = "combine" => token <= TxCount[height]
  /\ pc = "combine" /\ ~ paging => token = TxCount[height]

\* A header that is there is of the block asked for, and has a list unless the
\* answer left it out.
HeaderInv ==
  pc = "combine" /\ header # Undefined =>
    /\ header.round = height
    /\ header.transactions = Undefined => omitted

RequestInv ==
  /\ TypeOK
  /\ StageInv
  /\ PagesInv
  /\ HeaderInv
  /\ WholeBlock
  /\ GroupsOfOwnBlock
  /\ FailsForCause
------------------------------------------------------------------------------
(***************************************************************************)
(* What the conversions do.                                                *)
(***************************************************************************)

\* Transactions of the endpoint are a list, which is not undefined.
LEMMA RawTxsType ==
  ASSUME NEW n \in Nat
  PROVE  /\ RawTxs(0, n) \in Seq(Nat \X {"hyphen"})
         /\ RawTxs(0, n) \in Seq(Txs)
         /\ RawTxs(0, n) # Undefined
  BY UndefinedAssumption DEF RawTxs, Txs, Spellings

\* A page that starts at the token continues the pages before it.
LEMMA PagesJoin ==
  ASSUME NEW m \in Nat, NEW n \in Nat
  PROVE  RawTxs(0, m) \o RawTxs(m, m + n) = RawTxs(0, m + n)
  BY DEF RawTxs

\* Respelling keeps the order and the number of transactions.
LEMMA CamelCaseAll ==
  ASSUME NEW n \in Nat
  PROVE  /\ CamelCaseList(RawTxs(0, n)) = [i \in 1 .. n |-> <<i, "camel">>]
         /\ CamelCaseList(RawTxs(0, n)) \in Seq(Txs)
         /\ CamelCaseList(RawTxs(0, n)) # Undefined
  BY UndefinedAssumption DEF RawTxs, CamelCaseList, Txs, Spellings

\* No transactions at all are the list of the first none.
LEMMA NoTxs == << >> = RawTxs(0, 0)
  BY DEF RawTxs

\* A header as getHeaderOnly builds it from the answer about round r.
LEMMA FromHeader ==
  ASSUME NEW r \in Nat, NEW txs \in EmptyLists
  PROVE  LET b == ConstructBlock(RawBlock(r, txs))
         IN  /\ b \in BlockObjects
             /\ b.round = r
             /\ b.transactions = txs /\ b.byGroup = b.transactions
<1>0. << >> \in Seq(Txs)
  OBVIOUS
<1>1. txs \in TxLists /\ Undefined \in TxLists
  BY <1>0 DEF EmptyLists, TxLists
<1> QED
  BY <1>1 DEF ConstructBlock, RawBlock, BlockObjects, Spellings

\* A block as getBlockByHeight builds it from the answer with n transactions.
LEMMA FromAnswer ==
  ASSUME NEW r \in Nat, NEW n \in Nat, NEW txs \in {RawTxs(0, n), Undefined}
  PROVE  LET b == ConstructBlock(CamelCaseBlock(RawBlock(r, txs)))
         IN  /\ b \in BlockObjects
             /\ b.round = r /\ b.spelling = "camel" /\ b.byGroup = b.transactions
             /\ b.transactions = IF txs = Undefined THEN Undefined ELSE [i \in 1 .. n |-> <<i, "camel">>]
             /\ b.transactions = Undefined <=> txs = Undefined
  BY RawTxsType, CamelCaseAll DEF ConstructBlock, CamelCaseBlock, RawBlock, BlockObjects, TxLists, Spellings

\* The block that combinePaginateBlock builds from a header and n transactions.
LEMMA FromPages ==
  ASSUME NEW h \in BlockObjects, NEW n \in Nat
  PROVE  LET b == ConstructBlock([CamelCaseBlock(h) EXCEPT
                                    !.transactions = CamelCaseList(RawTxs(0, n))])
         IN  /\ b \in BlockObjects
             /\ b.round = h.round /\ b.spelling = "camel" /\ b.byGroup = b.transactions
             /\ b.transactions = [i \in 1 .. n |-> <<i, "camel">>]
             /\ b.transactions # Undefined
  BY CamelCaseAll DEF ConstructBlock, CamelCaseBlock, BlockObjects, TxLists, Spellings
------------------------------------------------------------------------------
(***************************************************************************)
(* Every step keeps the invariant.                                         *)
(***************************************************************************)

\* The heights that are asked for, and the number of transactions there.
LEMMA Heights ==
  ASSUME TypeOK, height <= LastRound
  PROVE  height \in 0 .. LastRound /\ TxCount[height] \in Nat
  BY BoundsAssumption DEF TypeOK, Rounds

\* A request that is rejected for a cause.
LEMMA RejectStep ==
  ASSUME RequestInv, Reject, faults' \in 0 .. MaxFaults, faults' >= faults,
         faults' > 0 \/ height > LastRound \/ omitted
  PROVE  RequestInv'
<1>1. TypeOK'
  BY DEF RequestInv, TypeOK, Reject
<1>2. StageInv' /\ PagesInv' /\ HeaderInv'
  BY DEF RequestInv, StageInv, PagesInv, HeaderInv, Reject
<1>3. WholeBlock' /\ GroupsOfOwnBlock'
  BY DEF Reject, WholeBlock, GroupsOfOwnBlock
<1>4. FailsForCause'
  BY DEF Reject, FailsForCause
<1> QED
  BY <1>1, <1>2, <1>3, <1>4 DEF RequestInv

(***************************************************************************)
(* The block b of the round asked for is there: the operation resolves     *)
(* with it, or the safe API refuses it.                                    *)
(***************************************************************************)
LEMMA FinishStep ==
  ASSUME RequestInv, NEW b \in BlockObjects, Finish(b),
         height <= LastRound, b.round = height, b.byGroup = b.transactions,
         op \in BlockOperations =>
           /\ b.spelling = "camel"
           /\ b.transactions = AllTxs(height) \/ (b.transactions = Undefined /\ TxCount[height] = 0),
         b.transactions = Undefined => op \notin BlockOperations \/ omitted',
         paging' \in BOOLEAN, omitted' \in BOOLEAN, faults' = faults
  PROVE  RequestInv'
<1>0. UNCHANGED <<op, height, header, collected, token>> /\ pc' \in {"done", "failed"}
  BY DEF Finish
<1>1. TypeOK'
  BY <1>0 DEF RequestInv, TypeOK, Finish
<1>2. StageInv' /\ PagesInv' /\ HeaderInv'
  BY <1>0 DEF RequestInv, StageInv, PagesInv, HeaderInv
<1>3. WholeBlock' /\ GroupsOfOwnBlock'
  BY <1>0 DEF Finish, WholeBlock, GroupsOfOwnBlock, BlockOperations, PreviousBlockHash, HashBefore, AllTxs
<1>4. FailsForCause'
  BY <1>0 DEF Finish, Refused, FailsForCause, BlockOperations
<1> QED
  BY <1>1, <1>2, <1>3, <1>4 DEF RequestInv

LEMMA LookupOkStep == ASSUME RequestInv, LookupOk PROVE RequestInv'
<1>1. height \in Nat /\ TxCount[height] \in Nat
  BY Heights, BoundsAssumption DEF LookupOk, RequestInv
<1>2. PICK txs \in IF TxCount[height] = 0 THEN EmptyLists ELSE {RawTxs(0, TxCount[height])} :
        /\ Finish(ConstructBlock(CamelCaseBlock(RawBlock(height, txs))))
        /\ omitted' = (txs = Undefined)
  BY DEF LookupOk
<1> DEFINE b == ConstructBlock(CamelCaseBlock(RawBlock(height, txs)))
<1>3. txs \in {RawTxs(0, TxCount[height]), Undefined} /\ (txs = Undefined => TxCount[height] = 0)
  <2>1. CASE TxCount[height] = 0
    BY <1>2, <2>1, NoTxs DEF EmptyLists
  <2>2. CASE TxCount[height] # 0
    BY <1>1, <1>2, <2>2, RawTxsType
  <2> QED
    BY <2>1, <2>2
<1>4. /\ b \in BlockObjects
      /\ b.round = height /\ b.spelling = "camel" /\ b.byGroup = b.transactions
      /\ b.transactions = IF txs = Undefined THEN Undefined ELSE AllTxs(height)
      /\ b.transactions = Undefined <=> txs = Undefined
  BY <1>1, <1>3, FromAnswer DEF AllTxs
<1> HIDE DEF b
<1>5. Finish(b)
  BY <1>2 DEF b
<1>6. paging' \in BOOLEAN /\ faults' = faults /\ height <= LastRound
  BY DEF LookupOk, RequestInv, TypeOK
<1> QED
  BY <1>2, <1>3, <1>4, <1>5, <1>6, FinishStep

LEMMA HeaderOnlyStep == ASSUME RequestInv, HeaderOnlyOk PROVE RequestInv'
<1>1. PICK txs \in EmptyLists :
        /\ Finish(ConstructBlock(RawBlock(height, txs)))
        /\ omitted' = (txs = Undefined)
  BY DEF HeaderOnlyOk
<1> DEFINE b == ConstructBlock(RawBlock(height, txs))
<1>2. /\ height \in Nat /\ height <= LastRound
      /\ op \notin BlockOperations
  BY Heights DEF HeaderOnlyOk, RequestInv, StageInv, BlockOperations
<1>3. b \in BlockObjects /\ b.round = height /\ b.byGroup = b.transactions
  BY <1>2, FromHeader
<1> HIDE DEF b
<1>4. Finish(b)
  BY <1>1 DEF b
<1>5. paging' \in BOOLEAN /\ faults' = faults
  BY DEF HeaderOnlyOk, RequestInv, TypeOK
<1> QED
  BY <1>1, <1>2, <1>3, <1>4, <1>5, FinishStep

\* Both requests of combinePaginateBlock are answered.
LEMMA CombineStep == ASSUME RequestInv, Combine PROVE RequestInv'
<1>0. /\ pc = "combine" /\ ~ paging /\ header # Undefined /\ faults' = faults
      /\ header \in BlockObjects /\ header.round = height /\ height <= LastRound
      /\ header.transactions = Undefined => omitted
      /\ op \in BlockOperations
      /\ collected = RawTxs(0, TxCount[height])
  BY DEF Combine, RequestInv, TypeOK, StageInv, PagesInv, HeaderInv
<1>1. CASE header.transactions = Undefined
  BY <1>0, <1>1, RejectStep DEF Combine, RequestInv, TypeOK
<1>2. CASE header.transactions # Undefined
  <2> DEFINE b == ConstructBlock([CamelCaseBlock(header) EXCEPT
                                    !.transactions = CamelCaseList(collected)])
  <2>1. TxCount[height] \in Nat
    BY <1>0, Heights DEF RequestInv
  <2>2. /\ b \in BlockObjects
        /\ b.round = height /\ b.spelling = "camel" /\ b.byGroup = b.transactions
        /\ b.transactions = AllTxs(height)
        /\ b.transactions # Undefined
    BY <1>0, <2>1, FromPages DEF AllTxs
  <2>3. Finish(b) /\ UNCHANGED <<paging, omitted>>
    BY <1>2 DEF Combine
  <2> HIDE DEF b
  <2> QED
    BY <1>0, <2>2, <2>3, FinishStep DEF RequestInv, TypeOK
<1> QED
  BY <1>1, <1>2

\* A page comes after the ones before it, and nothing after the empty one.
LEMMA PageStep ==
  ASSUME RequestInv, NEW n \in 0 .. PaginationLimit, PageOk(n)
  PROVE  RequestInv'
<1>0. /\ pc = "combine" /\ n \in Nat /\ token \in Nat /\ token + n <= TxCount[height]
      /\ collected = RawTxs(0, token)
      /\ height <= LastRound /\ TxCount[height] \in Nat
  BY BoundsAssumption, Heights DEF PageOk, RequestInv, TypeOK, StageInv, PagesInv
<1>1. collected' = RawTxs(0, token')
  BY <1>0, PagesJoin DEF PageOk
<1>2. token' = token + n /\ UNCHANGED <<op, height, pc, header, omitted, result, faults>>
  BY DEF PageOk
<1>3. paging' \in BOOLEAN /\ (~ paging' => ~ (n > 0))
  <2>1. paging' = (n > 0)
    BY DEF PageOk
  <2>2. CASE n > 0
    BY <2>1, <2>2
  <2>3. CASE ~ (n > 0)
    BY <2>1, <2>3
  <2> QED
    BY <2>2, <2>3
<1>4. ~ paging' => token' = TxCount[height']
  BY <1>0, <1>2, <1>3 DEF PageOk
<1>5. TypeOK'
  BY <1>0, <1>1, <1>2, <1>3, RawTxsType DEF RequestInv, TypeOK
<1>6. StageInv' /\ HeaderInv'
  BY <1>0, <1>2 DEF RequestInv, StageInv, HeaderInv
<1>7. PagesInv'
  BY <1>0, <1>1, <1>2, <1>4 DEF PagesInv
<1>8. WholeBlock' /\ GroupsOfOwnBlock' /\ FailsForCause'
  BY <1>0, <1>2 DEF WholeBlock, GroupsOfOwnBlock, FailsForCause
<1> QED
  BY <1>5, <1>6, <1>7, <1>8 DEF RequestInv

\* The header of a block that comes in pages.
LEMMA HeaderStep == ASSUME RequestInv, HeaderOk PROVE RequestInv'
<1>1. PICK txs \in EmptyLists :
        /\ header' = ConstructBlock(RawBlock(height, txs))
        /\ omitted' = (txs = Undefined)
  BY DEF HeaderOk
<1>2. height \in Nat
  BY BoundsAssumption DEF RequestInv, TypeOK, Rounds
<1>3. /\ header' \in BlockObjects /\ header'.round = height
      /\ header'.transactions = Undefined => omitted'
  BY <1>1, <1>2, FromHeader
<1>4. TypeOK'
  BY <1>1, <1>3 DEF HeaderOk, RequestInv, TypeOK
<1>5. StageInv' /\ PagesInv' /\ HeaderInv'
  BY <1>3 DEF HeaderOk, RequestInv, StageInv, PagesInv, HeaderInv
<1>6. WholeBlock' /\ GroupsOfOwnBlock' /\ FailsForCause'
  BY DEF HeaderOk, WholeBlock, GroupsOfOwnBlock, FailsForCause
<1> QED
  BY <1>4, <1>5, <1>6 DEF RequestInv

\* The steps that only move on: to the pages, and to the round of the health check.
LEMMA MoveStep == ASSUME RequestInv, LookupTooLarge \/ HealthOk PROVE RequestInv'
<1>0. LastRound \in Nat
  BY BoundsAssumption
<1>1. CASE LookupTooLarge
  <2>1. TypeOK'
    BY <1>1 DEF LookupTooLarge, RequestInv, TypeOK
  <2>2. StageInv' /\ HeaderInv'
    BY <1>1 DEF LookupTooLarge, RequestInv, StageInv, HeaderInv
  <2>3. TxCount[height] \in Nat
    BY <1>1, Heights DEF LookupTooLarge, RequestInv
  <2>4. PagesInv'
    BY <1>1, <2>3 DEF LookupTooLarge, RequestInv, StageInv, PagesInv
  <2>5. WholeBlock' /\ GroupsOfOwnBlock' /\ FailsForCause'
    BY <1>1 DEF LookupTooLarge, WholeBlock, GroupsOfOwnBlock, FailsForCause
  <2> QED
    BY <2>1, <2>2, <2>4, <2>5 DEF RequestInv
<1>2. CASE HealthOk
  BY <1>0, <1>2 DEF HealthOk, RequestInv, TypeOK, StageInv, PagesInv, HeaderInv, WholeBlock,
                    GroupsOfOwnBlock, FailsForCause, Rounds, BlockOperations
<1> QED
  BY <1>1, <1>2

LEMMA RequestInit == Init => RequestInv
<1> SUFFICES ASSUME Init PROVE RequestInv
  OBVIOUS
<1>1. pc = FirstStep(op) /\ pc \in {"health", "header", "lookup"}
  BY DEF Init, FirstStep
<1>2. TypeOK
  BY <1>1, BoundsAssumption DEF Init, TypeOK
<1>3. StageInv
  BY <1>1 DEF Init, FirstStep, StageInv, Operations, BlockOperations
<1>4. PagesInv /\ HeaderInv
  BY <1>1, NoTxs DEF Init, PagesInv, HeaderInv
<1>5. WholeBlock /\ GroupsOfOwnBlock /\ FailsForCause
  BY <1>1 DEF WholeBlock, GroupsOfOwnBlock, FailsForCause
<1> QED
  BY <1>2, <1>3, <1>4, <1>5 DEF RequestInv

LEMMA RequestStep == RequestInv /\ [Next]_vars => RequestInv'
<1> SUFFICES ASSUME RequestInv, [Next]_vars PROVE RequestInv'
  OBVIOUS
<1>1. CASE LookupOk
  BY <1>1, LookupOkStep
<1>2. CASE HeaderOnlyOk
  BY <1>2, HeaderOnlyStep
<1>3. CASE LookupTooLarge \/ HealthOk
  BY <1>3, MoveStep
<1>4. CASE LookupMissing
  BY <1>4, RejectStep DEF LookupMissing, RequestInv, TypeOK
<1>5. CASE RequestFault
  BY <1>5, RejectStep, BoundsAssumption DEF RequestFault, RequestInv, TypeOK
<1>6. CASE HeaderOk
  BY <1>6, HeaderStep
<1>7. CASE Combine
  BY <1>7, CombineStep
<1>8. ASSUME NEW n \in 0 .. PaginationLimit, PageOk(n) PROVE RequestInv'
  BY <1>8, PageStep
<1>9. CASE UNCHANGED vars
  BY <1>9 DEF vars, RequestInv, TypeOK, StageInv, PagesInv, HeaderInv, WholeBlock,
              GroupsOfOwnBlock, FailsForCause
<1> QED
  BY <1>1, <1>2, <1>3, <1>4, <1>5, <1>6, <1>7, <1>8, <1>9 DEF Next, Terminating

LEMMA RequestInvariant == SafeSpec => []RequestInv
  BY RequestInit, RequestStep, PTL DEF SafeSpec
------------------------------------------------------------------------------
\* Requests, headers, pages and results have the shapes the code gives them.
THEOREM RequestTypeCorrect == SafeSpec => []TypeOK
<1>1. RequestInv => TypeOK
  BY DEF RequestInv
<1> QED
  BY <1>1, RequestInvariant, PTL

(***************************************************************************)
(* getBlockByHeight resolves with the whole block, in one answer or in     *)
(* pages of any sizes, for any number of transactions.                     *)
(***************************************************************************)
THEOREM WholeBlockCorrect == SafeSpec => []WholeBlock
<1>1. RequestInv => WholeBlock
  BY DEF RequestInv
<1> QED
  BY <1>1, RequestInvariant, PTL

\* The closure of a block is over the transactions of that block.
THEOREM GroupsCorrect == SafeSpec => []GroupsOfOwnBlock
<1>1. RequestInv => GroupsOfOwnBlock
  BY DEF RequestInv
<1> QED
  BY <1>1, RequestInvariant, PTL

(***************************************************************************)
(* Requests fail for the causes that FailsForCause names and for no other: *)
(* the size of a block, or of a page, is none.                             *)
(***************************************************************************)
THEOREM FailsForCauseCorrect == SafeSpec => []FailsForCause
<1>1. RequestInv => FailsForCause
  BY DEF RequestInv
<1> QED
  BY <1>1, RequestInvariant, PTL
==============================================================================
