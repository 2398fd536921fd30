------------------------------- MODULE Filters -------------------------------
(***************************************************************************)
(* The filters of handlers (packages/node/src/algorand/utils.algorand.ts), *)
(* as operators: which transactions and blocks a handler is called for.    *)
(*                                                                         *)
(* A transaction is its type and the values found at the paths that        *)
(* mappingFilterTransaction names.  A filter is the sequence of its        *)
(* entries in the order of the manifest, because the code visits them in   *)
(* that order and stops at the first one that fails.  A value is a pair:   *)
(* its JavaScript type and what it is.                                     *)
(***************************************************************************)
EXTENDS Integers, Sequences

CONSTANTS
  Undefined,   \* JavaScript's undefined
  Null,        \* null, the wildcard of a list of arguments
  NoFilter,    \* the handler has no filter
  CharAt(_, _) \* CharAt(s, i) is the i-th character of s, or undefined past its end

Str(v) == <<"string", v>>

Num(v) == <<"number", v>>

Flag(v) == <<"boolean", v>>

List(vs) == <<"list", vs>>

IsList(v) == v \notin {Undefined, Null} /\ v[1] = "list"

Falsy(v) == v \in {Undefined, Null, Str(""), Num(0), Flag(FALSE)}

FilterKeys ==
  {"txType", "sender", "receiver", "nonParticipant", "assetId",
   "newFreezeStatus", "address", "applicationId", "applicationArgs"}

\* Where the value that a filter key is about is found, by transaction type.
MappingFilterTransaction ==
  [pay    |-> [sender          |-> "sender",
               receiver        |-> "paymentTransaction.receiver"],
   keyreg |-> [nonParticipant  |-> "keyregTransaction.nonParticipation",
               sender          |-> "sender"],
   acfg   |-> [assetId         |-> "assetConfigTransaction.assetId",
               sender          |-> "sender"],
   axfer  |-> [assetId         |-> "assetTransferTransaction.assetId",
               sender          |-> "sender",
               receiver        |-> "assetTransferTransaction.receiver"],
   afrz   |-> [assetId         |-> "assetFreezeTransaction.assetId",
               newFreezeStatus |-> "assetFreezeTransaction.newFreezeStatus",
               address         |-> "sender"],
   appl   |-> [applicationId   |-> "applicationTransaction.applicationId",
               applicationArgs |-> "applicationTransaction.applicationArgs",
               sender          |-> "sender"]]

MappedTypes == DOMAIN MappingFilterTransaction

\* Types of the Algorand SDK; a state proof has no entry in the mapping.
TxTypes == MappedTypes \cup {"stpf"}

\* lodash get(txn, path): undefined when there is no path or nothing at it.
Get(txn, key) ==
  LET mapping == MappingFilterTransaction[txn.txType]
  IN  IF key \in DOMAIN mapping /\ mapping[key] \in DOMAIN txn.at
      THEN txn.at[mapping[key]]
      ELSE Undefined

\* data[i]: an element of a list, a character of a string.
ElementAt(data, i) ==
  IF IsList(data) /\ i \in DOMAIN data[2] THEN data[2][i]
  ELSE IF data[1] = "string" THEN CharAt(data[2], i) ELSE Undefined

\* txComparator on a list: null matches anything and the list may be shorter
\* than the data.  Indexing undefined or null throws.
ListOutcome(list, data) ==
  IF data \in {Undefined, Null}
  THEN IF list = << >> THEN "pass" ELSE "throw"
  ELSE IF \A i \in DOMAIN list : list[i] \in {Null, ElementAt(data, i)}
       THEN "pass" ELSE "drop"

\* One entry of a filter, txType apart.  A type without a mapping passes.
EntryOutcome(txn, entry) ==
  CASE txn.txType \notin MappedTypes \/ entry.value = Undefined -> "pass"
    [] txn.txType \in MappedTypes /\ IsList(entry.value) ->
         ListOutcome(entry.value[2], Get(txn, entry.key))
    [] OTHER -> IF entry.value = Get(txn, entry.key) THEN "pass" ELSE "drop"

HasTxType(filter) == \E i \in DOMAIN filter : filter[i].key = "txType"

\* The txType of a filter; undefined when it has none.
TxTypeOf(filter) ==
  IF HasTxType(filter)
  THEN (CHOOSE e \in {filter[i] : i \in DOMAIN filter} : e.key = "txType").value
  ELSE Undefined

(***************************************************************************)
(* filterTransaction: "pass", "drop", or "throw" when the comparison       *)
(* throws, which it can only do if no entry before it dropped the          *)
(* transaction.                                                            *)
(***************************************************************************)
FilterTransaction(txn, filter) ==
  LET Passes(i) == filter[i].key = "txType" \/ EntryOutcome(txn, filter[i]) = "pass"
      Throws(i) == filter[i].key # "txType" /\ EntryOutcome(txn, filter[i]) = "throw"
  IN  CASE filter = NoFilter -> "pass"
        [] filter # NoFilter /\ ~ Falsy(TxTypeOf(filter)) /\ TxTypeOf(filter) # Str(txn.txType) -> "drop"
        [] OTHER ->
             IF \A i \in DOMAIN filter : Passes(i) THEN "pass"
             ELSE IF \E i \in DOMAIN filter : Throws(i) /\ \A k \in 1 .. i - 1 : Passes(k)
             THEN "throw" ELSE "drop"

\* The filter of a template's handler; a handler without one starts from {}.
OwnFilter(h) == IF h.filters = << >> THEN << >> ELSE h.filters[1]

\* Mutant: {txType: 'appl', ...filter}, so that a type in the template wins.
ApplUnlessTyped(h) ==
  LET f == OwnFilter(h)
  IN  IF h.base = "Block" \/ HasTxType(f) THEN h
      ELSE [h EXCEPT !.filters = <<Append(f, [key |-> "txType", value |-> Str("appl")])>>]

\* {...filter, txType: 'appl'} on the filter of a handler: a type that is there
\* is overwritten in its place.
ApplOnly(h) ==
  LET f == OwnFilter(h)
      appl == [key |-> "txType", value |-> Str("appl")]
      typed == IF HasTxType(f)
               THEN [i \in DOMAIN f |-> IF f[i].key = "txType" THEN appl ELSE f[i]]
               ELSE Append(f, appl)
  IN  IF h.base = "Block" THEN h ELSE [h EXCEPT !.filters = <<typed>>]

(***************************************************************************)
(* updateDynamicDs: a runtime data source is restricted to application     *)
(* calls.  (A txType in a block filter is never read.)  A custom one gets  *)
(* the arguments as options of its processor, which no filter reads.       *)
(***************************************************************************)
UpdateDynamicDs(ds) ==
  IF ds.kind = "runtime"
  THEN [ds EXCEPT !.handlers = [i \in DOMAIN @ |-> ApplOnly(@[i])]]
  ELSE ds

\* filterBlockModulo: no modulo, null and a modulo of zero accept every block.
FilterBlockModulo(block, filter) ==
  filter.modulo \in {Undefined, Null, 0} \/ block.round % filter.modulo = 0

\* filterBlock; whether the block is due on the filter's schedule is for
\* node-core's filterBlockTimestamp to say.
FilterBlock(block, filter) ==
  \/ filter = NoFilter
  \/ /\ FilterBlockModulo(block, filter)
     /\ filter.scheduled => block.due
==============================================================================
