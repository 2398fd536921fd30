----------------------------- MODULE Dictionary ------------------------------
(***************************************************************************)
(* The dictionary (packages/node/src/indexer/dictionary): instead of       *)
(* fetching every round, the node asks an index of transactions for the    *)
(* rounds that matter.  AlgorandDictionaryV1 turns the filters of the      *)
(* handlers into query entries; an empty list of entries means that the    *)
(* dictionary is of no use and every round is fetched.                     *)
(*                                                                         *)
(* A behaviour takes one project and one chain: the entries are built      *)
(* handler by handler, the rounds are selected, and each selected round is *)
(* fetched and filtered.                                                   *)
(***************************************************************************)
EXTENDS Filters, FiniteSets

CONSTANTS
  Handlers,      \* handlers a project can have, in the order of the manifest
  ProjectSize,   \* bound on the handlers of a project
  Transactions,  \* transactions a round can hold
  Chains         \* possible chains: a sequence of blocks, block r at index r

(***************************************************************************)
(* A handler is of a runtime data source (one filter or none) or of a      *)
(* custom one, whose processor gives a base kind, or does not know the     *)
(* handler, and a list of base filters.                                    *)
(***************************************************************************)
Kinds == {"Block", "Transaction"}

VARIABLES
  project,   \* sequence of handlers, data source after data source
  chain,     \* the blocks, each with its transactions
  at,        \* index of the next handler whose entries are to be built
  entries,   \* queryEntries: each one the conditions, as a function of the field
  outcome,   \* "building", "built", "giveUp" (return []) or "throw"
  selected,  \* rounds that will be fetched
  called     \* <<handler, round, transaction>>: calls of handlers

vars == <<project, chain, at, entries, outcome, selected, called>>

Init ==
  /\ project \in UNION {[1 .. n -> Handlers] : n \in 1 .. ProjectSize}
  /\ chain \in Chains
  /\ at = 1
  /\ entries = {}
  /\ outcome = "building"
  /\ selected = {}
  /\ called = {}

\* getBaseHandlerKind: a custom handler its processor does not know throws.
BaseHandlerKind(h) == h.base

\* The filters the entries of a handler come from: its own, or its base filters,
\* without the undefined ones.  Their order decides nothing.
FilterList(h) == {h.filters[i] : i \in DOMAIN h.filters} \ {NoFilter}

ASSUME SizeAssumption == ProjectSize \in Nat

\* A filter is an object: no key occurs twice.
ASSUME FilterAssumption ==
  \A h \in Handlers : h.base = "Transaction" =>
    \A f \in FilterList(h) :
      \A i, k \in DOMAIN f : f[i].key = f[k].key => i = k

ASSUME ChainAssumption ==
  \A c \in Chains : \A r \in DOMAIN c : c[r].round = r /\ c[r].txs \in Seq(Transactions)

\* Mutant: the arguments of an application call become a condition too.
ConditionsWithArgs(filter) ==
  LET kept == {i \in DOMAIN filter : filter[i].value # Undefined}
  IN  [k \in {filter[i].key : i \in kept} |->
         (CHOOSE e \in {filter[i] : i \in kept} : e.key = k).value]

\* Mutant: only the first entry of a filter becomes a condition.
ConditionsFirstOnly(filter) ==
  IF filter = << >> THEN filter
  ELSE [k \in {filter[1].key} |-> filter[1].value]

\* The conditions of one filter: its defined entries, without applicationArgs,
\* which the dictionary does not index.
Conditions(filter) ==
  LET kept == {i \in DOMAIN filter :
                 filter[i].key # "applicationArgs" /\ filter[i].value # Undefined}
  IN  [k \in {filter[i].key : i \in kept} |->
         (CHOOSE e \in {filter[i] : i \in kept} : e.key = k).value]

\* The processor does not know the handler, or is not found at all: initDictionaries binds
\* getDsProcessor to the dictionary service, and what it finds there is node-core's affair.
BuildThrows ==
  /\ outcome = "building"
  /\ at <= Len(project)
  /\ project[at].custom \/ BaseHandlerKind(project[at]) \notin Kinds
  /\ outcome' = "throw"
  /\ UNCHANGED <<project, chain, at, entries, selected, called>>

\* Mutant: a handler without a filter is skipped instead of ending the search.
MustScanUnlessNoFilter(h) ==
  /\ BaseHandlerKind(h) = "Block"
  /\ \E f \in FilterList(h) : f.modulo = Undefined

\* A handler that may want any round: it has no filter, or is a block handler
\* without a modulo.
MustScan(h) ==
  \/ FilterList(h) = {}
  \/ /\ BaseHandlerKind(h) = "Block"
     /\ \E f \in FilterList(h) : f.modulo = Undefined

\* return []
BuildGivesUp ==
  /\ outcome = "building"
  /\ at <= Len(project)
  /\ BaseHandlerKind(project[at]) \in Kinds
  /\ MustScan(project[at])
  /\ outcome' = "giveUp"
  /\ entries' = {}
  /\ UNCHANGED <<project, chain, at, selected, called>>

\* The entries of one handler; uniqBy keeps one of those with equal conditions.
BuildHandler ==
  /\ outcome = "building"
  /\ at <= Len(project)
  /\ BaseHandlerKind(project[at]) \in Kinds
  /\ ~ MustScan(project[at])
  /\ entries' = IF BaseHandlerKind(project[at]) = "Transaction"
                THEN entries \cup {Conditions(f) : f \in FilterList(project[at])}
                ELSE entries
  /\ at' = at + 1
  /\ UNCHANGED <<project, chain, outcome, selected, called>>

(***************************************************************************)
(* node-core, as far as the entries' meaning goes.  The dictionary holds,  *)
(* for each transaction, a column per filter key with the value that       *)
(* mappingFilterTransaction names; a round is selected when one of its     *)
(* transactions equals all conditions of some entry, or when it is a       *)
(* multiple of a block handler's modulo.  Without entries all rounds are.  *)
(* That the columns follow the mapping is an assumption: an asset freeze   *)
(* has an address and no sender then, and a type without a mapping has the *)
(* columns common to all, its type and its sender.                         *)
(***************************************************************************)
Column(txn, field) ==
  IF field = "txType" THEN Str(txn.txType)
  ELSE IF txn.txType \in MappedTypes THEN Get(txn, field)
  ELSE IF field = "sender" THEN txn.at["sender"] ELSE Undefined

Matches(txn, conditions) ==
  \A field \in DOMAIN conditions : Column(txn, field) = conditions[field]

BlockFilters ==
  UNION {FilterList(project[i]) : i \in {x \in DOMAIN project : BaseHandlerKind(project[x]) = "Block"}}

\* r % 0 and r % null are NaN, which is not 0.
OnModulo(r) ==
  \E f \in BlockFilters : f.modulo \notin {Undefined, Null, 0} /\ r % f.modulo = 0

Select ==
  /\ \/ outcome = "building" /\ at > Len(project)
     \/ outcome = "giveUp"
  /\ selected' =
       IF entries = {}
       THEN DOMAIN chain
       ELSE {r \in DOMAIN chain :
               \/ OnModulo(r)
               \/ \E i \in DOMAIN chain[r].txs : \E c \in entries : Matches(chain[r].txs[i], c)}
  /\ outcome' = "built"
  /\ UNCHANGED <<project, chain, at, entries, called>>

\* A handler's filters accept: its own one, or some base filter, or there is none.
Accepts(h, kind, data) ==
  /\ BaseHandlerKind(h) = kind
  /\ \/ FilterList(h) = {}
     \/ \E f \in FilterList(h) :
          IF kind = "Block" THEN FilterBlock(data, f) ELSE FilterTransaction(data, f) = "pass"

\* The handlers of round r: of the block, and of each of its transactions.
CallsAt(r) ==
  {<<i, r, 0>> : i \in {k \in DOMAIN project : Accepts(project[k], "Block", chain[r])}}
  \cup UNION {{<<i, r, t>> : i \in {k \in DOMAIN project :
                                    Accepts(project[k], "Transaction", chain[r].txs[t])}}
              : t \in DOMAIN chain[r].txs}

Index(r) ==
  /\ outcome = "built"
  /\ r \in selected
  /\ called' = called \cup CallsAt(r)
  /\ selected' = selected \ {r}
  /\ UNCHANGED <<project, chain, at, entries, outcome>>

Finished == outcome = "throw" \/ (outcome = "built" /\ selected = {})

Terminating == Finished /\ UNCHANGED vars

Next ==
  \/ BuildThrows \/ BuildGivesUp \/ BuildHandler
  \/ Select
  \/ \E r \in DOMAIN chain : Index(r)
  \/ Terminating

Spec == Init /\ [][Next]_vars
------------------------------------------------------------------------------
TypeOK ==
  /\ at \in 1 .. Len(project) + 1
  /\ \A c \in entries : "applicationArgs" \notin DOMAIN c
  /\ outcome \in {"building", "built", "giveUp", "throw"}
  /\ selected \subseteq DOMAIN chain

\* A filter that accepts more than values equal to its own: its type is null or
\* empty, or an entry that becomes a condition is a list, which may hold null.
Loose(filter) ==
  \E i \in DOMAIN filter :
    \/ filter[i].key = "txType" /\ filter[i].value # Undefined /\ Falsy(filter[i].value)
    \/ filter[i].key # "applicationArgs" /\ IsList(filter[i].value)

(***************************************************************************)
(* Calls the dictionary cannot know of: a transaction of a type it has no  *)
(* columns for, one that only loose filters accept, and a block handler    *)
(* with a modulo of zero or null.                                          *)
(***************************************************************************)
OutsideIndex(call) ==
  LET h == project[call[1]]
      txn == chain[call[2]].txs[call[3]]
  IN  IF call[3] = 0
      THEN \E f \in FilterList(h) : f.modulo \in {Null, 0}
      ELSE \/ txn.txType \notin MappedTypes
           \/ /\ FilterList(h) # {}
              /\ \A f \in FilterList(h) : FilterTransaction(txn, f) = "pass" => Loose(f)

(***************************************************************************)
(* Skipping rounds skips no work: every call of a handler that a scan of   *)
(* all rounds would make is made, whatever filters the handlers combine,   *)
(* with the exceptions OutsideIndex names.                                 *)
(***************************************************************************)
NothingMissed ==
  outcome = "built" /\ selected = {} =>
    \A r \in DOMAIN chain : \A call \in CallsAt(r) : call \in called \/ OutsideIndex(call)

HasArgs(h) ==
  \E f \in FilterList(h) : \E k \in DOMAIN f : f[k].key = "applicationArgs"

(***************************************************************************)
(* Nothing useless is fetched: a selected round has something for some     *)
(* handler, unless all rounds are fetched, the round is a multiple of a    *)
(* modulo, or a filter on application arguments, which the entries leave   *)
(* out, decides.                                                           *)
(***************************************************************************)
NothingUseless ==
  outcome = "built" /\ entries # {} =>
    \A r \in selected :
      \/ CallsAt(r) # {}
      \/ OnModulo(r)
      \/ \E i \in DOMAIN project :
           BaseHandlerKind(project[i]) = "Transaction" /\ HasArgs(project[i])
==============================================================================
