-------------------------- MODULE DictionaryProofs ---------------------------
(***************************************************************************)
(* TLAPS proofs about Dictionary: for any project and any chain, the       *)
(* rounds that the query entries select are the ones handlers want.        *)
(***************************************************************************)
EXTENDS Dictionary, TLAPS

DistinctKeys(f) == \A i, k \in DOMAIN f : f[i].key = f[k].key => i = k

------------------------------------------------------------------------------
(***************************************************************************)
(* Filters and the conditions made from them.                              *)
(***************************************************************************)

\* The conditions of a filter are its defined entries, the arguments apart.
LEMMA ConditionsOf ==
  ASSUME NEW f, DistinctKeys(f)
  PROVE  /\ \A k \in DOMAIN Conditions(f) :
              \E i \in DOMAIN f : /\ f[i].key = k
                                  /\ k # "applicationArgs" /\ f[i].value # Undefined
                                  /\ Conditions(f)[k] = f[i].value
         /\ \A i \in DOMAIN f :
              f[i].key # "applicationArgs" /\ f[i].value # Undefined =>
                /\ f[i].key \in DOMAIN Conditions(f)
                /\ Conditions(f)[f[i].key] = f[i].value
<1> DEFINE kept == {i \in DOMAIN f : f[i].key # "applicationArgs" /\ f[i].value # Undefined}
           With(k) == CHOOSE e \in {f[i] : i \in kept} : e.key = k
<1>1. Conditions(f) = [k \in {f[i].key : i \in kept} |-> With(k).value]
  BY DEF Conditions
<1>2. ASSUME NEW i \in kept PROVE With(f[i].key) = f[i]
  <2>1. \E e \in {f[j] : j \in kept} : e.key = f[i].key
    OBVIOUS
  <2>2. With(f[i].key) \in {f[j] : j \in kept} /\ With(f[i].key).key = f[i].key
    BY <2>1
  <2> QED
    BY <2>2 DEF DistinctKeys
<1> HIDE DEF With
<1>3. ASSUME NEW k \in DOMAIN Conditions(f)
      PROVE  \E i \in kept : f[i].key = k /\ Conditions(f)[k] = f[i].value
  BY <1>1, <1>2
<1>4. ASSUME NEW i \in kept
      PROVE  f[i].key \in DOMAIN Conditions(f) /\ Conditions(f)[f[i].key] = f[i].value
  BY <1>1, <1>2
<1> QED
  BY <1>3, <1>4

\* The type of a filter is the value of its entry for the type.
LEMMA TxTypeOfEntry ==
  ASSUME NEW f, DistinctKeys(f), NEW i \in DOMAIN f, f[i].key = "txType"
  PROVE  TxTypeOf(f) = f[i].value
<1>1. \E e \in {f[j] : j \in DOMAIN f} : e.key = "txType"
  OBVIOUS
<1>2. (CHOOSE e \in {f[j] : j \in DOMAIN f} : e.key = "txType") = f[i]
  BY <1>1 DEF DistinctKeys
<1> QED
  BY <1>2 DEF TxTypeOf, HasTxType

(***************************************************************************)
(* A transaction that a filter accepts, and that the dictionary has the    *)
(* columns for, meets the conditions made from the filter.                 *)
(***************************************************************************)
LEMMA PassMatches ==
  ASSUME NEW txn, NEW f, DistinctKeys(f), f # NoFilter,
         txn.txType \in MappedTypes, FilterTransaction(txn, f) = "pass", ~ Loose(f)
  PROVE  Matches(txn, Conditions(f))
<1> SUFFICES ASSUME NEW k \in DOMAIN Conditions(f)
             PROVE  Column(txn, k) = Conditions(f)[k]
  BY DEF Matches
<1>1. PICK i \in DOMAIN f : /\ f[i].key = k /\ k # "applicationArgs"
                            /\ f[i].value # Undefined /\ Conditions(f)[k] = f[i].value
  BY ConditionsOf
<1>2. /\ Falsy(TxTypeOf(f)) \/ TxTypeOf(f) = Str(txn.txType)
      /\ \A j \in DOMAIN f : f[j].key = "txType" \/ EntryOutcome(txn, f[j]) = "pass"
  BY DEF FilterTransaction
<1>3. CASE k = "txType"
  BY <1>1, <1>2, <1>3, TxTypeOfEntry DEF Loose, Column
<1>4. CASE k # "txType"
  <2>1. ~ IsList(f[i].value) /\ EntryOutcome(txn, f[i]) = "pass"
    BY <1>1, <1>2, <1>4 DEF Loose
  <2>2. f[i].value = Get(txn, k)
    BY <1>1, <2>1 DEF EntryOutcome
  <2> QED
    BY <1>1, <1>4, <2>2 DEF Column
<1> QED
  BY <1>3, <1>4

(***************************************************************************)
(* And the other way round: a filter without arguments accepts what meets  *)
(* its conditions.                                                         *)
(***************************************************************************)
LEMMA MatchPasses ==
  ASSUME NEW txn, NEW f, DistinctKeys(f), f # NoFilter,
         \A i \in DOMAIN f : f[i].key # "applicationArgs",
         Matches(txn, Conditions(f))
  PROVE  FilterTransaction(txn, f) = "pass"
<1>1. ASSUME NEW i \in DOMAIN f, f[i].value # Undefined
      PROVE  Column(txn, f[i].key) = f[i].value
  BY <1>1, ConditionsOf DEF Matches
<1>2. Falsy(TxTypeOf(f)) \/ TxTypeOf(f) = Str(txn.txType)
  <2>1. CASE HasTxType(f)
    BY <1>1, <2>1, TxTypeOfEntry DEF HasTxType, Column, Falsy
  <2>2. CASE ~ HasTxType(f)
    BY <2>2 DEF TxTypeOf, Falsy
  <2> QED
    BY <2>1, <2>2
<1>3. ASSUME NEW i \in DOMAIN f, f[i].key # "txType"
      PROVE  EntryOutcome(txn, f[i]) = "pass"
  <2>1. CASE txn.txType \notin MappedTypes \/ f[i].value = Undefined
    BY <2>1 DEF EntryOutcome, IsList
  <2>2. CASE txn.txType \in MappedTypes /\ f[i].value # Undefined
    <3>1. Get(txn, f[i].key) = f[i].value
      BY <1>1, <1>3, <2>2 DEF Column
    <3>2. IsList(f[i].value) => ListOutcome(f[i].value[2], f[i].value) = "pass"
      BY <2>2 DEF ListOutcome, IsList, ElementAt
    <3> QED
      BY <2>2, <3>1, <3>2 DEF EntryOutcome
  <2> QED
    BY <2>1, <2>2
<1> QED
  BY <1>2, <1>3 DEF FilterTransaction
------------------------------------------------------------------------------
(***************************************************************************)
(* The inductive invariant.                                                *)
(***************************************************************************)

\* A project of the manifest, a chain, and rounds of that chain.
ShapeInv ==
  /\ project \in Seq(Handlers)
  /\ chain \in Chains
  /\ at \in 1 .. Len(project) + 1
  /\ outcome \in {"building", "built", "giveUp", "throw"}
  /\ selected \subseteq DOMAIN chain

\* An entry comes from a filter of a transaction handler.
EntriesInv ==
  \A c \in entries :
    \E i \in DOMAIN project :
      /\ BaseHandlerKind(project[i]) = "Transaction"
      /\ \E f \in FilterList(project[i]) : c = Conditions(f)

\* The entries speak for handler i.
Covered(i) ==
  /\ ~ MustScan(project[i])
  /\ BaseHandlerKind(project[i]) = "Transaction" =>
       \A f \in FilterList(project[i]) : Conditions(f) \in entries

\* Every handler visited so far is covered, unless the search was given up.
BuiltInv ==
  /\ outcome = "building" => \A i \in 1 .. at - 1 : Covered(i)
  /\ outcome = "giveUp" => entries = {}
  /\ outcome = "built" => entries = {} \/ \A i \in DOMAIN project : Covered(i)

Chosen(r) ==
  \/ entries = {}
  \/ OnModulo(r)
  \/ \E i \in DOMAIN chain[r].txs : \E c \in entries : Matches(chain[r].txs[i], c)

\* A round that was chosen is still to be fetched, or its calls were made.
SelectedInv ==
  outcome = "built" =>
    \A r \in DOMAIN chain :
      /\ r \in selected => Chosen(r)
      /\ Chosen(r) => r \in selected \/ CallsAt(r) \subseteq called

DictionaryInv == ShapeInv /\ EntriesInv /\ BuiltInv /\ SelectedInv

LEMMA InitInv == Init => DictionaryInv
<1> SUFFICES ASSUME Init PROVE DictionaryInv
  OBVIOUS
<1>1. project \in Seq(Handlers) /\ Len(project) \in Nat
  BY SizeAssumption DEF Init
<1>2. ShapeInv
  BY <1>1 DEF Init, ShapeInv
<1> QED
  BY <1>2 DEF Init, DictionaryInv, EntriesInv, BuiltInv, SelectedInv

LEMMA BuildHandlerInv ==
  ASSUME DictionaryInv, BuildHandler
  PROVE  DictionaryInv'
<1> DEFINE h == project[at]
           own == {Conditions(f) : f \in FilterList(h)}
<1>1. /\ outcome = "building" /\ at <= Len(project) /\ ~ MustScan(h)
      /\ entries \subseteq entries'
      /\ BaseHandlerKind(h) = "Transaction" => entries' = entries \cup own
      /\ BaseHandlerKind(h) # "Transaction" => entries' = entries
      /\ at' = at + 1
      /\ UNCHANGED <<project, chain, outcome, selected, called>>
  BY DEF BuildHandler
<1>2. at \in DOMAIN project
  BY <1>1 DEF DictionaryInv, ShapeInv
<1>3. ShapeInv'
  BY <1>1 DEF DictionaryInv, ShapeInv
<1>4. EntriesInv'
  <2> SUFFICES ASSUME NEW c \in entries'
               PROVE  \E i \in DOMAIN project :
                        /\ BaseHandlerKind(project[i]) = "Transaction"
                        /\ \E f \in FilterList(project[i]) : c = Conditions(f)
    BY <1>1 DEF EntriesInv, BaseHandlerKind, FilterList
  <2>1. CASE c \in entries
    BY <2>1 DEF DictionaryInv, EntriesInv
  <2>2. CASE c \notin entries
    BY <1>1, <1>2, <2>2
  <2> QED
    BY <2>1, <2>2
<1>5. BuiltInv'
  <2> SUFFICES ASSUME NEW i \in 1 .. at PROVE Covered(i)'
    BY <1>1 DEF BuiltInv, DictionaryInv, ShapeInv
  <2>1. CASE i = at
    BY <1>1, <2>1 DEF Covered, BaseHandlerKind, FilterList, MustScan
  <2>2. CASE i # at
    <3>1. i \in 1 .. at - 1
      BY <2>2 DEF DictionaryInv, ShapeInv
    <3>2. Covered(i)
      BY <1>1, <3>1 DEF DictionaryInv, BuiltInv
    <3> QED
      BY <1>1, <3>2 DEF Covered, BaseHandlerKind, FilterList, MustScan
  <2> QED
    BY <2>1, <2>2
<1>6. SelectedInv'
  BY <1>1 DEF SelectedInv
<1> QED
  BY <1>3, <1>4, <1>5, <1>6 DEF DictionaryInv

LEMMA SelectInv ==
  ASSUME DictionaryInv, Select
  PROVE  DictionaryInv'
<1>1. /\ \/ outcome = "building" /\ at > Len(project)
         \/ outcome = "giveUp"
      /\ selected' \subseteq DOMAIN chain
      /\ \A r \in DOMAIN chain : r \in selected' <=> Chosen(r)
      /\ outcome' = "built"
      /\ UNCHANGED <<project, chain, at, entries, called>>
  BY DEF Select, Chosen
<1>2. ShapeInv' /\ EntriesInv'
  BY <1>1 DEF DictionaryInv, ShapeInv, EntriesInv, BaseHandlerKind, FilterList
<1>3. BuiltInv'
  <2>1. CASE outcome = "giveUp"
    BY <1>1, <2>1 DEF DictionaryInv, BuiltInv
  <2>2. CASE outcome = "building"
    <3>1. ASSUME NEW i \in DOMAIN project PROVE Covered(i)
      BY <1>1, <2>2, <3>1 DEF DictionaryInv, BuiltInv, ShapeInv
    <3> QED
      BY <1>1, <3>1 DEF BuiltInv, Covered, BaseHandlerKind, FilterList, MustScan
  <2> QED
    BY <1>1, <2>1, <2>2
<1>4. \A r : Chosen(r)' <=> Chosen(r)
  BY <1>1 DEF Chosen, OnModulo, BlockFilters, BaseHandlerKind, FilterList
<1>5. SelectedInv'
  BY <1>1, <1>4 DEF SelectedInv
<1> QED
  BY <1>2, <1>3, <1>5 DEF DictionaryInv

LEMMA IndexInv ==
  ASSUME DictionaryInv, NEW q \in DOMAIN chain, Index(q)
  PROVE  DictionaryInv'
<1>1. /\ outcome = "built" /\ q \in selected
      /\ called' = called \cup CallsAt(q) /\ selected' = selected \ {q}
      /\ UNCHANGED <<project, chain, at, entries, outcome>>
  BY DEF Index
<1>2. ShapeInv' /\ EntriesInv'
  BY <1>1 DEF DictionaryInv, ShapeInv, EntriesInv, BaseHandlerKind, FilterList
<1>3. BuiltInv'
  BY <1>1 DEF DictionaryInv, BuiltInv, Covered, BaseHandlerKind, FilterList, MustScan
<1>4. \A r : Chosen(r)' <=> Chosen(r)
  BY <1>1 DEF Chosen, OnModulo, BlockFilters, BaseHandlerKind, FilterList
<1>5. \A r : CallsAt(r)' = CallsAt(r)
  BY <1>1 DEF CallsAt, Accepts, BaseHandlerKind, FilterList
<1>6. SelectedInv'
  <2> SUFFICES ASSUME NEW r \in DOMAIN chain
               PROVE  /\ r \in selected' => Chosen(r)
                      /\ Chosen(r) => r \in selected' \/ CallsAt(r) \subseteq called'
    BY <1>1, <1>4, <1>5 DEF SelectedInv
  <2> QED
    BY <1>1 DEF DictionaryInv, SelectedInv
<1> QED
  BY <1>2, <1>3, <1>6 DEF DictionaryInv

LEMMA StopInv ==
  ASSUME DictionaryInv, BuildThrows \/ BuildGivesUp
  PROVE  DictionaryInv'
<1>1. /\ outcome' \in {"throw", "giveUp"}
      /\ outcome' = "giveUp" => entries' = {}
      /\ entries' \subseteq entries
      /\ UNCHANGED <<project, chain, at, selected, called>>
  BY DEF BuildThrows, BuildGivesUp
<1>2. ShapeInv' /\ EntriesInv'
  BY <1>1 DEF DictionaryInv, ShapeInv, EntriesInv, BaseHandlerKind, FilterList
<1> QED
  BY <1>1, <1>2 DEF DictionaryInv, BuiltInv, SelectedInv

LEMMA StutterInv ==
  ASSUME DictionaryInv, UNCHANGED vars
  PROVE  DictionaryInv'
<1>1. \A r : Chosen(r)' <=> Chosen(r)
  BY DEF vars, Chosen, OnModulo, BlockFilters, BaseHandlerKind, FilterList
<1>2. \A r : CallsAt(r)' = CallsAt(r)
  BY DEF vars, CallsAt, Accepts, BaseHandlerKind, FilterList
<1>3. ShapeInv' /\ EntriesInv'
  BY DEF vars, DictionaryInv, ShapeInv, EntriesInv, BaseHandlerKind, FilterList
<1>4. BuiltInv'
  BY DEF vars, DictionaryInv, BuiltInv, Covered, BaseHandlerKind, FilterList, MustScan
<1>5. SelectedInv'
  BY <1>1, <1>2 DEF vars, DictionaryInv, SelectedInv
<1> QED
  BY <1>3, <1>4, <1>5 DEF DictionaryInv

LEMMA NextInv == DictionaryInv /\ [Next]_vars => DictionaryInv'
BY BuildHandlerInv, SelectInv, IndexInv, StopInv, StutterInv DEF Next, Terminating

LEMMA AlwaysInv == Spec => []DictionaryInv
BY InitInv, NextInv, PTL DEF Spec
------------------------------------------------------------------------------
(***************************************************************************)
(* What the invariant shows.                                               *)
(***************************************************************************)

\* The filters of a transaction handler of the project have distinct keys.
LEMMA ProjectFilters ==
  ASSUME ShapeInv, NEW i \in DOMAIN project, project[i].base = "Transaction",
         NEW f \in FilterList(project[i])
  PROVE  f # NoFilter /\ DistinctKeys(f)
<1>1. project[i] \in Handlers
  BY DEF ShapeInv
<1>2. f # NoFilter
  BY DEF FilterList
<1> QED
  BY <1>1, <1>2, FilterAssumption DEF DistinctKeys

(***************************************************************************)
(* Dictionary's variables keep their types: the entries only have          *)
(* conditions on indexed fields, and only rounds of the chain are fetched. *)
(***************************************************************************)
THEOREM DictionaryTypeCorrect == Spec => []TypeOK
<1>1. DictionaryInv => TypeOK
  <2> SUFFICES ASSUME DictionaryInv, NEW c \in entries, NEW k \in DOMAIN c
               PROVE  k # "applicationArgs"
    BY DEF DictionaryInv, ShapeInv, TypeOK
  <2>1. PICK i \in DOMAIN project :
          /\ BaseHandlerKind(project[i]) = "Transaction"
          /\ \E f \in FilterList(project[i]) : c = Conditions(f)
    BY DEF DictionaryInv, EntriesInv
  <2>2. PICK f \in FilterList(project[i]) : c = Conditions(f)
    BY <2>1
  <2>3. DistinctKeys(f)
    BY <2>1, ProjectFilters DEF DictionaryInv, BaseHandlerKind
  <2> QED
    BY <2>2, <2>3, ConditionsOf
<1> QED
  BY <1>1, AlwaysInv, PTL

(***************************************************************************)
(* Fetching only the rounds that the entries of buildDictionaryQueryEntries *)
(* select misses no call of a handler, for every project and every chain.  *)
(***************************************************************************)
THEOREM NothingMissedCorrect == Spec => []NothingMissed
<1>1. DictionaryInv => NothingMissed
  <2> SUFFICES ASSUME DictionaryInv, outcome = "built", selected = {},
                      NEW r \in DOMAIN chain, NEW call \in CallsAt(r), call \notin called
               PROVE  OutsideIndex(call)
    BY DEF NothingMissed
  <2>1. ~ Chosen(r)
    BY DEF DictionaryInv, SelectedInv
  <2>2. \A i \in DOMAIN project : Covered(i)
    BY <2>1 DEF Chosen, DictionaryInv, BuiltInv
  <2>3. chain[r].round = r /\ chain[r].txs \in Seq(Transactions)
    BY ChainAssumption DEF DictionaryInv, ShapeInv
  <2>4. CASE \E i \in DOMAIN project : Accepts(project[i], "Block", chain[r]) /\ call = <<i, r, 0>>
    <3>1. PICK i \in DOMAIN project : Accepts(project[i], "Block", chain[r]) /\ call = <<i, r, 0>>
      BY <2>4
    <3>2. BaseHandlerKind(project[i]) = "Block" /\ FilterList(project[i]) # {}
      BY <2>2, <3>1 DEF Covered, MustScan, Accepts
    <3>3. PICK f \in FilterList(project[i]) : FilterBlock(chain[r], f)
      BY <3>1, <3>2 DEF Accepts
    <3>4. f.modulo # Undefined /\ f \in BlockFilters
      BY <2>2, <3>2 DEF Covered, MustScan, BlockFilters
    <3>5. f.modulo \in {Null, 0}
      BY <2>1, <2>3, <3>3, <3>4 DEF Chosen, OnModulo, FilterBlock, FilterBlockModulo, FilterList
    <3> QED
      BY <3>1, <3>5 DEF OutsideIndex
  <2>5. CASE \E t \in DOMAIN chain[r].txs, i \in DOMAIN project :
               Accepts(project[i], "Transaction", chain[r].txs[t]) /\ call = <<i, r, t>>
    <3>1. PICK t \in DOMAIN chain[r].txs, i \in DOMAIN project :
            Accepts(project[i], "Transaction", chain[r].txs[t]) /\ call = <<i, r, t>>
      BY <2>5
    <3> DEFINE txn == chain[r].txs[t]
               h == project[i]
    <3>2. t # 0
      BY <2>3
    <3>3. SUFFICES ASSUME txn.txType \in MappedTypes,
                          NEW f \in FilterList(h), FilterTransaction(txn, f) = "pass", ~ Loose(f)
                   PROVE  FALSE
      <4>1. FilterList(h) # {}
        BY <2>2 DEF Covered, MustScan
      <4> QED
        BY <3>1, <3>2, <3>3, <4>1 DEF OutsideIndex
    <3>4. h.base = "Transaction" /\ Conditions(f) \in entries
      BY <2>2, <3>1, <3>3 DEF Accepts, Covered, BaseHandlerKind
    <3>5. f # NoFilter /\ DistinctKeys(f)
      BY <3>3, <3>4, ProjectFilters DEF DictionaryInv
    <3>6. Matches(txn, Conditions(f))
      BY <3>3, <3>5, PassMatches
    <3> QED
      BY <2>1, <3>1, <3>4, <3>6 DEF Chosen
  <2> QED
    BY <2>4, <2>5 DEF CallsAt
<1> QED
  BY <1>1, AlwaysInv, PTL

(***************************************************************************)
(* And fetches nothing useless: a selected round has work for some handler *)
(* unless a modulo or a filter on arguments explains it.                   *)
(***************************************************************************)
THEOREM NothingUselessCorrect == Spec => []NothingUseless
<1>1. DictionaryInv => NothingUseless
  <2> SUFFICES ASSUME DictionaryInv, outcome = "built", entries # {}, NEW r \in selected,
                      ~ OnModulo(r),
                      \A i \in DOMAIN project :
                        ~ (BaseHandlerKind(project[i]) = "Transaction" /\ HasArgs(project[i]))
               PROVE  CallsAt(r) # {}
    BY DEF NothingUseless
  <2>1. r \in DOMAIN chain /\ Chosen(r)
    BY DEF DictionaryInv, ShapeInv, SelectedInv
  <2>2. PICK t \in DOMAIN chain[r].txs, c \in entries : Matches(chain[r].txs[t], c)
    BY <2>1 DEF Chosen
  <2>3. PICK i \in DOMAIN project :
          /\ BaseHandlerKind(project[i]) = "Transaction"
          /\ \E f \in FilterList(project[i]) : c = Conditions(f)
    BY DEF DictionaryInv, EntriesInv
  <2>4. PICK f \in FilterList(project[i]) : c = Conditions(f)
    BY <2>3
  <2>5. \A k \in DOMAIN f : f[k].key # "applicationArgs"
    BY <2>3 DEF HasArgs
  <2>6. f # NoFilter /\ DistinctKeys(f)
    BY <2>3, ProjectFilters DEF DictionaryInv, BaseHandlerKind
  <2>7. FilterTransaction(chain[r].txs[t], f) = "pass"
    BY <2>2, <2>4, <2>5, <2>6, MatchPasses
  <2>8. Accepts(project[i], "Transaction", chain[r].txs[t])
    BY <2>3, <2>7 DEF Accepts
  <2>9. <<i, r, t>> \in CallsAt(r)
    BY <2>2, <2>8 DEF CallsAt
  <2> QED
    BY <2>9
<1> QED
  BY <1>1, AlwaysInv, PTL
==============================================================================
