--------------------------- MODULE ManifestProofs ----------------------------
(***************************************************************************)
(* TLAPS proofs about Manifest: what validation lets through, for any set  *)
(* of manifests and of transactions.                                       *)
(***************************************************************************)
EXTENDS Manifest, TLAPS

\* What parsing and validation leave behind them.
ParsedInv ==
  /\ manifest \in Manifests
  /\ pc \in {"parsed", "accepted"} => ~ UnknownHandler
  /\ pc = "accepted" => Valid

ManifestInv == TypeOK /\ ParsedInv

LEMMA InitInv == Init => ManifestInv
BY DEF Init, ManifestInv, TypeOK, ParsedInv

LEMMA ManifestUnchanged ==
  ASSUME UNCHANGED manifest
  PROVE  (UnknownHandler' <=> UnknownHandler) /\ (Valid' <=> Valid)
<1>1. DataSources' = DataSources /\ Templates' = Templates
  BY DEF DataSources, Templates
<1> QED
  BY <1>1 DEF UnknownHandler, Valid

LEMMA NextInv == ManifestInv /\ [Next]_vars => ManifestInv'
<1> SUFFICES ASSUME ManifestInv, [Next]_vars PROVE ManifestInv'
  OBVIOUS
<1>1. UNCHANGED manifest
  BY DEF Next, vars, UnsupportedVersion, UnsupportedHandler, Parse, Accept, Invalid,
         Terminating, Reject
<1>2. (UnknownHandler' <=> UnknownHandler) /\ (Valid' <=> Valid)
  BY <1>1, ManifestUnchanged
<1>3. TypeOK'
  BY DEF ManifestInv, TypeOK, Next, vars, UnsupportedVersion, UnsupportedHandler, Parse,
         Accept, Invalid, Terminating, Reject
<1>4. ParsedInv'
  BY <1>1, <1>2 DEF ManifestInv, ParsedInv, Next, vars, UnsupportedVersion,
     UnsupportedHandler, Parse, Accept, Invalid, Terminating, Reject
<1> QED
  BY <1>3, <1>4 DEF ManifestInv

LEMMA AlwaysInv == Spec => []ManifestInv
BY InitInv, NextInv, PTL DEF Spec

\* A manifest is rejected for a reason, and accepted without one.
THEOREM ManifestTypeCorrect == Spec => []TypeOK
BY AlwaysInv, PTL DEF ManifestInv

(***************************************************************************)
(* Every data source and every runtime handler of an accepted manifest is  *)
(* of a kind that the indexer manager offers blocks or transactions to.    *)
(***************************************************************************)
THEOREM NothingIgnoredCorrect == Spec => []NothingIgnored
<1>1. ManifestInv => NothingIgnored
  <2> SUFFICES ASSUME ManifestInv, pc = "accepted", NEW ds \in DataSources \cup Templates
               PROVE  /\ IsRuntimeDs(ds) \/ IsCustomDs(ds)
                      /\ IsRuntimeDs(ds) => \A h \in Elements(ds.handlers) : h.kind \in Kinds
    BY DEF NothingIgnored
  <2>1. IsRuntimeDs(ds) \/ ds.processor
    BY DEF ManifestInv, ParsedInv, Valid, ValidTemplate, ValidDs
  <2>2. IsRuntimeDs(ds) => \A h \in Elements(ds.handlers) : h.kind \in Kinds
    BY DEF ManifestInv, ParsedInv, UnknownHandler
  <2> QED
    BY <2>1, <2>2 DEF IsRuntimeDs, IsCustomDs
<1> QED
  BY <1>1, AlwaysInv, PTL

\* An entry of an accepted filter of a runtime transaction handler is valid.
LEMMA AcceptedEntry ==
  ASSUME ManifestInv, pc = "accepted", NEW ds \in DataSources \cup Templates,
         NEW f \in TransactionFiltersOf(ds), NEW e \in Elements(f)
  PROVE  ValidEntry(e, TxTypeOf(f))
<1>1. ValidDs(ds)
  BY DEF ManifestInv, ParsedInv, Valid, ValidTemplate
<1>2. PICK h \in Elements(ds.handlers) :
        IsRuntimeDs(ds) /\ h.kind = "Transaction" /\ h.filter # NoFilter /\ h.filter = f
  BY DEF TransactionFiltersOf
<1>3. ValidFilter(ds, h)
  BY <1>1 DEF ValidDs
<1> QED
  BY <1>2, <1>3 DEF ValidFilter

(***************************************************************************)
(* A value in an accepted filter is of the kind of what it is compared     *)
(* with, the named gaps apart.                                             *)
(***************************************************************************)
THEOREM LikeWithLikeCorrect == Spec => []LikeWithLike
<1>1. ManifestInv => LikeWithLike
  <2> SUFFICES ASSUME ManifestInv, pc = "accepted", NEW ds \in DataSources,
                      NEW f \in TransactionFiltersOf(ds), NEW t \in MappedTypes,
                      TxTypeOf(f) = Str(t), NEW e \in Elements(f),
                      e.key \in DOMAIN MappingFilterTransaction[t], <<e.key, t>> \notin Gaps
               PROVE  TypeOf(e.value) \in {"none", FieldType[e.key]}
    BY DEF LikeWithLike
  <2>1. ValidEntry(e, Str(t))
    BY AcceptedEntry
  <2>2. /\ e.key \in DOMAIN ValidateIf /\ e.key # "txType"
        /\ t \in ValidateIf[e.key] /\ FieldType[e.key] = DeclaredType[e.key]
    <3>1. t \in {"pay", "keyreg", "acfg", "axfer", "afrz", "appl"}
      BY DEF MappedTypes, MappingFilterTransaction
    <3>2. CASE t = "pay"
      BY <3>2 DEF MappingFilterTransaction, ValidateIf, FieldType, DeclaredType
    <3>3. CASE t = "keyreg"
      BY <3>3 DEF MappingFilterTransaction, ValidateIf, FieldType, DeclaredType, Gaps
    <3>4. CASE t = "acfg"
      BY <3>4 DEF MappingFilterTransaction, ValidateIf, FieldType, DeclaredType, Gaps
    <3>5. CASE t = "axfer"
      BY <3>5 DEF MappingFilterTransaction, ValidateIf, FieldType, DeclaredType
    <3>6. CASE t = "afrz"
      BY <3>6 DEF MappingFilterTransaction, ValidateIf, FieldType, DeclaredType
    <3>7. CASE t = "appl"
      BY <3>7 DEF MappingFilterTransaction, ValidateIf, FieldType, DeclaredType, Gaps
    <3> QED
      BY <3>1, <3>2, <3>3, <3>4, <3>5, <3>6, <3>7
  <2> QED
    BY <2>1, <2>2 DEF ValidEntry, RuleApplies
<1> QED
  BY <1>1, AlwaysInv, PTL

\* Only the comparison with a list throws.
LEMMA ThrowsAtList ==
  ASSUME NEW txn, NEW f, FilterTransaction(txn, f) = "throw"
  PROVE  \E i \in DOMAIN f : f[i].key # "txType" /\ IsList(f[i].value)
<1>1. PICK i \in DOMAIN f : f[i].key # "txType" /\ EntryOutcome(txn, f[i]) = "throw"
  BY DEF FilterTransaction
<1>2. IsList(f[i].value)
  BY <1>1 DEF EntryOutcome
<1> QED
  BY <1>1, <1>2

\* No rule asks for a list, so that an accepted one was not looked at.
LEMMA AcceptedList ==
  ASSUME ManifestInv, pc = "accepted", NEW ds \in DataSources \cup Templates,
         NEW f \in TransactionFiltersOf(ds), NEW i \in DOMAIN f,
         f[i].key # "txType", IsList(f[i].value)
  PROVE  UncheckedList(f)
<1>1. f[i] \in Elements(f)
  BY DEF Elements
<1>2. ValidEntry(f[i], TxTypeOf(f))
  BY <1>1, AcceptedEntry
<1>3. TypeOf(f[i].value) = "list"
  BY DEF IsList, TypeOf
<1>4. \A k \in DOMAIN ValidateIf : "list" \notin {"none", DeclaredType[k]}
  BY DEF ValidateIf, DeclaredType
<1>5. ~ RuleApplies(f[i].key, TxTypeOf(f))
  BY <1>2, <1>3, <1>4 DEF ValidEntry, RuleApplies
<1> QED
  BY <1>1, <1>5 DEF UncheckedList

\* updateDynamicDs adds no entry but the type.
LEMMA CreatedEntries ==
  ASSUME NEW f, f \in Seq(Elements(f)), NEW i \in DOMAIN CreatedFilter(f),
         CreatedFilter(f)[i].key # "txType"
  PROVE  i \in DOMAIN f /\ f[i] = CreatedFilter(f)[i]
<1> DEFINE h == [base |-> "Transaction", filters |-> <<f>>]
           appl == [key |-> "txType", value |-> Str("appl")]
           typed == IF HasTxType(f)
                    THEN [k \in DOMAIN f |-> IF f[k].key = "txType" THEN appl ELSE f[k]]
                    ELSE Append(f, appl)
<1>1. OwnFilter(h) = f
  BY DEF OwnFilter
<1>2. ApplOnly(h) = [h EXCEPT !.filters = <<typed>>]
  BY <1>1 DEF ApplOnly
<1>3. ApplOnly(h).filters[1] = typed
  <2> HIDE DEF typed
  <2> QED
    BY <1>2
<1>4. CreatedFilter(f) = ApplOnly(h).filters[1]
  BY DEF CreatedFilter, UpdateDynamicDs
<1>5. appl.key = "txType"
  OBVIOUS
<1>6. CreatedFilter(f) = typed
  BY <1>3, <1>4
<1> HIDE DEF appl
<1>7. CASE HasTxType(f)
  BY <1>5, <1>6, <1>7
<1>8. CASE ~ HasTxType(f)
  <2>1. Len(f) \in Nat /\ DOMAIN f = 1 .. Len(f)
    OBVIOUS
  <2>2. typed = Append(f, appl)
    BY <1>8
  <2>3. /\ DOMAIN typed = 1 .. Len(f) + 1 /\ typed[Len(f) + 1] = appl
        /\ \A k \in 1 .. Len(f) : typed[k] = f[k]
    <3> HIDE DEF typed
    <3> QED
      BY <2>1, <2>2
  <2> HIDE DEF typed
  <2>4. i # Len(f) + 1 /\ i \in 1 .. Len(f) + 1
    BY <1>5, <1>6, <2>3
  <2> QED
    BY <1>6, <2>1, <2>3, <2>4
<1> QED
  BY <1>7, <1>8

(***************************************************************************)
(* A filter of an accepted manifest, or of a data source created from one  *)
(* of its templates, throws only at a list that validation skipped.        *)
(***************************************************************************)
THEOREM ThrowsOnlyUncheckedCorrect == Spec => []ThrowsOnlyUnchecked
<1>1. ManifestInv => ThrowsOnlyUnchecked
  <2> SUFFICES ASSUME ManifestInv, pc = "accepted", NEW txn \in Transactions
               PROVE  /\ \A ds \in DataSources : \A f \in TransactionFiltersOf(ds) :
                           FilterTransaction(txn, f) = "throw" => UncheckedList(f)
                      /\ \A t \in Templates : \A f \in TransactionFiltersOf(t) :
                           FilterTransaction(txn, CreatedFilter(f)) = "throw" => UncheckedList(f)
    BY DEF ThrowsOnlyUnchecked
  <2>1. ASSUME NEW ds \in DataSources, NEW f \in TransactionFiltersOf(ds),
               FilterTransaction(txn, f) = "throw"
        PROVE  UncheckedList(f)
    BY <2>1, ThrowsAtList, AcceptedList
  <2>2. ASSUME NEW t \in Templates, NEW f \in TransactionFiltersOf(t),
               FilterTransaction(txn, CreatedFilter(f)) = "throw"
        PROVE  UncheckedList(f)
    <3>1. f \in Seq(Elements(f))
      BY TemplateAssumption DEF Templates, TransactionFiltersOf, ManifestInv, ParsedInv
    <3>2. PICK i \in DOMAIN CreatedFilter(f) :
            CreatedFilter(f)[i].key # "txType" /\ IsList(CreatedFilter(f)[i].value)
      BY <2>2, ThrowsAtList
    <3>3. i \in DOMAIN f /\ f[i] = CreatedFilter(f)[i]
      BY <3>1, <3>2, CreatedEntries
    <3> QED
      BY <3>2, <3>3, AcceptedList
  <2> QED
    BY <2>1, <2>2
<1> QED
  BY <1>1, AlwaysInv, PTL
==============================================================================
