------------------------------ MODULE Manifest -------------------------------
(***************************************************************************)
(* Loading a project manifest (packages/common-algorand/src/project):      *)
(* parseAlgorandProjectManifest turns the raw manifest into objects of     *)
(* model classes and validates them with the rules declared there.  A      *)
(* manifest that is accepted goes to the dictionary and the indexer        *)
(* manager, so the question is whether what validation lets through is     *)
(* what those parts can handle.                                            *)
(*                                                                         *)
(* A manifest is [specVersion, dataSources, templates], a data source      *)
(* [kind, processor, name, handlers], a handler [kind, handler, filter]; a *)
(* filter is the sequence of its entries, as in Filters.                   *)
(***************************************************************************)
EXTENDS Filters

CONSTANTS
  Manifests,     \* raw manifests
  Transactions   \* transactions the filters of an accepted manifest may meet

Elements(seq) == {seq[i] : i \in DOMAIN seq}

\* The filter of a template's handler is a list of entries, if there is one.
ASSUME TemplateAssumption ==
  \A m \in Manifests : m.templates # Undefined =>
    \A t \in Elements(m.templates) : \A h \in Elements(t.handlers) :
      h.filter = NoFilter \/ h.filter \in Seq(Elements(h.filter))

VARIABLES
  manifest,
  pc,       \* "raw", "parsed", "accepted" or "rejected"
  reason    \* why it was rejected

vars == <<manifest, pc, reason>>

Init ==
  /\ manifest \in Manifests
  /\ pc = "raw"
  /\ reason = "none"

Templates == IF manifest.templates = Undefined THEN {} ELSE Elements(manifest.templates)

DataSources == Elements(manifest.dataSources)

Kinds == {"Block", "Transaction"}

IsRuntimeDs(ds) == ds.kind = "Runtime"

IsCustomDs(ds) == ds.kind # "Runtime" /\ ds.processor

Reject(why) ==
  /\ pc' = "rejected"
  /\ reason' = why
  /\ UNCHANGED manifest

\* The class of the manifest is looked up by its version.
UnsupportedVersion ==
  /\ pc = "raw"
  /\ manifest.specVersion # "1.0.0"
  /\ Reject("version")

\* Mutant: the switch over the kinds of handlers has no default.
UnknownHandlerPasses == FALSE

\* A handler of a runtime data source that the transformation to a class
\* throws on.
UnknownHandler ==
  \E ds \in DataSources \cup Templates :
    IsRuntimeDs(ds) /\ \E h \in Elements(ds.handlers) : h.kind \notin Kinds

UnsupportedHandler ==
  /\ pc = "raw"
  /\ manifest.specVersion = "1.0.0"
  /\ UnknownHandler
  /\ Reject("handler")

Parse ==
  /\ pc = "raw"
  /\ manifest.specVersion = "1.0.0"
  /\ ~ UnknownHandler
  /\ pc' = "parsed"
  /\ UNCHANGED <<manifest, reason>>

\* The transaction types for which the rule of a filter key applies.
ValidateIf ==
  [sender          |-> {"pay", "axfer", "appl"},
   receiver        |-> {"pay", "axfer"},
   nonParticipant  |-> {"keyreg"},
   assetId         |-> {"acfg", "axfer", "afrz"},
   newFreezeStatus |-> {"afrz"},
   address         |-> {"afrz"},
   applicationId   |-> {"appl"},
   applicationArgs |-> {"appl"}]

\* The type that the rule asks for.
DeclaredType ==
  [sender |-> "string", receiver |-> "string", nonParticipant |-> "boolean",
   assetId |-> "number", newFreezeStatus |-> "boolean", address |-> "string",
   applicationId |-> "number", applicationArgs |-> "string"]

\* Mutant: only the first type that a rule names is looked at.
RuleAppliesToFirst(key, type) ==
  key \in DOMAIN ValidateIf /\ type \in {Str(t) : t \in ValidateIf[key] \ {"axfer", "afrz"}}

RuleApplies(key, type) ==
  key \in DOMAIN ValidateIf /\ type \in {Str(t) : t \in ValidateIf[key]}

\* The JavaScript type of a value; IsOptional lets "none" pass.
TypeOf(value) == IF value \in {Undefined, Null} THEN "none" ELSE value[1]

\* Mutant: the rule for the receiver has the option each, which is for lists: it
\* looks at the elements of a list, and at the value when it is none.
ValidEntryEach(entry, type) ==
  /\ entry.key = "txType" => entry.value \in {Undefined, Null} \cup {Str(t) : t \in TxTypes}
  /\ RuleApplies(entry.key, type) =>
       \/ TypeOf(entry.value) \in {"none", DeclaredType[entry.key]}
       \/ /\ entry.key = "receiver" /\ IsList(entry.value)
          /\ \A v \in Elements(entry.value[2]) : TypeOf(v) = "string"

ValidEntry(entry, type) ==
  /\ entry.key = "txType" => entry.value \in {Undefined, Null} \cup {Str(t) : t \in TxTypes}
  /\ RuleApplies(entry.key, type) =>
       TypeOf(entry.value) \in {"none", DeclaredType[entry.key]}

BlockRule == [modulo |-> "number", timestamp |-> "string"]

ValidBlockEntry(entry) ==
  entry.key \in DOMAIN BlockRule => TypeOf(entry.value) \in {"none", BlockRule[entry.key]}

IsString(value) == TypeOf(value) = "string"

\* A filter of a custom handler is any object.
ValidFilter(ds, h) ==
  h.filter # NoFilter /\ IsRuntimeDs(ds) =>
    \A e \in Elements(h.filter) :
      IF h.kind = "Block" THEN ValidBlockEntry(e) ELSE ValidEntry(e, TxTypeOf(h.filter))

ValidDs(ds) ==
  /\ IsRuntimeDs(ds) \/ ds.processor
  /\ \A h \in Elements(ds.handlers) : IsString(h.handler) /\ ValidFilter(ds, h)

\* A template is a data source with a name.
ValidTemplate(t) == ValidDs(t) /\ IsString(t.name)

Valid ==
  /\ \A ds \in DataSources : ValidDs(ds)
  /\ \A t \in Templates : ValidTemplate(t)

\* Keys with a rule in the class of the filter.
Decorated(h) == IF h.kind = "Block" THEN DOMAIN BlockRule ELSE FilterKeys

HasUnknownKey ==
  \E ds \in DataSources \cup Templates : \E h \in Elements(ds.handlers) :
    /\ IsRuntimeDs(ds) /\ h.filter # NoFilter
    /\ \E e \in Elements(h.filter) : e.key \notin Decorated(h)

(***************************************************************************)
(* What is validated is the deployment, a copy of the manifest that a      *)
(* class of @subql/common makes.  Whether the copy still has the keys that *)
(* the model classes do not know, which forbidNonWhitelisted would make an *)
(* error, is not in this repository: such a manifest may be accepted.      *)
(***************************************************************************)
Accept ==
  /\ pc = "parsed"
  /\ Valid
  /\ pc' = "accepted"
  /\ UNCHANGED <<manifest, reason>>

\* Mutant: the errors are collected and not thrown.
ErrorsNotThrown ==
  /\ pc = "parsed"
  /\ ~ Valid
  /\ pc' = "accepted"
  /\ reason' = "invalid"
  /\ UNCHANGED manifest

\* validateSync found errors.
Invalid ==
  /\ pc = "parsed"
  /\ ~ Valid \/ HasUnknownKey
  /\ Reject("invalid")

Terminating == pc \in {"accepted", "rejected"} /\ UNCHANGED vars

Next ==
  \/ UnsupportedVersion \/ UnsupportedHandler \/ Parse
  \/ Accept \/ Invalid
  \/ Terminating

Spec == Init /\ [][Next]_vars
------------------------------------------------------------------------------
\* A manifest is rejected for a reason, and accepted without one.
TypeOK ==
  /\ pc \in {"raw", "parsed", "accepted", "rejected"}
  /\ pc = "rejected" <=> reason \in {"version", "handler", "invalid"}
  /\ pc # "rejected" <=> reason = "none"

(***************************************************************************)
(* No part of an accepted manifest is silently ignored: every data source  *)
(* is of a runtime or a custom kind, which is what indexData asks, and     *)
(* every handler of a runtime one is of a kind that blocks or transactions *)
(* are offered to (and that getBaseHandlerKind does not throw on).         *)
(***************************************************************************)
NothingIgnored ==
  pc = "accepted" =>
    \A ds \in DataSources \cup Templates :
      /\ IsRuntimeDs(ds) \/ IsCustomDs(ds)
      /\ IsRuntimeDs(ds) => \A h \in Elements(ds.handlers) : h.kind \in Kinds

\* The type of what a transaction holds under a filter key.
FieldType == [DeclaredType EXCEPT !["applicationArgs"] = "list"]

\* Keys that no rule looks at for a type whose mapping has them, and the list
\* of arguments, of which validation asks a string.
Gaps ==
  {<<"sender", "keyreg">>, <<"sender", "acfg">>, <<"applicationArgs", "appl">>}

TransactionFiltersOf(ds) ==
  {h.filter : h \in {x \in Elements(ds.handlers) :
                       IsRuntimeDs(ds) /\ x.kind = "Transaction" /\ x.filter # NoFilter}}

(***************************************************************************)
(* A value in an accepted filter with a type is compared with a value of   *)
(* its own kind: no accepted entry can never match because it is, say, a   *)
(* number where transactions have a string.  This needs every key that     *)
(* mappingFilterTransaction has for a type to have a rule for that type;   *)
(* Gaps are the ones that have not.                                        *)
(***************************************************************************)
LikeWithLike ==
  pc = "accepted" =>
    \A ds \in DataSources : \A f \in TransactionFiltersOf(ds) : \A t \in MappedTypes :
      TxTypeOf(f) = Str(t) =>
        \A e \in Elements(f) :
          \/ e.key \notin DOMAIN MappingFilterTransaction[t]
          \/ TypeOf(e.value) \in {"none", FieldType[e.key]}
          \/ <<e.key, t>> \in Gaps

\* An entry with a list, under a key that no rule looked at.
UncheckedList(f) ==
  \E e \in Elements(f) : IsList(e.value) /\ ~ RuleApplies(e.key, TxTypeOf(f))

\* A template's handler as updateDynamicDs leaves it.
CreatedFilter(f) ==
  LET h == [base |-> "Transaction", filters |-> <<f>>]
  IN  UpdateDynamicDs([kind |-> "runtime", handlers |-> <<h>>]).handlers[1].filters[1]

(***************************************************************************)
(* A filter of an accepted manifest throws, of a data source or of one     *)
(* created from a template, only if it has a list in a place that no rule  *)
(* looks at, because of the filter's type or because the key is unknown.   *)
(* (A list of arguments that a rule would let through would throw too, on  *)
(* calls without arguments.)                                               *)
(***************************************************************************)
ThrowsOnlyUnchecked ==
  pc = "accepted" =>
    \A txn \in Transactions :
      /\ \A ds \in DataSources : \A f \in TransactionFiltersOf(ds) :
           FilterTransaction(txn, f) = "throw" => UncheckedList(f)
      /\ \A t \in Templates : \A f \in TransactionFiltersOf(t) :
           FilterTransaction(txn, CreatedFilter(f)) = "throw" => UncheckedList(f)
------------------------------------------------------------------------------
\* A filter as the documentation of AlgorandTransactionFilter writes it: every
\* key of the type, with values of the declared types, null to skip an argument.
Documented(f) ==
  \A e \in Elements(f) :
    \/ e.key = "txType" /\ e.value \in {Str(t) : t \in MappedTypes}
    \/ e.key \in DOMAIN FieldType /\ TypeOf(e.value) = FieldType[e.key]

(***************************************************************************)
(* The example "applicationArgs: ['udVC+w==']" (types/src/project.ts):     *)
(* a manifest whose filters are as documented is not rejected by           *)
(* validation for them.  It is not so: see the findings.                   *)
(***************************************************************************)
DocumentedFiltersAccepted ==
  reason = "invalid" =>
    \E ds \in DataSources : \E f \in TransactionFiltersOf(ds) : ~ Documented(f)
==============================================================================
