----------------------------- MODULE MCManifest ------------------------------
(***************************************************************************)
(* Manifests for TLC: a data source with one handler, whose filter has any *)
(* type or none and one key with a value of any kind; variations of kinds, *)
(* versions and missing parts; a template with the same filters.           *)
(***************************************************************************)
EXTENDS Manifest, TLC

Entry(k, v) == [key |-> k, value |-> v]

\* Strings have one character here.
MCCharAt(s, i) == IF i = 1 THEN Str(s) ELSE Undefined

SomeValues == {Null, Str("a"), Num(1), Flag(TRUE), List(<<Str("x")>>), List(<<Null>>)}

TypeEntries ==
  {<< >>, <<Entry("txType", Null)>>, <<Entry("txType", Str("bogus"))>>}
  \cup {<<Entry("txType", Str(t))>> : t \in TxTypes}

SomeFilters ==
  {t \o <<Entry(k, v)>> : t \in TypeEntries,
                          k \in (FilterKeys \ {"txType"}) \cup {"bogus"}, v \in SomeValues}

DefinedFilters ==
  {t \o <<Entry(k, v)>> : t \in {<<Entry("txType", Str(x))>> : x \in MappedTypes},
                          k \in FilterKeys \ {"txType"}, v \in SomeValues}

Handler(k, f) == [kind |-> k, handler |-> Str("h"), filter |-> f]

Ds(k, p, h) == [kind |-> k, processor |-> p, name |-> Str("n"), handlers |-> <<h>>]

Plain(ds, ts) == [specVersion |-> "1.0.0", dataSources |-> <<ds>>, templates |-> ts]

Simple == Ds("Runtime", FALSE, Handler("Block", NoFilter))

OddDataSources ==
  {Ds(k, p, Handler(hk, f)) :
     k \in {"Runtime", "Custom"}, p \in BOOLEAN, hk \in Kinds \cup {"Other"},
     f \in {NoFilter} \cup {<<Entry(x, v)>> : x \in {"modulo", "timestamp", "sender"}, v \in SomeValues}}

MCManifests ==
  {Plain(Ds("Runtime", FALSE, Handler("Transaction", f)), Undefined) : f \in SomeFilters}
  \cup {Plain(Simple, <<Ds("Runtime", FALSE, Handler("Transaction", f))>>) : f \in SomeFilters}
  \cup {Plain(ds, Undefined) : ds \in OddDataSources}
  \cup {Plain(Simple, <<ds>>) : ds \in OddDataSources}
  \cup {[Plain(Simple, Undefined) EXCEPT !.specVersion = "0.2.0"],
        Plain(Simple, <<[Simple EXCEPT !.name = Undefined]>>),
        Plain([Simple EXCEPT !.handlers[1].handler = Undefined], Undefined)}

\* Transactions with everything a filter may ask for, and without the optional parts.
MCTransactions ==
  {[txType |-> t, at |-> "sender" :> Str("a")] : t \in TxTypes}
  \cup {[txType |-> "appl",
         at |-> "sender" :> Str("a") @@ "applicationTransaction.applicationId" :> Num(1)
                @@ "applicationTransaction.applicationArgs" :> List(<<Str("x"), Str("y")>>)],
        [txType |-> "pay",
         at |-> "sender" :> Str("a") @@ "paymentTransaction.receiver" :> Str("a")]}

DocumentedManifests ==
  {Plain(Ds("Runtime", FALSE, Handler("Transaction", f)), Undefined) : f \in DefinedFilters}
==============================================================================
