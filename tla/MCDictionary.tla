---------------------------- MODULE MCDictionary -----------------------------
(***************************************************************************)
(* Projects of up to two handlers over chains of two rounds, for TLC.      *)
(***************************************************************************)
EXTENDS Dictionary, TLC

Entry(k, v) == [key |-> k, value |-> v]

Type(t) == Entry("txType", Str(t))

\* Strings have one character here.
MCCharAt(s, i) == IF i = 1 THEN Str(s) ELSE Undefined

MCTransactions ==
  {[txType |-> "pay",
    at |-> "sender" :> Str(s) @@ "paymentTransaction.receiver" :> Str(r)] :
     s \in {"a", "b"}, r \in {"a", "b"}}
  \cup
  {[txType |-> "appl",
    at |-> "sender" :> Str("a") @@ "applicationTransaction.applicationId" :> Num(n)
           @@ "applicationTransaction.applicationArgs" :> List(args)] :
     n \in {1, 2}, args \in {<<Str("x"), Str("y")>>, <<Str("y")>>}}
  \cup
  {[txType |-> "afrz",
    at |-> "sender" :> Str("a") @@ "assetFreezeTransaction.assetId" :> Num(1)],
   [txType |-> "stpf", at |-> "sender" :> Str("b")]}

TransactionFilters ==
  {<< >>,
   <<Type("pay")>>,
   <<Entry("sender", Str("a"))>>,
   <<Entry("sender", Str("b")), Entry("receiver", Undefined)>>,
   <<Type("pay"), Entry("receiver", Str("b"))>>,
   <<Type("appl"), Entry("applicationId", Num(1)), Entry("applicationArgs", List(<<Str("x")>>))>>,
   <<Type("appl"), Entry("applicationArgs", List(<<Null, Str("y")>>))>>,
   <<Entry("applicationId", Num(2)), Entry("sender", Str("a"))>>,
   <<Type("afrz"), Entry("address", Str("a")), Entry("assetId", Num(1))>>,
   <<Entry("txType", Null), Entry("sender", Str("a"))>>,
   <<Entry("txType", Str("")), Entry("sender", Str("b"))>>,
   <<Entry("receiver", List(<<Null>>))>>,
   <<Entry("receiver", List(<<Str("b")>>))>>,
   <<Entry("bogus", Str("a"))>>}

BlockFilterSet ==
  {[modulo |-> m, scheduled |-> s] : m \in {Undefined, Null, 0, 2}, s \in BOOLEAN}

Handler(b, fs) == [custom |-> FALSE, base |-> b, filters |-> fs]

CustomHandler(b, fs) == [custom |-> TRUE, base |-> b, filters |-> fs]

\* One handler per filter, handlers without one, a custom handler with two base
\* filters and a custom handler that its processor does not know.
MCHandlers ==
  {Handler("Transaction", <<f>>) : f \in TransactionFilters}
  \cup {Handler("Block", <<f>>) : f \in BlockFilterSet}
  \cup {Handler("Transaction", << >>),
        Handler("Block", <<NoFilter>>),
        CustomHandler("Transaction", <<NoFilter, <<Type("pay"), Entry("sender", Str("b"))>>,
                                       <<Type("appl")>> >>),
        CustomHandler("unknown", << >>)}

MCBlocks(r) ==
  {[round |-> r, due |-> d, txs |-> t] :
     d \in {r = 2}, t \in {<< >>} \cup {<<x>> : x \in Transactions}}

MCChains == {<<b1, b2>> : b1 \in MCBlocks(1), b2 \in MCBlocks(2)}
==============================================================================
