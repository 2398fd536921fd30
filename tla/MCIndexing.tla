----------------------------- MODULE MCIndexing ------------------------------
(***************************************************************************)
(* One or two data sources, blocks of up to two transactions and one       *)
(* template, for TLC.                                                      *)
(***************************************************************************)
EXTENDS Indexing, TLC

Entry(k, v) == [key |-> k, value |-> v]

Type(t) == Entry("txType", Str(t))

\* Strings have one character here.
MCCharAt(s, i) == IF i = 1 THEN Str(s) ELSE Undefined

Pay(s) == [txType |-> "pay",
           at |-> "sender" :> Str(s) @@ "paymentTransaction.receiver" :> Str("a")]

Appl(args) == [txType |-> "appl",
               at |-> "sender" :> Str("a") @@ "applicationTransaction.applicationId" :> Num(1)
                      @@ "applicationTransaction.applicationArgs" :> List(args)]

ApplWithoutArgs == [txType |-> "appl",
                    at |-> "sender" :> Str("a") @@ "applicationTransaction.applicationId" :> Num(1)]

Freeze(s) == [txType |-> "afrz", at |-> "sender" :> Str(s)]

StateProof == [txType |-> "stpf", at |-> "sender" :> Str("b")]

Txs == {Pay("a"), Pay("b"), Appl(<<Str("x"), Str("y")>>), ApplWithoutArgs, Freeze("a"), StateProof}

MCBlocks ==
  {[round |-> r, due |-> d, transactions |-> t] :
     r \in {1, 2}, d \in BOOLEAN,
     t \in {Undefined, << >>} \cup {<<x>> : x \in Txs} \cup {<<x, y>> : x, y \in Txs}}

Handler(b, fs) == [base |-> b, filters |-> fs]

Runtime(hs) == [kind |-> "runtime", handlers |-> hs]

Custom(hs) == [kind |-> "custom", handlers |-> hs]

BlockH(m, s) == Handler("Block", <<[modulo |-> m, scheduled |-> s]>>)

\* Two handlers of each kind; a custom handler with two base filters.
DsMixed == Runtime(<<BlockH(2, FALSE), Handler("Transaction", << >>),
                     Handler("Transaction", <<<<Type("appl"), Entry("applicationArgs", List(<<Str("x")>>))>>>>),
                     Handler("Block", << >>)>>)
DsCustom == Custom(<<Handler("Transaction", <<<<Entry("sender", Str("b"))>>, <<Type("appl")>>>>),
                     BlockH(Undefined, TRUE)>>)
DsPay == Runtime(<<Handler("Transaction", <<<<Type("pay"), Entry("receiver", Str("a"))>>>>)>>)

\* The second handler's filter throws on a transaction that is no application call.
DsArgs == Runtime(<<Handler("Transaction", << >>),
                    Handler("Transaction", <<<<Entry("applicationArgs", List(<<Str("x")>>))>>>>)>>)

MCProjects == {<<DsMixed>>, <<DsPay, DsArgs>>, <<DsPay, DsCustom>>, <<DsCustom, DsMixed>>}

\* A template whose own filters do not say "application calls only".
MCTemplates ==
  {Runtime(<<Handler("Block", << >>), Handler("Transaction", << >>),
             Handler("Transaction", <<<<Type("pay"), Entry("sender", Str("a"))>>>>)>>),
   Custom(<<Handler("Transaction", <<<<Type("pay")>>>>)>>)}

\* Filters that name no type.
UntypedProjects ==
  {<<Runtime(<<Handler("Transaction", <<f>>)>>)>> :
     f \in {<<Entry("sender", Str("a"))>>,
            <<Entry("applicationId", Num(1)), Entry("applicationArgs", List(<<Str("x")>>))>>,
            <<Entry("applicationArgs", List(<<Str("x")>>)), Entry("applicationId", Num(1))>>}}
==============================================================================
