--------------------------- MODULE IndexingProofs ----------------------------
(***************************************************************************)
(* TLAPS proofs about Indexing: for any project, any block and any number  *)
(* of data sources created on the way, the handlers called are the ones    *)
(* due, in order.                                                          *)
(***************************************************************************)
EXTENDS Indexing, SequenceTheorems, TLAPS

Dynamic == {UpdateDynamicDs(t) : t \in Templates}

Sources == Dynamic \cup UNION {Elements(p) : p \in Projects}

HandlerCount(d) == Len(dataSources[d].handlers)

------------------------------------------------------------------------------
(***************************************************************************)
(* Data sources and their handlers.                                        *)
(***************************************************************************)

\* The handlers of a data source are a list, also after updateDynamicDs.
LEMMA SourceHandlers ==
  ASSUME NEW ds \in Sources
  PROVE  Len(ds.handlers) \in Nat /\ DOMAIN ds.handlers = 1 .. Len(ds.handlers)
<1>1. ASSUME NEW p \in Projects, ds \in Elements(p)
      PROVE  Len(ds.handlers) \in Nat /\ DOMAIN ds.handlers = 1 .. Len(ds.handlers)
  BY <1>1, DataSourceAssumption DEF IsDataSource, IsSequence
<1>2. ASSUME NEW t \in Templates, ds = UpdateDynamicDs(t)
      PROVE  Len(ds.handlers) \in Nat /\ DOMAIN ds.handlers = 1 .. Len(ds.handlers)
  <2>1. /\ t = [kind |-> t.kind, handlers |-> t.handlers]
        /\ Len(t.handlers) \in Nat /\ DOMAIN t.handlers = 1 .. Len(t.handlers)
    BY DataSourceAssumption DEF IsDataSource, IsSequence
  <2>2. CASE t.kind = "runtime"
    <3> DEFINE hs == [i \in 1 .. Len(t.handlers) |-> ApplOnly(t.handlers[i])]
    <3> HIDE DEF hs
    <3>1. ds.handlers = hs
      BY <1>2, <2>1, <2>2 DEF UpdateDynamicDs, hs
    <3>2. DOMAIN hs = 1 .. Len(t.handlers) /\ Len(hs) = Len(t.handlers)
      BY <2>1 DEF hs
    <3> QED
      BY <2>1, <3>1, <3>2
  <2>3. CASE t.kind # "runtime"
    BY <1>2, <2>1, <2>3 DEF UpdateDynamicDs
  <2> QED
    BY <2>2, <2>3
<1> QED
  BY <1>1, <1>2 DEF Sources, Dynamic

\* block.transactions ?? [] is a list.
LEMMA TransactionsList ==
  ASSUME block \in ChainBlocks
  PROVE  Len(Transactions) \in Nat /\ DOMAIN Transactions = 1 .. Len(Transactions)
<1>1. CASE block.transactions = Undefined
  BY <1>1 DEF Transactions
<1>2. CASE block.transactions # Undefined
  BY <1>2, BlockAssumption DEF Transactions, IsSequence
<1> QED
  BY <1>1, <1>2

\* What the filters say of a handler depends on the block alone.
LEMMA OutcomeUnchanged ==
  ASSUME UNCHANGED block
  PROVE  /\ Transactions' = Transactions
         /\ \A p, h : HandlerOutcome(p, h)' = HandlerOutcome(p, h)
<1>1. Transactions' = Transactions
  BY DEF Transactions
<1>2. \A p, f : FilterOutcome(p, f)' = FilterOutcome(p, f)
  BY <1>1 DEF FilterOutcome
<1> QED
  BY <1>1, <1>2 DEF HandlerOutcome

------------------------------------------------------------------------------
(***************************************************************************)
(* The inductive invariant.                                                *)
(***************************************************************************)
ShapeInv ==
  /\ block \in ChainBlocks
  /\ dataSources \in Seq(Sources)
  /\ born \in Seq(Int)
  /\ Len(born) = Len(dataSources)
  /\ pass \in 0 .. Len(Transactions)
  /\ calls \in Seq(Nat \X Nat \X Nat)
  /\ outcome \in {"running", "done", "error"}

\* The place in the loops; the array may have grown behind it.
PlaceInv ==
  /\ at \in 1 .. Len(dataSources) + 1
  /\ next \in Nat \ {0}
  /\ at <= Len(dataSources) => next <= HandlerCount(at) + 1
  /\ at > Len(dataSources) => next = 1

\* What was created while the block is indexed went through updateDynamicDs.
BornInv ==
  \A d \in 1 .. Len(dataSources) :
    born[d] <= pass /\ (born[d] # Manifest => dataSources[d] \in Dynamic)

Due(p, d, h) ==
  /\ p \in 0 .. Len(Transactions)
  /\ d \in 1 .. Len(dataSources)
  /\ h \in 1 .. HandlerCount(d)
  /\ Offered(p, d, h)
  /\ HandlerOutcome(p, dataSources[d].handlers[h]) = "pass"

\* The calls are in order, each was due, and what was due was called.
CallsInv ==
  /\ \A i, k \in DOMAIN calls : i < k => Before(calls[i], calls[k])
  /\ \A i \in DOMAIN calls : Due(calls[i][1], calls[i][2], calls[i][3])
  /\ \A p, d, h \in Nat : Due(p, d, h) => \E i \in DOMAIN calls : calls[i] = <<p, d, h>>

IndexInv == ShapeInv /\ PlaceInv /\ BornInv /\ CallsInv

\* As long as the array does not grow and nothing is called, only the place counts.
LEMMA SameCalls ==
  ASSUME CallsInv, UNCHANGED calls, \A p, d, h \in Nat : Due(p, d, h)' <=> Due(p, d, h),
         calls \in Seq(Nat \X Nat \X Nat)
  PROVE  CallsInv'
<1>1. \A i \in DOMAIN calls : /\ calls[i][1] \in Nat /\ calls[i][2] \in Nat
                              /\ calls[i][3] \in Nat
  BY SMT
<1> QED
  BY <1>1 DEF CallsInv, Before

LEMMA InitInv == Init => IndexInv
<1> SUFFICES ASSUME Init PROVE IndexInv
  OBVIOUS
<1>1. dataSources \in Seq(Elements(dataSources)) /\ Elements(dataSources) \subseteq Sources
  BY DataSourceAssumption DEF Init, IsSequence, Sources
<1>2. dataSources \in Seq(Sources) /\ Len(dataSources) \in Nat
  BY <1>1
<1>3. born \in Seq(Int) /\ Len(born) = Len(dataSources) /\ BornInv
  BY <1>2 DEF Init, BornInv, Manifest
<1>4. calls \in Seq(Nat \X Nat \X Nat) /\ DOMAIN calls = {}
  BY DEF Init
<1>5. ShapeInv
  BY <1>2, <1>3, <1>4, TransactionsList DEF Init, ShapeInv
<1>6. PlaceInv
  <2>1. ASSUME 1 <= Len(dataSources) PROVE HandlerCount(1) \in Nat
    BY <1>2, <2>1, SourceHandlers DEF HandlerCount
  <2> QED
    BY <1>2, <2>1 DEF Init, PlaceInv
<1>7. \A p, d, h \in Nat : ~ Due(p, d, h)
  <2> SUFFICES ASSUME NEW p \in Nat, NEW d \in Nat, NEW h \in Nat, Due(p, d, h)
               PROVE  FALSE
    OBVIOUS
  <2>1. h >= 1 /\ d >= 1
    BY DEF Due
  <2> QED
    BY <2>1 DEF Due, Offered, Init
<1> QED
  BY <1>3, <1>4, <1>5, <1>6, <1>7 DEF IndexInv, CallsInv

LEMMA ThrowsInv ==
  ASSUME IndexInv, IndexDataThrows \/ Finish \/ UNCHANGED vars
  PROVE  IndexInv'
<1>1. /\ UNCHANGED <<block, dataSources, born, pass, at, next, calls>>
      /\ outcome' \in {outcome, "error", "done"}
  BY DEF IndexDataThrows, Finish, vars
<1>2. ShapeInv' /\ PlaceInv' /\ BornInv'
  BY <1>1 DEF IndexInv, ShapeInv, PlaceInv, BornInv, Transactions, HandlerCount
<1>3. \A p, d, h \in Nat : Due(p, d, h)' <=> Due(p, d, h)
  BY <1>1, OutcomeUnchanged DEF Due, Offered, HandlerCount
<1>4. CallsInv'
  BY <1>1, <1>3, SameCalls DEF IndexInv, ShapeInv
<1> QED
  BY <1>2, <1>4 DEF IndexInv

LEMMA NextDataSourceInv ==
  ASSUME IndexInv, NextDataSource
  PROVE  IndexInv'
<1>1. /\ at <= Len(dataSources) /\ next > HandlerCount(at)
      /\ at' = at + 1 /\ next' = 1
      /\ UNCHANGED <<block, dataSources, born, pass, calls, outcome>>
  BY DEF NextDataSource, HandlerCount
<1>2. ShapeInv' /\ BornInv'
  BY <1>1 DEF IndexInv, ShapeInv, BornInv, Transactions
<1>3. Len(dataSources) \in Nat /\ \A d \in 1 .. Len(dataSources) : HandlerCount(d) \in Nat
  BY SourceHandlers DEF IndexInv, ShapeInv, HandlerCount
<1>4. PlaceInv'
  BY <1>1, <1>3 DEF IndexInv, PlaceInv, HandlerCount
<1>5. ASSUME NEW p \in Nat, NEW d \in Nat, NEW h \in Nat
      PROVE  Due(p, d, h)' <=> Due(p, d, h)
  <2>1. (h \in 1 .. HandlerCount(d) /\ d \in 1 .. Len(dataSources)) =>
          (Offered(p, d, h)' <=> Offered(p, d, h))
    BY <1>1, <1>3 DEF Offered, IndexInv, PlaceInv
  <2> QED
    BY <1>1, <2>1, OutcomeUnchanged DEF Due, HandlerCount
<1>6. CallsInv'
  BY <1>1, <1>5, SameCalls DEF IndexInv, ShapeInv
<1> QED
  BY <1>2, <1>4, <1>6 DEF IndexInv

LEMMA NextPassInv ==
  ASSUME IndexInv, NextPass
  PROVE  IndexInv'
<1>1. /\ at > Len(dataSources) /\ pass < Len(Transactions) /\ pass' = pass + 1 /\ at' = 1
      /\ UNCHANGED <<block, dataSources, born, next, calls, outcome>>
  BY DEF NextPass
<1>2. Transactions' = Transactions /\ Len(Transactions) \in Nat
  BY <1>1, OutcomeUnchanged, TransactionsList DEF IndexInv, ShapeInv
<1>3. ShapeInv' /\ BornInv'
  BY <1>1, <1>2 DEF IndexInv, ShapeInv, BornInv
<1>4. Len(dataSources) \in Nat /\ \A d \in 1 .. Len(dataSources) : HandlerCount(d) \in Nat
  BY SourceHandlers DEF IndexInv, ShapeInv, HandlerCount
<1>5. PlaceInv'
  BY <1>1, <1>4 DEF IndexInv, PlaceInv, HandlerCount
<1>6. ASSUME NEW p \in Nat, NEW d \in Nat, NEW h \in Nat
      PROVE  Due(p, d, h)' <=> Due(p, d, h)
  <2>1. pass \in Nat /\ next = 1
    BY <1>1, <1>2 DEF IndexInv, ShapeInv, PlaceInv
  <2>2. (h \in 1 .. HandlerCount(d) /\ d \in 1 .. Len(dataSources)) =>
          (Offered(p, d, h)' <=> Offered(p, d, h))
    BY <1>1, <1>4, <2>1 DEF Offered, IndexInv, PlaceInv
  <2> QED
    BY <1>1, <1>2, <2>2, OutcomeUnchanged DEF Due, HandlerCount
<1>7. CallsInv'
  BY <1>1, <1>6, SameCalls DEF IndexInv, ShapeInv
<1> QED
  BY <1>3, <1>5, <1>7 DEF IndexInv

\* What is pushed to an array goes behind what is there.
LEMMA Pushed ==
  ASSUME NEW S, NEW s \in Seq(S), NEW t \in Seq(S)
  PROVE  /\ s \o t \in Seq(S) /\ Len(s \o t) = Len(s) + Len(t)
         /\ \A d \in 1 .. Len(s) : (s \o t)[d] = s[d]
         /\ \A d \in Len(s) + 1 .. Len(s) + Len(t) : (s \o t)[d] = t[d - Len(s)]
<1>1. Len(s) \in Nat /\ Len(t) \in Nat
  OBVIOUS
<1> QED
  BY <1>1, ConcatProperties

(***************************************************************************)
(* What a handler creates goes behind the place of the loop, so that       *)
(* nothing becomes due by it.                                              *)
(***************************************************************************)
LEMMA Created ==
  ASSUME ShapeInv, BornInv, MayCreate
  PROVE  /\ dataSources' \in Seq(Sources)
         /\ born' \in Seq(Int) /\ Len(born') = Len(dataSources')
         /\ Len(dataSources') >= Len(dataSources)
         /\ \A d \in 1 .. Len(dataSources) : dataSources'[d] = dataSources[d] /\ born'[d] = born[d]
         /\ \A d \in Len(dataSources) + 1 .. Len(dataSources') :
              dataSources'[d] \in Dynamic /\ born'[d] = pass
<1>1. pass \in Int
  BY TransactionsList DEF ShapeInv
<1>2. PICK n \in 0 .. MaxDataSources - Len(dataSources) :
        /\ \E new \in [1 .. n -> Templates] :
             dataSources' = dataSources \o [i \in 1 .. n |-> UpdateDynamicDs(new[i])]
        /\ born' = born \o [i \in 1 .. n |-> pass]
  BY DEF MayCreate
<1>3. PICK new \in [1 .. n -> Templates] :
        dataSources' = dataSources \o [i \in 1 .. n |-> UpdateDynamicDs(new[i])]
  BY <1>2
<1>4. n \in Nat /\ Len(dataSources) \in Nat
  BY <1>2, SizeAssumption DEF ShapeInv
<1> DEFINE more == [i \in 1 .. n |-> UpdateDynamicDs(new[i])]
           now == [i \in 1 .. n |-> pass]
<1>5. /\ more \in Seq(Sources) /\ Len(more) = n
      /\ \A i \in 1 .. n : more[i] \in Dynamic
  <2>1. \A i \in 1 .. n : UpdateDynamicDs(new[i]) \in Dynamic
    BY DEF Dynamic
  <2>2. Dynamic \subseteq Sources
    BY DEF Sources
  <2> QED
    BY <1>4, <2>1, <2>2
<1>6. now \in Seq(Int) /\ Len(now) = n /\ \A i \in 1 .. n : now[i] = pass
  BY <1>1, <1>4
<1>7. dataSources' = dataSources \o more /\ born' = born \o now
  BY <1>2, <1>3
<1> HIDE DEF more, now
<1>8. /\ dataSources' \in Seq(Sources) /\ Len(dataSources') = Len(dataSources) + n
      /\ \A d \in 1 .. Len(dataSources) : dataSources'[d] = dataSources[d]
      /\ \A d \in Len(dataSources) + 1 .. Len(dataSources') :
           dataSources'[d] = more[d - Len(dataSources)]
  <2>1. dataSources \in Seq(Sources)
    BY DEF ShapeInv
  <2> QED
    <3> DEFINE all == dataSources \o more
    <3>1. /\ all \in Seq(Sources) /\ Len(all) = Len(dataSources) + Len(more)
          /\ \A d \in 1 .. Len(dataSources) : all[d] = dataSources[d]
          /\ \A d \in Len(dataSources) + 1 .. Len(dataSources) + Len(more) :
               all[d] = more[d - Len(dataSources)]
      BY <1>5, <2>1, Pushed
    <3> HIDE DEF all
    <3>2. dataSources' = all
      BY <1>7 DEF all
    <3> QED
      BY <1>5, <3>1, <3>2
<1>9. /\ born' \in Seq(Int) /\ Len(born') = Len(born) + n
      /\ \A d \in 1 .. Len(born) : born'[d] = born[d]
      /\ \A d \in Len(born) + 1 .. Len(born') : born'[d] = now[d - Len(born)]
  <2>1. born \in Seq(Int)
    BY DEF ShapeInv
  <2> QED
    <3> DEFINE all == born \o now
    <3>1. /\ all \in Seq(Int) /\ Len(all) = Len(born) + Len(now)
          /\ \A d \in 1 .. Len(born) : all[d] = born[d]
          /\ \A d \in Len(born) + 1 .. Len(born) + Len(now) : all[d] = now[d - Len(born)]
      BY <1>6, <2>1, Pushed
    <3> HIDE DEF all
    <3>2. born' = all
      BY <1>7 DEF all
    <3> QED
      BY <1>6, <3>1, <3>2
<1>10. \A d \in Len(dataSources) + 1 .. Len(dataSources') : d - Len(dataSources) \in 1 .. n
  BY <1>4, <1>8
<1> QED
  BY <1>4, <1>5, <1>6, <1>8, <1>9, <1>10 DEF ShapeInv

LEMMA CalledInv ==
  ASSUME IndexInv, outcome = "running", at <= Len(dataSources), next <= HandlerCount(at),
         next' = next + 1, HandlerOutcome(pass, dataSources[at].handlers[next]) = "pass",
         calls' = Append(calls, <<pass, at, next>>), MayCreate,
         UNCHANGED <<block, pass, at, outcome>>
  PROVE  IndexInv'
<1>1. /\ dataSources' \in Seq(Sources)
      /\ born' \in Seq(Int) /\ Len(born') = Len(dataSources')
      /\ Len(dataSources') >= Len(dataSources)
      /\ \A d \in 1 .. Len(dataSources) : dataSources'[d] = dataSources[d] /\ born'[d] = born[d]
      /\ \A d \in Len(dataSources) + 1 .. Len(dataSources') :
           dataSources'[d] \in Dynamic /\ born'[d] = pass
  BY Created DEF IndexInv
<1>2. /\ Transactions' = Transactions /\ Len(Transactions) \in Nat
      /\ pass \in Nat /\ at \in 1 .. Len(dataSources) /\ next \in Nat \ {0}
      /\ Len(dataSources) \in Nat /\ Len(dataSources') \in Nat
  BY <1>1, OutcomeUnchanged, TransactionsList DEF IndexInv, ShapeInv, PlaceInv
<1>3. /\ \A d \in 1 .. Len(dataSources) :
           /\ dataSources'[d] = dataSources[d] /\ born'[d] = born[d]
           /\ HandlerCount(d) \in Nat /\ HandlerCount(d)' = HandlerCount(d)
           /\ born[d] \in Int /\ born[d] <= pass
      /\ \A d \in 1 .. Len(dataSources') : HandlerCount(d)' \in Nat
  <2>1. ASSUME NEW d \in 1 .. Len(dataSources)
        PROVE  /\ HandlerCount(d) \in Nat /\ HandlerCount(d)' = HandlerCount(d)
               /\ born[d] \in Int /\ born[d] <= pass
    <3>1. dataSources[d] \in Sources /\ born[d] \in Int /\ born[d] <= pass
      BY DEF IndexInv, ShapeInv, BornInv
    <3> QED
      BY <1>1, <3>1, SourceHandlers DEF HandlerCount
  <2>2. ASSUME NEW d \in 1 .. Len(dataSources') PROVE HandlerCount(d)' \in Nat
    <3>1. dataSources'[d] \in Sources
      BY <1>1
    <3> QED
      BY <3>1, SourceHandlers DEF HandlerCount
  <2> QED
    BY <1>1, <2>1, <2>2
<1>4. <<pass, at, next>> \in Nat \X Nat \X Nat
  BY <1>2
<1>5. ShapeInv'
  BY <1>1, <1>2, <1>4 DEF IndexInv, ShapeInv
<1>6. PlaceInv'
  BY <1>1, <1>2, <1>3 DEF IndexInv, PlaceInv
<1>7. BornInv'
  <2> SUFFICES ASSUME NEW d \in 1 .. Len(dataSources')
               PROVE  born'[d] <= pass /\ (born'[d] # Manifest => dataSources'[d] \in Dynamic)
    BY DEF BornInv, Manifest
  <2>1. CASE d \in 1 .. Len(dataSources)
    BY <1>3, <2>1 DEF IndexInv, BornInv
  <2>2. CASE d \in Len(dataSources) + 1 .. Len(dataSources')
    BY <1>1, <1>2, <2>2
  <2> QED
    BY <1>2, <2>1, <2>2, SMT
<1>8. \A p, h : HandlerOutcome(p, h)' = HandlerOutcome(p, h)
  BY OutcomeUnchanged
<1>9. ASSUME NEW p \in Nat, NEW d \in Nat, NEW h \in Nat
      PROVE  Due(p, d, h)' <=> Due(p, d, h) \/ (p = pass /\ d = at /\ h = next)
  <2>1. CASE d \in 1 .. Len(dataSources)
    <3>1. Offered(p, d, h)' <=> Offered(p, d, h) \/ (p = pass /\ d = at /\ h = next)
      BY <1>2, <1>3, <2>1, SMT DEF Offered
    <3>2. d \in 1 .. Len(dataSources')
      BY <1>1, <1>2, <2>1
    <3>3. Due(p, d, h)' <=>
            /\ p \in 0 .. Len(Transactions) /\ h \in 1 .. HandlerCount(d)
            /\ Offered(p, d, h)'
            /\ HandlerOutcome(p, dataSources[d].handlers[h]) = "pass"
      BY <1>2, <1>3, <1>8, <2>1, <3>2 DEF Due
    <3>4. Due(p, d, h) <=>
            /\ p \in 0 .. Len(Transactions) /\ h \in 1 .. HandlerCount(d)
            /\ Offered(p, d, h)
            /\ HandlerOutcome(p, dataSources[d].handlers[h]) = "pass"
      BY <2>1 DEF Due
    <3>5. (p = pass /\ d = at /\ h = next) =>
            /\ p \in 0 .. Len(Transactions) /\ h \in 1 .. HandlerCount(d)
            /\ HandlerOutcome(p, dataSources[d].handlers[h]) = "pass"
      BY <1>2, <1>3 DEF IndexInv, ShapeInv
    <3> QED
      BY <3>1, <3>3, <3>4, <3>5
  <2>2. CASE d \notin 1 .. Len(dataSources)
    <3>1. ~ Due(p, d, h) /\ d # at
      BY <1>2, <2>2 DEF Due
    <3>2. ASSUME d \in 1 .. Len(dataSources') PROVE ~ Offered(p, d, h)'
      <4>1. d \in Len(dataSources) + 1 .. Len(dataSources')
        BY <1>2, <2>2, <3>2
      <4>2. born'[d] = pass /\ at < d
        BY <1>1, <1>2, <4>1
      <4> QED
        BY <1>2, <4>2 DEF Offered
    <3> QED
      BY <3>1, <3>2 DEF Due
  <2> QED
    BY <2>1, <2>2
<1>10. CallsInv'
  <2>1. /\ calls \in Seq(Nat \X Nat \X Nat) /\ Len(calls) \in Nat
        /\ DOMAIN calls = 1 .. Len(calls) /\ DOMAIN calls' = 1 .. Len(calls) + 1
        /\ \A i \in 1 .. Len(calls) : calls'[i] = calls[i]
        /\ calls'[Len(calls) + 1] = <<pass, at, next>>
    BY <1>4 DEF IndexInv, ShapeInv
  <2>2. ASSUME NEW i \in 1 .. Len(calls)
        PROVE  /\ calls[i] = <<calls[i][1], calls[i][2], calls[i][3]>>
               /\ calls[i][1] \in Nat /\ calls[i][2] \in Nat /\ calls[i][3] \in Nat
               /\ Due(calls[i][1], calls[i][2], calls[i][3])
    <3>1. calls[i] \in Nat \X Nat \X Nat
      BY <2>1
    <3>2. Due(calls[i][1], calls[i][2], calls[i][3])
      BY <2>1 DEF IndexInv, CallsInv
    <3> QED
      BY <3>1, <3>2, SMT
  <2>3. \A i \in 1 .. Len(calls) : Before(calls[i], <<pass, at, next>>)
    BY <2>2 DEF Due, Offered, Before
  <2>4. ASSUME NEW i \in DOMAIN calls', NEW k \in DOMAIN calls', i < k
        PROVE  Before(calls'[i], calls'[k])
    <3>1. i \in 1 .. Len(calls)
      BY <2>1, <2>4
    <3>2. CASE k \in 1 .. Len(calls)
      BY <2>1, <2>4, <3>1, <3>2 DEF IndexInv, CallsInv
    <3>3. CASE k = Len(calls) + 1
      BY <2>1, <2>3, <3>1, <3>3
    <3> QED
      BY <2>1, <3>2, <3>3, SMT
  <2>5. ASSUME NEW i \in 1 .. Len(calls) + 1
        PROVE  Due(calls[i][1], calls[i][2], calls[i][3])'
    <3>1. CASE i \in 1 .. Len(calls)
      <4> DEFINE x == calls[i][1]
                 y == calls[i][2]
                 z == calls[i][3]
      <4>1. x' = x /\ y' = y /\ z' = z
        BY <2>1, <3>1
      <4>2. PICK p \in Nat, d \in Nat, h \in Nat : p = x /\ d = y /\ h = z /\ Due(p, d, h)
        BY <2>2, <3>1
      <4>3. Due(p, d, h)'
        BY <1>9, <4>2
      <4> QED
        BY <4>1, <4>2, <4>3
    <3>2. CASE i = Len(calls) + 1
      <4>1. PICK p \in Nat, d \in Nat, h \in Nat : p = pass /\ d = at /\ h = next
        BY <1>2
      <4>2. Due(p, d, h)'
        BY <1>9, <4>1
      <4>3. calls'[i][1] = p /\ calls'[i][2] = d /\ calls'[i][3] = h
        BY <2>1, <3>2, <4>1
      <4> QED
        BY <4>2, <4>3
    <3> QED
      BY <3>1, <3>2
  <2>6. ASSUME NEW p \in Nat, NEW d \in Nat, NEW h \in Nat, Due(p, d, h)'
        PROVE  \E i \in DOMAIN calls' : calls'[i] = <<p, d, h>>
    <3>1. CASE Due(p, d, h)
      <4>1. PICK i \in DOMAIN calls : calls[i] = <<p, d, h>>
        BY <3>1 DEF IndexInv, CallsInv
      <4>2. i \in DOMAIN calls' /\ calls'[i] = calls[i]
        BY <2>1
      <4> QED
        BY <4>1, <4>2
    <3>2. CASE p = pass /\ d = at /\ h = next
      <4>1. Len(calls) + 1 \in DOMAIN calls' /\ calls'[Len(calls) + 1] = <<p, d, h>>
        BY <2>1, <3>2
      <4> QED
        BY <4>1
    <3> QED
      BY <1>9, <2>6, <3>1, <3>2
  <2> QED
    BY <2>1, <2>4, <2>5, <2>6 DEF CallsInv, Before
<1> QED
  BY <1>5, <1>6, <1>7, <1>10 DEF IndexInv

LEMMA DroppedInv ==
  ASSUME IndexInv, at <= Len(dataSources), next <= HandlerCount(at), next' = next + 1,
         HandlerOutcome(pass, dataSources[at].handlers[next]) # "pass",
         UNCHANGED <<block, dataSources, born, pass, at, calls, outcome>>
  PROVE  IndexInv'
<1>1. ShapeInv' /\ BornInv'
  BY DEF IndexInv, ShapeInv, BornInv, Transactions
<1>2. Len(dataSources) \in Nat /\ \A d \in 1 .. Len(dataSources) : HandlerCount(d) \in Nat
  BY SourceHandlers DEF IndexInv, ShapeInv, HandlerCount
<1>3. PlaceInv'
  BY <1>2 DEF IndexInv, PlaceInv, HandlerCount
<1>4. ASSUME NEW p \in Nat, NEW d \in Nat, NEW h \in Nat
      PROVE  Due(p, d, h)' <=> Due(p, d, h)
  <2>1. (d \in 1 .. Len(dataSources) /\ ~ (p = pass /\ d = at /\ h = next)) =>
          (Offered(p, d, h)' <=> Offered(p, d, h))
    BY DEF Offered, IndexInv, PlaceInv
  <2>2. Due(p, d, h)' => ~ (p = pass /\ d = at /\ h = next)
    BY OutcomeUnchanged DEF Due
  <2>3. Due(p, d, h) => ~ (p = pass /\ d = at /\ h = next)
    BY DEF Due
  <2> QED
    BY <2>1, <2>2, <2>3, OutcomeUnchanged DEF Due, HandlerCount
<1>5. CallsInv'
  BY <1>4, SameCalls DEF IndexInv, ShapeInv
<1> QED
  BY <1>1, <1>3, <1>5 DEF IndexInv

LEMMA NextInv == IndexInv /\ [Next]_vars => IndexInv'
<1> SUFFICES ASSUME IndexInv, [Next]_vars PROVE IndexInv'
  OBVIOUS
<1>1. CASE IndexHandler
  <2>1. CASE HandlerOutcome(pass, dataSources[at].handlers[next]) = "pass"
    BY <1>1, <2>1, CalledInv DEF IndexHandler, HandlerCount
  <2>2. CASE HandlerOutcome(pass, dataSources[at].handlers[next]) # "pass"
    BY <1>1, <2>2, DroppedInv DEF IndexHandler, HandlerCount
  <2> QED
    BY <2>1, <2>2
<1>2. CASE NextDataSource
  BY <1>2, NextDataSourceInv
<1>3. CASE NextPass
  BY <1>3, NextPassInv
<1>4. CASE IndexDataThrows \/ Finish \/ UNCHANGED vars
  BY <1>4, ThrowsInv
<1> QED
  BY <1>1, <1>2, <1>3, <1>4 DEF Next, Terminating

LEMMA AlwaysInv == Spec => []IndexInv
BY InitInv, NextInv, PTL DEF Spec

------------------------------------------------------------------------------
(***************************************************************************)
(* What the invariant shows.                                               *)
(***************************************************************************)

\* A call names a data source of the array and one of its handlers, and was due.
LEMMA CallDue ==
  ASSUME IndexInv, NEW i \in DOMAIN calls
  PROVE  /\ calls[i] = <<calls[i][1], calls[i][2], calls[i][3]>>
         /\ calls[i][1] \in Nat /\ calls[i][2] \in Nat /\ calls[i][3] \in Nat
         /\ Due(calls[i][1], calls[i][2], calls[i][3])
         /\ calls[i][2] \in DOMAIN dataSources
         /\ calls[i][3] \in DOMAIN dataSources[calls[i][2]].handlers
<1>1. calls[i] \in Nat \X Nat \X Nat
  BY DEF IndexInv, ShapeInv
<1>2. Due(calls[i][1], calls[i][2], calls[i][3])
  BY DEF IndexInv, CallsInv
<1>3. calls[i][2] \in DOMAIN dataSources /\ dataSources[calls[i][2]] \in Sources
  BY <1>2, SMT DEF Due, IndexInv, ShapeInv
<1>4. calls[i][3] \in DOMAIN dataSources[calls[i][2]].handlers
  BY <1>2, <1>3, SourceHandlers DEF Due, HandlerCount
<1> QED
  BY <1>1, <1>2, <1>3, <1>4

(***************************************************************************)
(* The loops of indexBlockData stay within the block, the array and the    *)
(* handlers, also when handlers let the array grow under them.             *)
(***************************************************************************)
THEOREM IndexingTypeCorrect == Spec => []TypeOK
<1>1. IndexInv => TypeOK
  <2> SUFFICES ASSUME IndexInv PROVE TypeOK
    OBVIOUS
  <2>1. \A i \in DOMAIN calls : calls[i] \in Nat \X (DOMAIN dataSources) \X Nat
    BY CallDue
  <2> QED
    BY <2>1 DEF IndexInv, ShapeInv, PlaceInv, TypeOK, HandlerCount
<1> QED
  BY <1>1, AlwaysInv, PTL

(***************************************************************************)
(* indexBlockData calls exactly the handlers that are due, in order and    *)
(* once each, however many data sources handlers create while it runs.     *)
(***************************************************************************)
THEOREM CallsExactCorrect == Spec => []CallsExact
<1>1. IndexInv => CallsExact
  <2> SUFFICES ASSUME IndexInv PROVE CallsExact
    OBVIOUS
  <2>1. \A i, k \in DOMAIN calls : i < k => Before(calls[i], calls[k])
    BY DEF IndexInv, CallsInv
  <2>2. \A i \in DOMAIN calls : /\ calls[i][1] \in 0 .. Len(Transactions)
                                /\ calls[i][3] \in DOMAIN dataSources[calls[i][2]].handlers
    BY CallDue DEF Due
  <2>3. ASSUME NEW p \in 0 .. Len(Transactions), NEW d \in DOMAIN dataSources,
               NEW h \in DOMAIN dataSources[d].handlers
        PROVE  (\E i \in DOMAIN calls : calls[i] = <<p, d, h>>) <=>
                 Offered(p, d, h) /\ HandlerOutcome(p, dataSources[d].handlers[h]) = "pass"
    <3>1. /\ p \in Nat /\ d \in Nat /\ h \in Nat
          /\ d \in 1 .. Len(dataSources) /\ h \in 1 .. HandlerCount(d)
      BY SourceHandlers, TransactionsList DEF IndexInv, ShapeInv, HandlerCount
    <3>2. Due(p, d, h) <=>
            Offered(p, d, h) /\ HandlerOutcome(p, dataSources[d].handlers[h]) = "pass"
      BY <3>1 DEF Due
    <3>3. ASSUME NEW i \in DOMAIN calls, calls[i] = <<p, d, h>> PROVE Due(p, d, h)
      <4>1. calls[i][1] = p /\ calls[i][2] = d /\ calls[i][3] = h
        BY <3>3
      <4> QED
        BY <4>1, CallDue
    <3>4. ASSUME Due(p, d, h) PROVE \E i \in DOMAIN calls : calls[i] = <<p, d, h>>
      BY <3>1, <3>4 DEF IndexInv, CallsInv
    <3> QED
      BY <3>2, <3>3, <3>4
  <2> QED
    BY <2>1, <2>2, <2>3 DEF CallsExact
<1> QED
  BY <1>1, AlwaysInv, PTL

\* The type of a filter that updateDynamicDs wrote is the application call.
LEMMA ApplOnlyType ==
  ASSUME NEW h, h = [base |-> h.base, filters |-> h.filters], h.base # "Block",
         IsSequence(OwnFilter(h))
  PROVE  \E f : ApplOnly(h) = [base |-> h.base, filters |-> <<f>>] /\ TxTypeOf(f) = Str("appl")
<1> DEFINE own == OwnFilter(h)
           appl == [key |-> "txType", value |-> Str("appl")]
           typed == IF HasTxType(own)
                    THEN [i \in DOMAIN own |-> IF own[i].key = "txType" THEN appl ELSE own[i]]
                    ELSE Append(own, appl)
<1>1. ApplOnly(h) = [base |-> h.base, filters |-> <<typed>>]
  BY DEF ApplOnly
<1>2. appl.key = "txType" /\ appl.value = Str("appl")
  OBVIOUS
<1> HIDE DEF appl, own
<1>3. /\ \E i \in DOMAIN typed : typed[i] = appl
      /\ \A i \in DOMAIN typed : typed[i].key = "txType" => typed[i] = appl
  <2>1. CASE HasTxType(own)
    BY <1>2, <2>1 DEF HasTxType
  <2>2. CASE ~ HasTxType(own)
    <3>1. own \in Seq(Elements(own)) /\ Len(own) \in Nat
      BY DEF own, IsSequence
    <3>2. /\ DOMAIN typed = 1 .. Len(own) + 1 /\ typed[Len(own) + 1] = appl
          /\ \A i \in 1 .. Len(own) : typed[i] = own[i] /\ i \in DOMAIN own
      BY <2>2, <3>1
    <3>3. \A i \in DOMAIN own : own[i].key # "txType"
      BY <2>2 DEF HasTxType
    <3> HIDE DEF typed
    <3>4. \A i \in DOMAIN typed : i = Len(own) + 1 \/ i \in 1 .. Len(own)
      BY <3>1, <3>2
    <3> QED
      BY <3>1, <3>2, <3>3, <3>4
  <2> QED
    BY <2>1, <2>2
<1> HIDE DEF typed
<1>4. \E e \in {typed[i] : i \in DOMAIN typed} : e.key = "txType"
  BY <1>2, <1>3
<1>5. (CHOOSE e \in {typed[i] : i \in DOMAIN typed} : e.key = "txType") = appl
  BY <1>3, <1>4
<1>6. TxTypeOf(typed) = Str("appl")
  BY <1>2, <1>3, <1>5 DEF TxTypeOf, HasTxType
<1> QED
  BY <1>1, <1>6

\* A handler is only called for what it is a handler of.
LEMMA PassKind ==
  ASSUME NEW p, NEW h, HandlerOutcome(p, h) = "pass"
  PROVE  h.base = KindOf(p)
BY DEF HandlerOutcome

(***************************************************************************)
(* A data source created by a handler is only called for application       *)
(* calls, whatever filters its template has (updateDynamicDs).             *)
(***************************************************************************)
THEOREM DynamicCorrect == Spec => []DynamicHandlesApplOnly
<1>1. IndexInv => DynamicHandlesApplOnly
  <2> SUFFICES ASSUME IndexInv, NEW i \in DOMAIN calls,
                      dataSources[calls[i][2]].kind = "runtime",
                      born[calls[i][2]] # Manifest, calls[i][1] > 0
               PROVE  Transactions[calls[i][1]].txType = "appl"
    BY DEF DynamicHandlesApplOnly
  <2> DEFINE p == calls[i][1]
             d == calls[i][2]
             h == dataSources[d].handlers[calls[i][3]]
  <2>1. Due(p, d, calls[i][3]) /\ p \in Nat
    BY CallDue
  <2>2. HandlerOutcome(p, h) = "pass" /\ calls[i][3] \in 1 .. HandlerCount(d)
    BY <2>1 DEF Due
  <2>3. dataSources[d] \in Dynamic
    BY <2>1 DEF Due, IndexInv, BornInv
  <2>4. PICK t \in Templates : dataSources[d] = UpdateDynamicDs(t)
    BY <2>3 DEF Dynamic
  <2>5. IsDataSource(t) /\ t.kind = "runtime"
    BY <2>4, DataSourceAssumption DEF UpdateDynamicDs, IsDataSource
  <2>6. dataSources[d].handlers = [k \in DOMAIN t.handlers |-> ApplOnly(t.handlers[k])]
    BY <2>4, <2>5 DEF UpdateDynamicDs, IsDataSource
  <2>7. calls[i][3] \in DOMAIN dataSources[d].handlers
    BY CallDue
  <2>8. PICK g \in Elements(t.handlers) : h = ApplOnly(g)
    BY <2>6, <2>7 DEF Elements
  <2>9. h.base = "Transaction"
    BY <2>1, <2>2, PassKind DEF KindOf
  <2>10. g = [base |-> g.base, filters |-> g.filters] /\ g.base = "Transaction"
    <3>1. g = [base |-> g.base, filters |-> g.filters]
      BY <2>5, <2>8 DEF IsDataSource
    <3>2. ApplOnly(g).base = g.base
      BY <3>1 DEF ApplOnly
    <3> QED
      BY <2>8, <2>9, <3>1, <3>2
  <2>11. IsSequence(OwnFilter(g)) /\ h.filters # <<NoFilter>>
    BY <2>4, <2>5, <2>8, <2>10, DataSourceAssumption
  <2>12. PICK f : h = [base |-> g.base, filters |-> <<f>>] /\ TxTypeOf(f) = Str("appl")
    BY <2>8, <2>10, <2>11, ApplOnlyType
  <2>13. h.filters = <<f>> /\ f # NoFilter
    BY <2>11, <2>12
  <2>14. FilterTransaction(Transactions[p], f) = "pass"
    BY <2>1, <2>2, <2>9, <2>13 DEF HandlerOutcome, KindOf, FilterOutcome
  <2>15. Falsy(Str("appl")) \/ Str("appl") = Str(Transactions[p].txType)
    BY <2>12, <2>13, <2>14 DEF FilterTransaction
  <2>16. ~ Falsy(Str("appl"))
    BY ValueAssumption DEF Falsy, Str, Num, Flag
  <2> QED
    BY <2>15, <2>16 DEF Str
<1> QED
  BY <1>1, AlwaysInv, PTL
==============================================================================
