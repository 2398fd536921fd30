------------------------------ MODULE Indexing -------------------------------
(***************************************************************************)
(* IndexerManager.indexBlock (packages/node/src/indexer/                   *)
(* indexer.manager.ts): which handlers are called for one block, and in    *)
(* which order.                                                            *)
(*                                                                         *)
(* The block is offered to every data source, then each transaction is.    *)
(* node-core's indexData evaluates the filters of all handlers of a data   *)
(* source for one block or transaction, and then awaits the handlers that  *)
(* passed, one after the other.  A handler may create a data source from a *)
(* template; node-core pushes it to the array that the loops here are      *)
(* iterating over.                                                         *)
(***************************************************************************)
EXTENDS Filters

CONSTANTS
  Projects,       \* possible lists of data sources
  ChainBlocks,    \* possible blocks
  Templates,      \* templates of dynamic data sources
  MaxDataSources  \* bound on the array, data sources created while indexing included

(***************************************************************************)
(* A data source is [kind, handlers]; a handler is [base, filters], where  *)
(* base is "Block" or "Transaction": the kind of the handler, or the base  *)
(* kind of a custom one.  A block is [round, due, transactions].           *)
(***************************************************************************)
Elements(seq) == {seq[i] : i \in DOMAIN seq}

IsSequence(seq) == seq \in Seq(Elements(seq))

IsDataSource(ds) ==
  /\ ds = [kind |-> ds.kind, handlers |-> ds.handlers]
  /\ IsSequence(ds.handlers)
  /\ \A h \in Elements(ds.handlers) :
       h = [base |-> h.base, filters |-> h.filters] /\ IsSequence(h.filters)

ASSUME SizeAssumption == MaxDataSources \in Nat

ASSUME BlockAssumption ==
  \A b \in ChainBlocks : b.transactions = Undefined \/ IsSequence(b.transactions)

\* A handler of a runtime template has a filter or none; a filter is an object.
ASSUME DataSourceAssumption ==
  /\ \A p \in Projects : IsSequence(p) /\ \A ds \in Elements(p) : IsDataSource(ds)
  /\ \A ds \in Templates :
       /\ IsDataSource(ds)
       /\ ds.kind = "runtime" => \A h \in Elements(ds.handlers) :
            h.base = "Transaction" => IsSequence(OwnFilter(h)) /\ ApplOnly(h).filters # <<NoFilter>>

ASSUME ValueAssumption == Str("appl") \notin {Undefined, Null}

VARIABLES
  block,
  dataSources,  \* the array; dynamic data sources are pushed to it
  born,         \* born[d] is the pass in which data source d was created
  pass,         \* 0: indexBlockContent; t: indexBlockTransactionContent of transaction t
  at,           \* index of the next data source of this pass
  next,         \* index of its next handler
  calls,        \* handlers called so far: <<pass, data source, handler>>
  outcome       \* "running", "done", or "error" when a filter threw

vars == <<block, dataSources, born, pass, at, next, calls, outcome>>

\* block.transactions ?? []
Transactions == IF block.transactions = Undefined THEN << >> ELSE block.transactions

\* born[d] of a data source of the manifest: it sees every pass.
Manifest == -1

Init ==
  /\ block \in ChainBlocks
  /\ dataSources \in Projects
  /\ born = [d \in DOMAIN dataSources |-> Manifest]
  /\ pass = 0
  /\ at = 1
  /\ next = 1
  /\ calls = << >>
  /\ outcome = "running"

KindOf(p) == IF p = 0 THEN "Block" ELSE "Transaction"

\* FilterTypeMap and baseCustomHandlerFilter: the outcome of one filter.
FilterOutcome(p, filter) ==
  IF p = 0 THEN IF FilterBlock(block, filter) THEN "pass" ELSE "drop"
           ELSE FilterTransaction(Transactions[p], filter)

\* The filters of one handler: some base filter of a custom handler passes,
\* looked at in their order; no filter at all passes.
HandlerOutcome(p, h) ==
  LET Ends(i, result) ==
        /\ FilterOutcome(p, h.filters[i]) = result
        /\ \A k \in 1 .. i - 1 : FilterOutcome(p, h.filters[k]) = "drop"
  IN  IF h.base # KindOf(p) THEN "drop"
      ELSE IF h.filters = << >> \/ \E i \in DOMAIN h.filters : Ends(i, "pass") THEN "pass"
      ELSE IF \E i \in DOMAIN h.filters : Ends(i, "throw") THEN "throw"
      ELSE "drop"

\* indexData filters all handlers of the data source before it calls one.
Throws ==
  \E h \in Elements(dataSources[at].handlers) : HandlerOutcome(pass, h) = "throw"

\* A filter throws, and with it indexBlock: no handler of this data source ran.
IndexDataThrows ==
  /\ outcome = "running"
  /\ at <= Len(dataSources)
  /\ Throws
  /\ outcome' = "error"
  /\ UNCHANGED <<block, dataSources, born, pass, at, next, calls>>

\* A handler may create data sources, which are pushed to the array under iteration.
MayCreate ==
  \E n \in 0 .. MaxDataSources - Len(dataSources) :
    /\ \E new \in [1 .. n -> Templates] :
         dataSources' = dataSources \o [i \in 1 .. n |-> UpdateDynamicDs(new[i])]
    /\ born' = born \o [i \in 1 .. n |-> pass]

\* indexData, one handler of one data source: called if its filters pass.
IndexHandler ==
  /\ outcome = "running"
  /\ at <= Len(dataSources)
  /\ ~ Throws
  /\ next <= Len(dataSources[at].handlers)
  /\ next' = next + 1
  /\ IF HandlerOutcome(pass, dataSources[at].handlers[next]) = "pass"
     THEN calls' = Append(calls, <<pass, at, next>>) /\ MayCreate
     ELSE UNCHANGED <<calls, dataSources, born>>
  /\ UNCHANGED <<block, pass, at, outcome>>

\* The loop over data sources goes on; the array may have grown.
NextDataSource ==
  /\ outcome = "running"
  /\ at <= Len(dataSources)
  /\ ~ Throws
  /\ next > Len(dataSources[at].handlers)
  /\ at' = at + 1
  /\ next' = 1
  /\ UNCHANGED <<block, dataSources, born, pass, calls, outcome>>

\* Mutant: the loop over transactions goes on where the last one stopped.
NextPassKeepsPlace ==
  /\ outcome = "running"
  /\ at > Len(dataSources)
  /\ pass < Len(Transactions)
  /\ pass' = pass + 1
  /\ at' = Len(dataSources)
  /\ UNCHANGED <<block, dataSources, born, next, calls, outcome>>

\* Mutant: the loop over transactions runs once too often.
NextPassPastEnd ==
  /\ outcome = "running"
  /\ at > Len(dataSources)
  /\ pass <= Len(Transactions)
  /\ pass' = pass + 1
  /\ at' = 1
  /\ UNCHANGED <<block, dataSources, born, next, calls, outcome>>

\* The loop over data sources ended: on to the next transaction.
NextPass ==
  /\ outcome = "running"
  /\ at > Len(dataSources)
  /\ pass < Len(Transactions)
  /\ pass' = pass + 1
  /\ at' = 1
  /\ UNCHANGED <<block, dataSources, born, next, calls, outcome>>

Finish ==
  /\ outcome = "running"
  /\ at > Len(dataSources)
  /\ pass = Len(Transactions)
  /\ outcome' = "done"
  /\ UNCHANGED <<block, dataSources, born, pass, at, next, calls>>

Terminating == outcome # "running" /\ UNCHANGED vars

Next ==
  \/ IndexDataThrows \/ IndexHandler \/ NextDataSource
  \/ NextPass \/ Finish
  \/ Terminating

Spec == Init /\ [][Next]_vars
------------------------------------------------------------------------------
TypeOK ==
  /\ Len(born) = Len(dataSources)
  /\ pass \in 0 .. Len(Transactions)
  /\ at \in 1 .. Len(dataSources) + 1
  /\ next \in Nat \ {0}
  /\ at <= Len(dataSources) => next <= Len(dataSources[at].handlers) + 1
  /\ \A i \in DOMAIN calls : calls[i] \in Nat \X (DOMAIN dataSources) \X Nat
  /\ outcome \in {"running", "done", "error"}

\* Whether handler h of data source d was offered its due in pass p by now.
Offered(p, d, h) ==
  /\ p >= born[d]
  /\ p < pass \/ (p = pass /\ (d < at \/ (d = at /\ h < next)))

Before(x, y) ==
  \/ x[1] < y[1]
  \/ x[1] = y[1] /\ x[2] < y[2]
  \/ x[1] = y[1] /\ x[2] = y[2] /\ x[3] < y[3]

(***************************************************************************)
(* At every moment the calls made are exactly those due: block handlers    *)
(* before transaction handlers, transactions in their order, data sources  *)
(* in theirs, each handler at most once, none missing; a data source       *)
(* created by a handler joins from the block or transaction that created   *)
(* it on, and sees nothing earlier.                                        *)
(***************************************************************************)
CallsExact ==
  /\ \A i, k \in DOMAIN calls : i < k => Before(calls[i], calls[k])
  /\ \A i \in DOMAIN calls :
       /\ calls[i][1] \in 0 .. Len(Transactions)
       /\ calls[i][3] \in DOMAIN dataSources[calls[i][2]].handlers
  /\ \A p \in 0 .. Len(Transactions), d \in DOMAIN dataSources :
       \A h \in DOMAIN dataSources[d].handlers :
         (\E i \in DOMAIN calls : calls[i] = <<p, d, h>>) <=>
           Offered(p, d, h) /\ HandlerOutcome(p, dataSources[d].handlers[h]) = "pass"

\* A data source created while the block is indexed only handles application calls.
DynamicHandlesApplOnly ==
  \A i \in DOMAIN calls :
    LET d == calls[i][2]
    IN  /\ dataSources[d].kind = "runtime"
        /\ born[d] # Manifest
        /\ calls[i][1] > 0
        => Transactions[calls[i][1]].txType = "appl"
------------------------------------------------------------------------------
(***************************************************************************)
(* "Filter by the sender of a transction" (types/src/project.ts): when a   *)
(* block is indexed, a handler that filters on the sender alone was called *)
(* for the transactions of that sender and for no others.  It is not so:   *)
(* see the findings.                                                       *)
(***************************************************************************)
SenderMeansSender ==
  outcome = "done" =>
    \A t \in DOMAIN Transactions : \A d \in DOMAIN dataSources :
      \A h \in DOMAIN dataSources[d].handlers :
        LET f == dataSources[d].handlers[h].filters
        IN  f # << >> /\ DOMAIN f[1] = {1} /\ f[1][1].key = "sender" =>
              (<<t, d, h>> \in {calls[i] : i \in DOMAIN calls}
                 <=> Transactions[t].at["sender"] = f[1][1].value)

(***************************************************************************)
(* "Make `txType` filter optional" (node/CHANGELOG.md): filters without a  *)
(* type can be applied to any transaction, so indexing a block does not    *)
(* fail in a filter.  It is not so: see the findings.                      *)
(***************************************************************************)
FilterNeverThrows == outcome # "error"
==============================================================================
