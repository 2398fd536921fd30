---------------------------- MODULE Connections ------------------------------
(***************************************************************************)
(* Connections to the endpoints of one process: AlgorandApi.create,        *)
(* AlgorandApiConnection and AlgorandApiService                            *)
(* (packages/node/src/algorand), and the requests that BlockchainService,  *)
(* WorkerService and IndexerManager make through them.                     *)
(*                                                                         *)
(* The pool of connections is node-core's: it hands out one of the         *)
(* connected endpoints, passes every error to handleError and goes by the  *)
(* type of the result: it reconnects an endpoint that disconnected and     *)
(* rests one that timed out or limits the rate.  An endpoint whose         *)
(* creation failed is tried again once the service is up.                  *)
(***************************************************************************)
EXTENDS Integers

CONSTANTS
  Endpoints,    \* endpoints of the project's network configuration
  ChainId,      \* chainId of the project's network configuration
  OtherHash,    \* genesis hash of some other chain
  Empty,        \* the empty string, which also stands for an absent key
  NaN,
  Networks,     \* what the endpoints' block 1 may say
  Requests,     \* names of requests; each is made at most once
  MaxRound,     \* bound on the rounds of the chain
  MaxFaults,    \* bound on the requests to one endpoint that fail
  MaxAttempts   \* attempts node-core makes to fetch a batch of blocks

ASSUME ConnectionsAssumption ==
  /\ Endpoints # {}
  /\ OtherHash # ChainId
  /\ Empty \notin {ChainId, OtherHash}
  /\ Networks \subseteq [Endpoints -> [hash : {ChainId, OtherHash, Empty}, id : {Empty, "genesis-id"}]]
  /\ MaxRound \in Nat /\ MaxRound > 0
  /\ NaN \notin Int
  /\ MaxFaults \in Nat
  /\ MaxAttempts \in Nat /\ MaxAttempts > 0

Rounds == 1 .. MaxRound

\* Rounds that are asked for: the round after the last of them comes to exist.
Heights == 1 .. (MaxRound - 1)

VARIABLES
  network,   \* what block 1 of an endpoint says: genesis-hash and genesis-id
  head,      \* the last round of an endpoint
  conn,      \* the connection of an endpoint
  status,    \* of AlgorandApiService.init: "off", "init", "ready", "exit"
  requests,  \* the requests of this process
  faults,    \* failed requests to an endpoint so far
  sources    \* genesis hashes of the endpoints that answered requests

connVars == <<network, head, conn, status, requests, faults, sources>>

ConnStates ==
  {"new", "creating", "failed", "refused", "pooled", "resting", "disconnected"}

\* Operations that begin with a health check, that look up one round (with getSafeApi it is
\* the handler that does), and that fetch blocks with their hashes.
HealthOps == {"getFinalizedHeader", "getBestHeight"}

LookupOps == {"getHeaderForHeight", "getHeaderForHash", "getBlockTimestamp", "getSafeApi"}

BlockOps == {"fetchBlocks", "fetchChainBlock"}

Ops == HealthOps \cup LookupOps \cup BlockOps

\* What a request waits for, and how it ends.
Stages ==
  {"unused", "health", "header", "blocks", "pending", "again", "answered", "rejected"}

NoRequest ==
  [op |-> "getBestHeight", api |-> CHOOSE e \in Endpoints : TRUE, stage |-> "unused",
   round |-> NaN, attempt |-> 1, fault |-> FALSE]

ConnInit ==
  /\ network \in Networks
  /\ head \in [Endpoints -> Rounds]
  /\ conn = [e \in Endpoints |-> "new"]
  /\ status = "off"
  /\ requests = [r \in Requests |-> NoRequest]
  /\ faults = [e \in Endpoints |-> 0]
  /\ sources = {}

Fault(e) ==
  /\ faults[e] < MaxFaults
  /\ faults' = [faults EXCEPT ![e] = @ + 1]

\* The chain: each endpoint follows it at its own pace.
AdvanceHead(e) ==
  /\ head[e] < MaxRound
  /\ head' = [head EXCEPT ![e] = @ + 1]
  /\ UNCHANGED <<network, conn, status, requests, faults, sources>>
------------------------------------------------------------------------------
(***************************************************************************)
(* Start of the service.                                                   *)
(***************************************************************************)

\* AlgorandApiService.init: connections to all endpoints are created at once.
CreateConnections ==
  /\ status = "off"
  /\ status' = "init"
  /\ conn' = [e \in Endpoints |-> "creating"]
  /\ UNCHANGED <<network, head, requests, faults, sources>>

\* The constructor of AlgorandApiConnection reads networkMeta from block 1; the
\* getters assert that neither value is empty.
HasNetworkMeta(e) == network[e].hash # Empty /\ network[e].id # Empty

\* Mutant: any genesis hash will do.
AssertSomeChainId(e) == network[e].hash # Empty

AssertChainId(e) == network[e].hash = ChainId

\* The lookup of block 1 arrives and both checks pass.
Connected(e) ==
  /\ conn[e] = "creating"
  /\ HasNetworkMeta(e)
  /\ AssertChainId(e)
  /\ conn' = [conn EXCEPT ![e] = "pooled"]
  /\ status' = IF status = "init" THEN "ready" ELSE status
  /\ UNCHANGED <<network, head, requests, faults, sources>>

\* A check throws: create rejects, or MetadataMismatchError.
Refused(e) ==
  /\ conn[e] = "creating"
  /\ ~ (HasNetworkMeta(e) /\ AssertChainId(e))
  /\ conn' = [conn EXCEPT ![e] = "refused"]
  /\ UNCHANGED <<network, head, status, requests, faults, sources>>

\* AlgorandApi.create rejects.
CreateFails(e) ==
  /\ conn[e] = "creating"
  /\ Fault(e)
  /\ conn' = [conn EXCEPT ![e] = "failed"]
  /\ UNCHANGED <<network, head, status, requests, sources>>

CreateAgain(e) ==
  /\ status = "ready"
  /\ conn[e] \in {"failed", "refused"}
  /\ conn' = [conn EXCEPT ![e] = "creating"]
  /\ UNCHANGED <<network, head, status, requests, faults, sources>>

\* Mutant: the first endpoint that fails ends the process.
InitFailsWithFirst ==
  /\ status = "init"
  /\ \E e \in Endpoints : conn[e] \in {"failed", "refused"}
  /\ status' = "exit"
  /\ UNCHANGED <<network, head, conn, requests, faults, sources>>

\* createConnections rejects when no endpoint is left: exitWithError.
InitFails ==
  /\ status = "init"
  /\ \A e \in Endpoints : conn[e] \in {"failed", "refused"}
  /\ status' = "exit"
  /\ UNCHANGED <<network, head, conn, requests, faults, sources>>
------------------------------------------------------------------------------
(***************************************************************************)
(* Errors.  An error is the set of what its text begins with or includes,  *)
(* and of its status code.                                                 *)
(***************************************************************************)
Marks ==
  {"Socket connection timeout", "disconnected from", "Rate Limited at endpoint",
   "429", "Exceeded max limit of"}

\* A text has one beginning.
Errors ==
  {marks \in SUBSET Marks : ~ {"disconnected from", "Rate Limited at endpoint"} \subseteq marks}

HandleError(marks) ==
  IF "Socket connection timeout" \in marks THEN "Timeout"
  ELSE IF "disconnected from" \in marks THEN "Connection"
  ELSE IF marks \cap {"Rate Limited at endpoint", "429"} # {} THEN "RateLimit"
  ELSE "Default"

\* The pool's reaction to an error of endpoint e.
PoolAfter(e, errorType) ==
  CASE errorType = "Connection"             -> [conn EXCEPT ![e] = "disconnected"]
    [] errorType \in {"Timeout", "RateLimit"} -> [conn EXCEPT ![e] = "resting"]
    [] OTHER                                -> conn

Rested(e) ==
  /\ conn[e] = "resting"
  /\ conn' = [conn EXCEPT ![e] = "pooled"]
  /\ UNCHANGED <<network, head, status, requests, faults, sources>>

\* apiConnect does nothing, so an endpoint that disconnected is back at once.
ApiConnect(e) ==
  /\ conn[e] = "disconnected"
  /\ conn' = [conn EXCEPT ![e] = "pooled"]
  /\ UNCHANGED <<network, head, status, requests, faults, sources>>
------------------------------------------------------------------------------
(***************************************************************************)
(* Requests.                                                               *)
(***************************************************************************)
InFlight(r) == requests[r].stage \in {"health", "header", "blocks", "pending"}

FirstStage(op) ==
  CASE op \in HealthOps -> "health"
    [] op \in LookupOps -> "header"
    [] op \in BlockOps  -> "blocks"

\* The round a request is about when it is made.  getHeaderForHash parses the hash,
\* a base64 text, as a decimal number: any number, or none.
FirstRounds(op, height) ==
  CASE op \in HealthOps         -> {NaN}
    [] op = "getHeaderForHash" -> Heights \cup {NaN}
    [] OTHER                   -> {height}

\* A method of BlockchainService, WorkerService or IndexerManager takes a connection
\* from the pool and keeps it until it has its answer.
Call(r, op, height) ==
  /\ requests[r].stage = "unused"
  /\ \E e \in Endpoints, n \in FirstRounds(op, height) :
       /\ conn[e] = "pooled"
       /\ requests' = [requests EXCEPT ![r] =
            [@ EXCEPT !.op = op, !.api = e, !.stage = FirstStage(op), !.round = n]]
  /\ UNCHANGED <<network, head, conn, status, faults, sources>>

\* The pool has no connection to give: it throws.
CallUnconnected(r, op) ==
  /\ requests[r].stage = "unused"
  /\ \A e \in Endpoints : conn[e] # "pooled"
  /\ requests' = [requests EXCEPT ![r] =
       [@ EXCEPT !.op = op, !.stage = "rejected", !.fault = TRUE]]
  /\ UNCHANGED <<network, head, conn, status, faults, sources>>

\* Mutant: the round of one endpoint is asked for at another one.
HealthOfAnother(r) ==
  /\ requests[r].stage = "health"
  /\ \E e \in Endpoints :
       /\ conn[e] = "pooled"
       /\ requests' = [requests EXCEPT
            ![r].round = head[requests[r].api], ![r].api = e,
            ![r].stage = IF requests[r].op = "getFinalizedHeader" THEN "header" ELSE "answered"]
  /\ sources' = sources \cup {network[requests[r].api].hash}
  /\ UNCHANGED <<network, head, conn, status, faults>>

\* Mutant: the round after the last one.
HealthOfNextRound(r) ==
  /\ requests[r].stage = "health"
  /\ requests' = [requests EXCEPT
       ![r].round = head[requests[r].api] + 1,
       ![r].stage = IF requests[r].op = "getFinalizedHeader" THEN "header" ELSE "answered"]
  /\ sources' = sources \cup {network[requests[r].api].hash}
  /\ UNCHANGED <<network, head, conn, status, faults>>

\* The health check arrives; getLatestBlockHeader goes on with the round it gives.
HealthAnswers(r) ==
  /\ requests[r].stage = "health"
  /\ requests' = [requests EXCEPT
       ![r].round = head[requests[r].api],
       ![r].stage = IF requests[r].op = "getFinalizedHeader" THEN "header" ELSE "answered"]
  /\ sources' = sources \cup {network[requests[r].api].hash}
  /\ UNCHANGED <<network, head, conn, status, faults>>

HeaderAnswers(r) ==
  /\ requests[r].stage = "header"
  /\ requests[r].round \in 1 .. head[requests[r].api]
  /\ requests' = [requests EXCEPT ![r].stage = "answered"]
  /\ sources' = sources \cup {network[requests[r].api].hash}
  /\ UNCHANGED <<network, head, conn, status, faults>>

\* The endpoint does not have the round: an error without marks.
HeaderMissing(r) ==
  /\ requests[r].stage = "header"
  /\ requests[r].round \notin 1 .. head[requests[r].api]
  /\ requests' = [requests EXCEPT ![r].stage = "rejected"]
  /\ conn' = PoolAfter(requests[r].api, HandleError({}))
  /\ UNCHANGED <<network, head, status, faults, sources>>

\* AlgorandApi.fetchBlocks, in detail in module FetchBlocks: a block comes with its
\* hash once the round after it is there.
BlocksAnswer(r) ==
  /\ requests[r].stage = "blocks"
  /\ requests[r].round < head[requests[r].api]
  /\ requests' = [requests EXCEPT ![r].stage = "answered"]
  /\ sources' = sources \cup {network[requests[r].api].hash}
  /\ UNCHANGED <<network, head, conn, status, faults>>

\* The next round is pending: getBlockHash waits for it.
BlocksPending(r) ==
  /\ requests[r].stage = "blocks"
  /\ requests[r].round = head[requests[r].api]
  /\ requests' = [requests EXCEPT ![r].stage = "pending"]
  /\ UNCHANGED <<network, head, conn, status, faults, sources>>

\* What becomes of a request that meets an error: fetchBlocks is repeated with
\* another connection, up to a number of attempts.
AfterError(request) ==
  IF request.op \in BlockOps /\ request.attempt < MaxAttempts
  THEN [request EXCEPT !.stage = "again", !.attempt = @ + 1]
  ELSE [request EXCEPT !.stage = "rejected"]

\* Mutant: a wait for the next round has no end.
BlocksThrowIfBehind(r) ==
  /\ requests[r].stage = "blocks" /\ requests[r].round > head[requests[r].api]
  /\ requests' = [requests EXCEPT ![r] = AfterError(@)]
  /\ conn' = PoolAfter(requests[r].api, HandleError({}))
  /\ UNCHANGED <<network, head, status, faults, sources>>

\* The endpoint is behind the round, or the wait for the next one is over.
BlocksThrow(r) ==
  /\ \/ requests[r].stage = "blocks" /\ requests[r].round > head[requests[r].api]
     \/ requests[r].stage = "pending" /\ requests[r].round < head[requests[r].api]
  /\ requests' = [requests EXCEPT ![r] = AfterError(@)]
  /\ conn' = PoolAfter(requests[r].api, HandleError({}))
  /\ UNCHANGED <<network, head, status, faults, sources>>

FetchAgain(r) ==
  /\ requests[r].stage = "again"
  /\ \E e \in Endpoints :
       /\ conn[e] = "pooled"
       /\ requests' = [requests EXCEPT ![r].api = e, ![r].stage = "blocks"]
  /\ UNCHANGED <<network, head, conn, status, faults, sources>>

\* A request to the endpoint fails with any error.
RequestFails(r) ==
  /\ InFlight(r)
  /\ Fault(requests[r].api)
  /\ requests' = [requests EXCEPT ![r] = AfterError([@ EXCEPT !.fault = TRUE])]
  /\ \E marks \in Errors : conn' = PoolAfter(requests[r].api, HandleError(marks))
  /\ UNCHANGED <<network, head, status, sources>>
------------------------------------------------------------------------------
ConnectNext ==
  \/ CreateConnections
  \/ InitFails
  \/ \E e \in Endpoints : Connected(e) \/ Refused(e) \/ CreateFails(e)

PoolNext ==
  \E e \in Endpoints : AdvanceHead(e) \/ CreateAgain(e) \/ Rested(e) \/ ApiConnect(e)

AnswerTo(r) ==
  \/ HealthAnswers(r) \/ HeaderAnswers(r) \/ HeaderMissing(r)
  \/ BlocksAnswer(r) \/ BlocksPending(r) \/ BlocksThrow(r) \/ FetchAgain(r)
  \/ RequestFails(r)

ConnNext ==
  \/ ConnectNext
  \/ PoolNext
  \/ \E r \in Requests :
       \/ AnswerTo(r)
       \/ \E op \in Ops : CallUnconnected(r, op) \/ \E height \in Heights : Call(r, op, height)

ConnSafeSpec == ConnInit /\ [][ConnNext]_connVars

\* Requests to endpoints end with an answer or an error, the chain grows, and node-core
\* brings endpoints back.  Nobody has to start the service or to use it.
ConnFairness ==
  /\ \A e \in Endpoints :
       /\ WF_connVars(Connected(e) \/ Refused(e) \/ CreateFails(e))
       /\ WF_connVars(AdvanceHead(e))
       /\ WF_connVars(Rested(e) \/ ApiConnect(e))
  /\ WF_connVars(InitFails)
  /\ \A r \in Requests : WF_connVars(AnswerTo(r))

ConnSpec == ConnSafeSpec /\ ConnFairness
------------------------------------------------------------------------------
ConnTypeOK ==
  /\ network \in Networks
  /\ head \in [Endpoints -> Rounds]
  /\ conn \in [Endpoints -> ConnStates]
  /\ status \in {"off", "init", "ready", "exit"}
  /\ requests \in [Requests -> [op : Ops, api : Endpoints, stage : Stages,
                               round : Rounds \cup {NaN}, attempt : 1 .. MaxAttempts,
                               fault : BOOLEAN]]
  /\ faults \in [Endpoints -> 0 .. MaxFaults]
  /\ sources \subseteq {ChainId, OtherHash, Empty}

(***************************************************************************)
(* Blocks, headers and heights that reach the node come from the chain     *)
(* that the project names, whichever endpoints are configured, fail,       *)
(* disconnect, and come back without being checked again.                  *)
(***************************************************************************)
OneChain == sources \subseteq {ChainId}

(***************************************************************************)
(* Endpoints may be at different rounds, but getFinalizedHeader asks one   *)
(* endpoint for its round and for the header: it is never rejected for a   *)
(* round that the endpoint does not have.                                  *)
(***************************************************************************)
FinalizedExists ==
  \A r \in Requests :
    requests[r].op = "getFinalizedHeader" /\ requests[r].stage = "rejected" => requests[r].fault

(***************************************************************************)
(* The process only ends for want of connections if every endpoint of the  *)
(* project's chain failed: endpoints of other chains, or without a         *)
(* genesis, do not keep it from starting.                                  *)
(***************************************************************************)
ExitForCause ==
  status = "exit" =>
    \A e \in Endpoints :
      network[e].hash = ChainId /\ network[e].id # Empty => faults[e] > 0

(***************************************************************************)
(* Every request ends, however endpoints lag behind, rest, disconnect and  *)
(* come back.                                                              *)
(***************************************************************************)
RequestsEnd ==
  \A r \in Requests :
    (requests[r].stage # "unused") ~> (requests[r].stage \in {"answered", "rejected"})

Service == INSTANCE ApiService

(***************************************************************************)
(* The connections implement the service the node relies on.               *)
(***************************************************************************)
ImplementsApiService == Service!Spec
==============================================================================
