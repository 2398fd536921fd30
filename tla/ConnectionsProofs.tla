------------------------- MODULE ConnectionsProofs ---------------------------
(***************************************************************************)
(* Proofs about Connections, for any endpoints and whatever chains they    *)
(* follow, any number of requests and of failures.                         *)
(***************************************************************************)
EXTENDS Connections, TLAPS

Checked == {"pooled", "resting", "disconnected"}

(***************************************************************************)
(* The inductive invariant.  An endpoint that was ever in the pool passed  *)
(* the check of its chain, and apiConnect needs no second one; a request   *)
(* in flight is at such an endpoint; a header that getFinalizedHeader asks *)
(* for is there, since heads only grow.                                    *)
(***************************************************************************)
PoolInv ==
  \A e \in Endpoints :
    /\ conn[e] \in Checked => network[e].hash = ChainId /\ status = "ready"
    /\ conn[e] = "failed" => faults[e] > 0
    /\ conn[e] = "refused" => ~ (network[e].hash = ChainId /\ network[e].id # Empty)
    /\ status = "exit" => conn[e] \in {"failed", "refused"}
    /\ status = "off" => conn[e] = "new"

RequestInv(r) ==
  /\ InFlight(r) => conn[requests[r].api] \in Checked
  /\ requests[r].op = "getFinalizedHeader" =>
       requests[r].stage \notin {"blocks", "pending", "again"}
  /\ requests[r].op = "getFinalizedHeader" /\ requests[r].stage = "header" =>
       requests[r].round \in 1 .. head[requests[r].api]
  /\ requests[r].op = "getFinalizedHeader" /\ requests[r].stage = "rejected" => requests[r].fault

RequestsInv == \A r \in Requests : RequestInv(r)

RequestSet ==
  [op : Ops, api : Endpoints, stage : Stages, round : Rounds \cup {NaN},
   attempt : 1 .. MaxAttempts, fault : BOOLEAN]

ConnInv == ConnTypeOK /\ PoolInv /\ RequestsInv /\ OneChain

\* The invariant holds initially.
LEMMA ConnInitInv == ConnInit => ConnInv
<1> SUFFICES ASSUME ConnInit PROVE ConnInv
  OBVIOUS
<1>1. NoRequest \in [op : Ops, api : Endpoints, stage : Stages, round : Rounds \cup {NaN},
                     attempt : 1 .. MaxAttempts, fault : BOOLEAN]
  BY ConnectionsAssumption DEF NoRequest, Ops, HealthOps, Stages
<1>2. NoRequest.stage = "unused"
  BY DEF NoRequest
<1>3. ConnTypeOK
  BY <1>1, ConnectionsAssumption DEF ConnInit, ConnTypeOK, ConnStates
<1>4. PoolInv
  BY DEF ConnInit, PoolInv, Checked
<1>5. RequestsInv
  BY <1>2 DEF ConnInit, RequestsInv, RequestInv, InFlight
<1> QED
  BY <1>3, <1>4, <1>5 DEF ConnInv, ConnInit, OneChain

\* The steps by which the service starts keep the invariant.
LEMMA ConnectStep ==
  ASSUME ConnInv, ConnectNext
  PROVE  ConnInv'
<1> USE DEF ConnInv, ConnTypeOK, ConnStates, PoolInv, Checked, RequestsInv, RequestInv,
           InFlight, OneChain
<1>1. CASE CreateConnections
  BY <1>1 DEF CreateConnections
<1>2. CASE InitFails
  BY <1>2 DEF InitFails
<1>3. ASSUME NEW e \in Endpoints, Connected(e) PROVE ConnInv'
  BY <1>3 DEF Connected, HasNetworkMeta, AssertChainId
<1>4. ASSUME NEW e \in Endpoints, Refused(e) PROVE ConnInv'
  BY <1>4, ConnectionsAssumption DEF Refused, HasNetworkMeta, AssertChainId
<1>5. ASSUME NEW e \in Endpoints, CreateFails(e) PROVE ConnInv'
  BY <1>5, ConnectionsAssumption DEF CreateFails, Fault
<1> QED
  BY <1>1, <1>2, <1>3, <1>4, <1>5 DEF ConnectNext

\* The steps of the pool and of the chain keep the invariant.
LEMMA PoolStep ==
  ASSUME ConnInv, PoolNext
  PROVE  ConnInv'
<1> USE DEF ConnInv, ConnTypeOK, ConnStates, PoolInv, Checked, RequestsInv, RequestInv,
           InFlight, OneChain
<1>1. ASSUME NEW e \in Endpoints, AdvanceHead(e) PROVE ConnInv'
  BY <1>1, ConnectionsAssumption DEF AdvanceHead, Rounds
<1>2. ASSUME NEW e \in Endpoints, CreateAgain(e) PROVE ConnInv'
  BY <1>2 DEF CreateAgain
<1>3. ASSUME NEW e \in Endpoints, Rested(e) PROVE ConnInv'
  BY <1>3 DEF Rested
<1>4. ASSUME NEW e \in Endpoints, ApiConnect(e) PROVE ConnInv'
  BY <1>4 DEF ApiConnect
<1> QED
  BY <1>1, <1>2, <1>3, <1>4 DEF PoolNext

\* A step that changes one request, and of the pool only endpoints that were checked.
LEMMA RequestChange ==
  ASSUME ConnInv, NEW r \in Requests,
         requests' = [requests EXCEPT ![r] = requests'[r]],
         requests'[r] \in RequestSet,
         RequestInv(r)',
         UNCHANGED <<network, head, status>>,
         conn' \in [Endpoints -> ConnStates],
         \A e \in Endpoints : conn'[e] = conn[e] \/ {conn[e], conn'[e]} \subseteq Checked,
         faults' \in [Endpoints -> 0 .. MaxFaults],
         \A e \in Endpoints : faults'[e] >= faults[e],
         sources' \subseteq {ChainId}
  PROVE  ConnInv'
<1> USE DEF ConnInv, ConnTypeOK
<1>1. ConnTypeOK'
  BY DEF RequestSet
<1>2. PoolInv'
  BY ConnectionsAssumption DEF PoolInv, Checked
<1>3. ASSUME NEW s \in Requests, s # r PROVE RequestInv(s)'
  <2>1. requests'[s] = requests[s] /\ RequestInv(s) /\ requests[s].api \in Endpoints
    BY <1>3 DEF RequestsInv
  <2> QED
    BY <2>1 DEF RequestInv, InFlight, Checked
<1> QED
  BY <1>1, <1>2, <1>3 DEF RequestsInv, OneChain

\* A step that changes one request and nothing of the pool.
LEMMA RequestOnly ==
  ASSUME ConnInv, NEW r \in Requests,
         requests' = [requests EXCEPT ![r] = requests'[r]],
         requests'[r] \in RequestSet,
         RequestInv(r)',
         UNCHANGED <<network, head, conn, status, faults>>,
         sources' \subseteq {ChainId}
  PROVE  ConnInv'
<1>1. conn' \in [Endpoints -> ConnStates] /\ faults' \in [Endpoints -> 0 .. MaxFaults]
  BY DEF ConnInv, ConnTypeOK
<1>2. \A e \in Endpoints : conn'[e] = conn[e] /\ faults'[e] >= faults[e]
  BY ConnectionsAssumption DEF ConnInv, ConnTypeOK
<1> QED
  BY <1>1, <1>2, RequestChange

\* Calls keep the invariant.
LEMMA CallStep ==
  ASSUME ConnInv, NEW r \in Requests, NEW op \in Ops, NEW height \in Heights,
         Call(r, op, height)
  PROVE  ConnInv'
<1>0. requests \in [Requests -> RequestSet] /\ requests[r] \in RequestSet
  BY DEF ConnInv, ConnTypeOK, RequestSet
<1>1. FirstRounds(op, height) \subseteq Rounds \cup {NaN}
  BY ConnectionsAssumption DEF FirstRounds, Heights, Rounds
<1>2. FirstStage(op) \in Stages /\ FirstStage(op) # "rejected"
  BY DEF FirstStage, Ops, HealthOps, LookupOps, BlockOps, Stages
<1>3. op = "getFinalizedHeader" => FirstStage(op) = "health"
  BY DEF FirstStage, HealthOps, LookupOps, BlockOps
<1>4. PICK e \in Endpoints, n \in FirstRounds(op, height) :
        /\ conn[e] = "pooled"
        /\ requests' = [requests EXCEPT ![r] =
             [@ EXCEPT !.op = op, !.api = e, !.stage = FirstStage(op), !.round = n]]
  BY DEF Call
<1>5. requests'[r] = [requests[r] EXCEPT !.op = op, !.api = e, !.stage = FirstStage(op), !.round = n]
  BY <1>0, <1>4
<1>6. requests'[r] \in RequestSet
  BY <1>0, <1>1, <1>2, <1>5 DEF RequestSet
<1>7. RequestInv(r)'
  BY <1>0, <1>2, <1>3, <1>4, <1>5 DEF RequestInv, RequestSet, Checked, Call
<1>8. requests' = [requests EXCEPT ![r] = requests'[r]]
  BY <1>4, <1>5
<1>9. UNCHANGED <<network, head, conn, status, faults>> /\ sources' \subseteq {ChainId}
  BY DEF Call, ConnInv, OneChain
<1> QED
  BY <1>6, <1>7, <1>8, <1>9, RequestOnly

\* So does a call that the pool cannot serve.
LEMMA UnconnectedStep ==
  ASSUME ConnInv, NEW r \in Requests, NEW op \in Ops, CallUnconnected(r, op)
  PROVE  ConnInv'
<1>0. requests \in [Requests -> RequestSet] /\ requests[r] \in RequestSet
  BY DEF ConnInv, ConnTypeOK, RequestSet
<1>1. requests'[r] = [requests[r] EXCEPT !.op = op, !.stage = "rejected", !.fault = TRUE]
  BY <1>0 DEF CallUnconnected
<1>2. requests'[r] \in RequestSet
  BY <1>0, <1>1 DEF RequestSet, Stages
<1>3. RequestInv(r)'
  BY <1>0, <1>1 DEF RequestInv, RequestSet, InFlight
<1>4. requests' = [requests EXCEPT ![r] = requests'[r]]
  BY <1>1 DEF CallUnconnected
<1>5. UNCHANGED <<network, head, conn, status, faults>> /\ sources' \subseteq {ChainId}
  BY DEF CallUnconnected, ConnInv, OneChain
<1> QED
  BY <1>2, <1>3, <1>4, <1>5, RequestOnly

\* The pool's reaction to an error leaves only endpoints that were checked in the pool.
LEMMA PoolAfterError ==
  ASSUME ConnInv, NEW e \in Endpoints, conn[e] \in Checked, NEW errorType
  PROVE  /\ PoolAfter(e, errorType) \in [Endpoints -> ConnStates]
         /\ \A f \in Endpoints :
              PoolAfter(e, errorType)[f] = conn[f] \/ {conn[f], PoolAfter(e, errorType)[f]} \subseteq Checked
  BY DEF ConnInv, ConnTypeOK, ConnStates, Checked, PoolAfter

\* Answers keep the invariant: they come from an endpoint that was checked.
LEMMA AnsweredStep ==
  ASSUME ConnInv, NEW r \in Requests,
         HealthAnswers(r) \/ HeaderAnswers(r) \/ BlocksAnswer(r) \/ BlocksPending(r) \/ FetchAgain(r)
  PROVE  ConnInv'
<1>0. requests \in [Requests -> RequestSet] /\ requests[r] \in RequestSet
  BY DEF ConnInv, ConnTypeOK, RequestSet
<1>1. InFlight(r) => network[requests[r].api].hash = ChainId /\ conn[requests[r].api] \in Checked
  BY <1>0 DEF ConnInv, PoolInv, RequestsInv, RequestInv, RequestSet
<1>2. head[requests[r].api] \in Rounds /\ head[requests[r].api] >= 1
  BY <1>0, ConnectionsAssumption DEF ConnInv, ConnTypeOK, RequestSet, Rounds
<1>3. RequestInv(r)
  BY DEF ConnInv, RequestsInv
<1>4. UNCHANGED <<network, head, conn, status, faults>> /\ sources' \subseteq {ChainId}
  BY <1>1 DEF HealthAnswers, HeaderAnswers, BlocksAnswer, BlocksPending, FetchAgain, InFlight,
              ConnInv, OneChain
<1>5. CASE HealthAnswers(r)
  <2>1. requests'[r] = [requests[r] EXCEPT !.round = head[requests[r].api],
          !.stage = IF requests[r].op = "getFinalizedHeader" THEN "header" ELSE "answered"]
    BY <1>0, <1>5 DEF HealthAnswers
  <2>2. requests' = [requests EXCEPT ![r] = requests'[r]]
    BY <1>0, <1>5 DEF HealthAnswers
  <2>3. requests'[r] \in RequestSet
    BY <1>0, <1>2, <2>1 DEF RequestSet, Stages
  <2>4. RequestInv(r)'
    BY <1>0, <1>1, <1>2, <1>4, <1>5, <2>1, ConnectionsAssumption
       DEF HealthAnswers, RequestInv, RequestSet, InFlight, Rounds
  <2> QED
    BY <1>4, <2>2, <2>3, <2>4, RequestOnly
<1>6. CASE HeaderAnswers(r) \/ BlocksAnswer(r)
  <2>1. requests'[r] = [requests[r] EXCEPT !.stage = "answered"]
    BY <1>0, <1>6 DEF HeaderAnswers, BlocksAnswer
  <2>2. requests' = [requests EXCEPT ![r] = requests'[r]]
    BY <1>0, <1>6 DEF HeaderAnswers, BlocksAnswer
  <2>3. requests'[r] \in RequestSet
    BY <1>0, <2>1 DEF RequestSet, Stages
  <2>4. RequestInv(r)'
    BY <1>0, <2>1 DEF RequestInv, RequestSet, InFlight
  <2> QED
    BY <1>4, <2>2, <2>3, <2>4, RequestOnly
<1>7. CASE BlocksPending(r)
  <2>1. requests'[r] = [requests[r] EXCEPT !.stage = "pending"]
    BY <1>0, <1>7 DEF BlocksPending
  <2>2. requests' = [requests EXCEPT ![r] = requests'[r]]
    BY <1>0, <1>7 DEF BlocksPending
  <2>3. requests'[r] \in RequestSet
    BY <1>0, <2>1 DEF RequestSet, Stages
  <2>4. RequestInv(r)'
    BY <1>0, <1>1, <1>3, <1>4, <1>7, <2>1 DEF BlocksPending, RequestInv, RequestSet, InFlight
  <2> QED
    BY <1>4, <2>2, <2>3, <2>4, RequestOnly
<1>8. CASE FetchAgain(r)
  <2>1. PICK e \in Endpoints :
          /\ conn[e] = "pooled"
          /\ requests' = [requests EXCEPT ![r].api = e, ![r].stage = "blocks"]
    BY <1>8 DEF FetchAgain
  <2>2. requests'[r] = [requests[r] EXCEPT !.api = e, !.stage = "blocks"]
    BY <1>0, <2>1
  <2>3. requests' = [requests EXCEPT ![r] = requests'[r]]
    BY <1>0, <2>1
  <2>4. requests'[r] \in RequestSet
    BY <1>0, <2>2 DEF RequestSet, Stages
  <2>5. RequestInv(r)'
    BY <1>0, <1>3, <1>4, <1>8, <2>1, <2>2 DEF FetchAgain, RequestInv, RequestSet, InFlight, Checked
  <2> QED
    BY <1>4, <2>3, <2>4, <2>5, RequestOnly
<1> QED
  BY <1>5, <1>6, <1>7, <1>8

\* What an error makes of a request is a request.
LEMMA AfterErrorTyped ==
  ASSUME NEW request \in RequestSet
  PROVE  /\ AfterError(request) \in RequestSet
         /\ AfterError(request).stage \in {"again", "rejected"}
         /\ AfterError(request).op = request.op
         /\ AfterError(request).fault = request.fault
         /\ request.op = "getFinalizedHeader" => AfterError(request).stage = "rejected"
<1>1. request.attempt \in 1 .. MaxAttempts
  BY DEF RequestSet
<1>2. request.op = "getFinalizedHeader" => request.op \notin BlockOps
  BY DEF BlockOps
<1>3. request.attempt < MaxAttempts => request.attempt + 1 \in 1 .. MaxAttempts
  BY <1>1, ConnectionsAssumption
<1> QED
  BY <1>1, <1>2, <1>3 DEF AfterError, RequestSet, Stages

\* Errors keep the invariant: a header that is not there was not asked for by
\* getFinalizedHeader.
LEMMA ErrorStep ==
  ASSUME ConnInv, NEW r \in Requests,
         HeaderMissing(r) \/ BlocksThrow(r) \/ RequestFails(r)
  PROVE  ConnInv'
<1>0. requests \in [Requests -> RequestSet] /\ requests[r] \in RequestSet
  BY DEF ConnInv, ConnTypeOK, RequestSet
<1>1. InFlight(r)
  BY DEF HeaderMissing, BlocksThrow, RequestFails, InFlight
<1>2. requests[r].api \in Endpoints /\ conn[requests[r].api] \in Checked
  BY <1>0, <1>1 DEF ConnInv, RequestsInv, RequestInv, RequestSet
<1>3. RequestInv(r)
  BY DEF ConnInv, RequestsInv
<1>4. PICK errorType : conn' = PoolAfter(requests[r].api, errorType)
  BY DEF HeaderMissing, BlocksThrow, RequestFails
<1>5. /\ conn' \in [Endpoints -> ConnStates]
      /\ \A e \in Endpoints : conn'[e] = conn[e] \/ {conn[e], conn'[e]} \subseteq Checked
  BY <1>2, <1>4, PoolAfterError
<1>6. UNCHANGED <<network, head, status>> /\ sources' \subseteq {ChainId}
  BY DEF HeaderMissing, BlocksThrow, RequestFails, ConnInv, OneChain
<1>7. /\ faults' \in [Endpoints -> 0 .. MaxFaults]
      /\ \A e \in Endpoints : faults'[e] >= faults[e]
  <2>1. faults \in [Endpoints -> 0 .. MaxFaults]
    BY DEF ConnInv, ConnTypeOK
  <2>2. CASE UNCHANGED faults
    BY <2>1, <2>2, ConnectionsAssumption
  <2>3. CASE RequestFails(r)
    BY <2>1, <2>3, <1>2, ConnectionsAssumption DEF RequestFails, Fault
  <2> QED
    BY <2>2, <2>3 DEF HeaderMissing, BlocksThrow
<1>8. CASE HeaderMissing(r)
  <2>1. requests'[r] = [requests[r] EXCEPT !.stage = "rejected"]
    BY <1>0, <1>8 DEF HeaderMissing
  <2>2. requests' = [requests EXCEPT ![r] = requests'[r]]
    BY <1>0, <1>8 DEF HeaderMissing
  <2>3. requests'[r] \in RequestSet
    BY <1>0, <2>1 DEF RequestSet, Stages
  <2>4. requests[r].op # "getFinalizedHeader"
    BY <1>3, <1>8 DEF HeaderMissing, RequestInv
  <2>5. RequestInv(r)'
    BY <1>0, <2>1, <2>4 DEF RequestInv, RequestSet, InFlight
  <2> QED
    BY <1>5, <1>6, <1>7, <2>2, <2>3, <2>5, RequestChange
<1>9. CASE BlocksThrow(r)
  <2>1. requests'[r] = AfterError(requests[r])
    BY <1>0, <1>9 DEF BlocksThrow
  <2>2. requests' = [requests EXCEPT ![r] = requests'[r]]
    BY <1>0, <1>9, <2>1 DEF BlocksThrow
  <2>3. requests[r].op # "getFinalizedHeader"
    BY <1>3, <1>9 DEF BlocksThrow, RequestInv
  <2>4. requests'[r] \in RequestSet
    BY <1>0, <2>1, AfterErrorTyped
  <2>5. requests'[r].op # "getFinalizedHeader" /\ requests'[r].stage \in {"again", "rejected"}
    BY <1>0, <2>1, <2>3, AfterErrorTyped
  <2>6. RequestInv(r)'
    BY <2>5 DEF RequestInv, InFlight
  <2> QED
    BY <1>5, <1>6, <1>7, <2>2, <2>4, <2>6, RequestChange
<1>10. CASE RequestFails(r)
  <2> DEFINE failing == [requests[r] EXCEPT !.fault = TRUE]
  <2>1. requests'[r] = AfterError(failing)
    BY <1>0, <1>10 DEF RequestFails
  <2>2. requests' = [requests EXCEPT ![r] = requests'[r]]
    BY <1>0, <1>10, <2>1 DEF RequestFails
  <2>3. failing \in RequestSet /\ failing.fault = TRUE
    BY <1>0 DEF RequestSet
  <2> HIDE DEF failing
  <2>4. requests'[r] \in RequestSet
    BY <2>1, <2>3, AfterErrorTyped
  <2>5. /\ requests'[r].stage \in {"again", "rejected"}
        /\ requests'[r].op = "getFinalizedHeader" => requests'[r].stage = "rejected"
        /\ requests'[r].fault = TRUE
    BY <2>1, <2>3, AfterErrorTyped
  <2>6. RequestInv(r)'
    BY <2>5 DEF RequestInv, InFlight
  <2> QED
    BY <1>5, <1>6, <1>7, <2>2, <2>4, <2>6, RequestChange
<1> QED
  BY <1>8, <1>9, <1>10

\* Every step keeps the invariant.
LEMMA ConnStep == ConnInv /\ [ConnNext]_connVars => ConnInv'
<1> SUFFICES ASSUME ConnInv, [ConnNext]_connVars PROVE ConnInv'
  OBVIOUS
<1>1. CASE ConnectNext
  BY <1>1, ConnectStep
<1>2. CASE PoolNext
  BY <1>2, PoolStep
<1>3. ASSUME NEW r \in Requests, AnswerTo(r) PROVE ConnInv'
  BY <1>3, AnsweredStep, ErrorStep DEF AnswerTo
<1>4. ASSUME NEW r \in Requests, NEW op \in Ops, CallUnconnected(r, op) PROVE ConnInv'
  BY <1>4, UnconnectedStep
<1>5. ASSUME NEW r \in Requests, NEW op \in Ops, NEW height \in Heights, Call(r, op, height)
      PROVE  ConnInv'
  BY <1>5, CallStep
<1>6. CASE UNCHANGED connVars
  BY <1>6 DEF connVars, ConnInv, ConnTypeOK, PoolInv, RequestsInv, RequestInv, InFlight, OneChain
<1> QED
  BY <1>1, <1>2, <1>3, <1>4, <1>5, <1>6 DEF ConnNext

\* The invariant always holds.
LEMMA ConnInvariant == ConnSafeSpec => []ConnInv
<1> QED
  BY ConnInitInv, ConnStep, PTL DEF ConnSafeSpec
------------------------------------------------------------------------------
\* Connections and requests keep their types: a round that is asked for exists on the chain,
\* and no batch is fetched more often than node-core's attempts allow.
THEOREM ConnTypeCorrect == ConnSafeSpec => []ConnTypeOK
<1>1. ConnInv => ConnTypeOK
  BY DEF ConnInv
<1> QED
  BY <1>1, ConnInvariant, PTL

\* Whatever endpoints are configured, and however often they disconnect and come back
\* unchecked, the node's data comes from the project's chain.
THEOREM OneChainCorrect == ConnSafeSpec => []OneChain
<1>1. ConnInv => OneChain
  BY DEF ConnInv
<1> QED
  BY <1>1, ConnInvariant, PTL

\* getFinalizedHeader is only rejected for a request that failed.
THEOREM FinalizedExistsCorrect == ConnSafeSpec => []FinalizedExists
<1>1. ConnInv => FinalizedExists
  BY DEF ConnInv, RequestsInv, RequestInv, FinalizedExists
<1> QED
  BY <1>1, ConnInvariant, PTL

\* The process only ends if every endpoint of its chain failed.
THEOREM ExitForCauseCorrect == ConnSafeSpec => []ExitForCause
<1>1. ConnInv => ExitForCause
  BY DEF ConnInv, PoolInv, ExitForCause
<1> QED
  BY <1>1, ConnInvariant, PTL

\* A step of the connections is a step of the service they implement.
LEMMA ServiceStep == ConnInv /\ [ConnNext]_connVars => [Service!Next]_(Service!vars)
<1> SUFFICES ASSUME ConnInv, [ConnNext]_connVars, ~ UNCHANGED <<status, sources>>
             PROVE  Service!Next
  BY DEF Service!vars
<1> USE DEF Service!Next, Service!Start, Service!Settle, Service!Answer
<1>1. CASE ConnectNext
  BY <1>1 DEF ConnectNext, CreateConnections, InitFails, Connected, Refused, CreateFails
<1>2. CASE PoolNext
  BY <1>2 DEF PoolNext, AdvanceHead, CreateAgain, Rested, ApiConnect
<1>3. ASSUME NEW r \in Requests, AnswerTo(r) PROVE Service!Next
  <2>1. requests[r].api \in Endpoints
    BY DEF ConnInv, ConnTypeOK
  <2>2. InFlight(r) => network[requests[r].api].hash = ChainId /\ status = "ready"
    BY <2>1 DEF ConnInv, PoolInv, RequestsInv, RequestInv
  <2>3. CASE HealthAnswers(r) \/ HeaderAnswers(r) \/ BlocksAnswer(r)
    BY <2>2, <2>3 DEF HealthAnswers, HeaderAnswers, BlocksAnswer, InFlight
  <2> QED
    BY <1>3, <2>3 DEF AnswerTo, HeaderMissing, BlocksPending, BlocksThrow, FetchAgain, RequestFails
<1>4. ASSUME NEW r \in Requests, NEW op \in Ops, CallUnconnected(r, op) PROVE Service!Next
  BY <1>4 DEF CallUnconnected
<1>5. ASSUME NEW r \in Requests, NEW op \in Ops, NEW height \in Heights, Call(r, op, height)
      PROVE  Service!Next
  BY <1>5 DEF Call
<1>6. CASE UNCHANGED connVars
  BY <1>6 DEF connVars
<1> QED
  BY <1>1, <1>2, <1>3, <1>4, <1>5, <1>6 DEF ConnNext

\* The connections implement the safety part of ApiService: data is only handed out by a
\* service that is up, and only of the project's chain.
THEOREM ApiServiceImplemented == ConnSafeSpec => Service!SafeSpec
<1>1. ConnInit => Service!Init
  BY DEF ConnInit, Service!Init
<1> QED
  BY <1>1, ServiceStep, ConnInvariant, PTL DEF ConnSafeSpec, Service!SafeSpec
==============================================================================
